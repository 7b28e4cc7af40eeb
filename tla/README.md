# OIDA: a verification companion

TLA+ modules, model-checking configurations and machine-checked proofs about the
services of OIDA. The reference is the code under `src/`; paths below are relative
to `src/` unless they start with `tla/`.

## 1. The system

OIDA is a set of Python services (FastAPI, SQLAlchemy, SQLite/Postgres), each with
its own database, that pass a piece of work from an idea to a delivery decision.

| Component | Where | State it keeps | Operations |
|---|---|---|---|
| Conductor Again, delivery orchestration | `services/conductor-again/backend/app/orchestration`, `routers/orchestration.py`, `integration/*_client.py` | business intents, delivery runs, specialist dispatches, specialist results, readiness decisions | create intent, create run, dispatch to engineering / infrastructure / QA / PM, execute engineering, refresh QA result, refresh PM status, compute readiness |
| Conductor Again, document handoff, intake, golden flow | `routers/document_handoff.py`, `routers/intake.py`, `routers/golden_flow.py` | relayed handoffs | take a handoff of Document Again, send it on to PM Again or QA Again, acknowledge it |
| Conductor Again, deliberation, multi-AI, skills, AI resources | `routers/deliberation.py` and neighbours | deliberation cases with their panel and submissions; transcripts, skills, budgets | start, submit, generate, critique, revise, decide; call language models |
| QA Again, ecosystem intake | `services/qa-again/backend/app/ecosystem*`, `routers/ecosystem_intake.py` | external requests and project links (master database); cycles and attempts (one database per project) | take a QARequest, map it to a cycle, re-run it |
| QA Again, cycles and gate | `qa_result_service.py`, `metrics.py`, `routers/cycles.py`, `cycle_results.py`, `signoffs.py`, `defects.py` | a cycle's status, its results and their reviews, sign-offs, defects | execute, review, lock, reopen, sign off, answer a QAResult |
| QA Again, evidence and hybrid runs | `routers/evidence.py`, `quota.py`, `reconciliation.py`, `routers/hybrid.py` | evidence rows and their objects in the storage; runs, checkpoint decisions | upload, archive, reconcile; run, wait, decide, finish |
| QA Again, authoring and reports | other routers | suites, cases, revisions | edit, publish, export |
| PM Again, ecosystem intake and status | `services/pm-again/backend/app/ecosystem`, `pm_status_service.py` | external work references (master database), projects, tasks (one database per project) | take a DeliveryWorkPackage, materialise tasks, answer status |
| PM Again, planning | `routers/change_requests.py`, `routers/documents.py`, other routers | change requests, their impacts, documents and sign-offs; tasks, phases, effort | submit, sign off, approve, reject, delete; edit, compute |
| Document Again, design truth | `services/document-again/backend/app/services.py` | artifacts and their revisions, confirmations, baselines, requirements and their changes, handoffs, outbox events | draft, edit, submit, confirm, baseline; draft a requirement, assess its impact, regenerate, confirm the change; hand off and deliver |
| Infra Again, execution | `services/infra-again/src/infra_again/execution`, `implementation/api.py` | plans, packages (in memory and as rows), runs; promotions, UAT records, rollback plans, readiness decisions | approve, package, preflight, execute, verify; approve, reject, consume, evaluate |
| Infra Again, the rest | `flow`, `intelligence`, `visualization`, `iac`, `providers` | designs, catalogues | plan, simulate, render |
| Account Again | `services/account-again/account_again` | tenants, identities, entitlements, quotas, usage, idempotency records | issue and verify tokens, evaluate entitlements, record usage |
| Workspace UI, gateways, scripts | `apps/oida-web`, `ops/fly`, `scripts` | none | render, forward |

How they interact: a caller (the workspace or an operator) calls Conductor Again,
which calls the others over HTTP and stores what they answer. Document Again delivers
its handoffs to Conductor, which relays them while Document waits. Nothing is pushed
back: QA Again's verdict and PM Again's status reach Conductor only when somebody calls
a `refresh-*` endpoint. Services authenticate to one another with tokens of Account
Again. No service shares a database with another.

What is hard. Every endpoint is a synchronous function that FastAPI runs in a thread
of its own with a session of its own, so the endpoints of one service interleave at
every commit, every query and every HTTP call. An HTTP call may be refused, lost after
it was acted on, or answered with something else than JSON. The machines stop when
idle (`ops/fly`, `auto_stop_machines`) and whatever a request had not committed is
gone. An operation that commits twice (register then send then mark; attempt in one
database, mapping in another) can be found half done.

What makes each component correct, and what the hazards in `PROJECT.json` are about:

* Orchestration: a READY decision has evidence behind it in all three services; a
  specialist is not asked twice; a dispatch says SENT only if it was; stages and
  intents move as their state machines say; a failed specialist stops what follows;
  the last verdict arrives.
* QA Again's intake: one request, at most one campaign; a request is mapped with its cycle
  and attempt, in the project its work package is linked to, unless a deletion took them.
* QA Again's gate: APPROVED never covers a critical case nobody executed; a review is of
  the reason it was given for.
* Evidence: what was answered as saved fits the quota; a row has its object.
* Hybrid runs: a run passes only after a human released its last checkpoint, and an
  ended run stays ended.
* Handoffs: a reference shown upstream is a row downstream; an acknowledgement is not
  taken back; a mapped work package has its tasks, in one project.
* Document Again: a baseline binds only what somebody confirmed; a confirmed revision
  does not change; an artifact has one current revision; a requirement shows its
  confirmed revision.
* Infra Again: a refusal lasts; a run told as a verified success ran all its tasks.
* Account Again: a usage record counts once, however often its call is repeated.
* PM Again's change requests: nothing enters the scope before a sign-off.
* Deliberation: the independent round ends with every member's answer, not before.

## 2. The modules

| Module | Models | Used by |
|---|---|---|
| `Readiness` | `orchestration/readiness.py`, the pure policy, as operators on a record of inputs | `ReadinessWalk`, `Orchestration` |
| `ReadinessWalk` | every order in which the newest reports of a run may change under the policy | `Services`, `WorkflowProofs` |
| `Orchestration` | all of Conductor's delivery orchestration | `MCOrchestration`, `OrchestrationProofs` |
| `MCOrchestration` | values of constants for the model checker, thread symmetry | the `orch_*` and `find_*` runs |
| `OrchestrationProofs` | theorems about `Orchestration` | - |
| `QaService` | what QA Again promises of a request, as a specification of five steps and a discard | `QaIntake` |
| `QaIntake` | QA Again's side of `dispatch-qa`: registration, projects and links, mapping, re-runs | `MCQaIntake`, `QaIntakeProofs` |
| `MCQaIntake` | values of constants, the sets of deliveries | `qa_intake`, `find_unmapped`, `find_wrong_project` |
| `QaIntakeProofs` | theorems about `QaIntake` | - |
| `DesignChanges` | Document Again's revisions, confirmations, baselines and requirement changes | `Services`, `DesignProofs` |
| `Handoffs` | a design handoff over Document Again, Conductor Again and PM Again | `Services`, `HandoffProofs`, `find_retry` |
| `QaEvidence` | evidence rows, objects, quota and reconciliation | `Services`, `QaCampaignProofs` |
| `HybridRuns` | hybrid runs, their runner and the humans who decide | `Services`, `QaCampaignProofs` |
| `QaCampaign` | a test cycle, its results, reviews, sign-offs and defects, and the gate | `Services`, `QaCampaignProofs` |
| `InfraPackages` | plans, packages and execution runs | `Services`, `InfraProofs` |
| `InfraPromotions` | promotion, UAT record, rollback plan, readiness | `Services`, `InfraProofs` |
| `AccountUsage` | usage and evaluation under idempotency keys | `Services`, `WorkflowProofs` |
| `ChangeRequests` | PM Again's change requests, their impacts and the documents that sign them off | `Services`, `WorkflowProofs` |
| `Deliberation` | one deliberation case of Conductor Again | `Services`, `WorkflowProofs` |
| `Services` | the parts that share no rows, one per behaviour | run `services`, `ServicesProofs` |
| `DesignProofs`, `HandoffProofs`, `QaCampaignProofs`, `InfraProofs` | theorems about the parts they are named for, `QaCampaignProofs` also about `HybridRuns` and `QaEvidence` | `ServicesProofs` |
| `WorkflowProofs` | theorems about `ReadinessWalk`, `AccountUsage`, `ChangeRequests` and `Deliberation` | `ServicesProofs` |
| `ServicesProofs` | the theorems of the parts as theorems of `ServicesSpec` | - |

### Orchestration

Every endpoint of `routers/orchestration.py` that changes state, and the service
methods, state machines, adapters and clients it goes through.

| In the model | In the code |
|---|---|
| `intent`, `run`, `dispatch`, `results`, `latest`, `decision` | the committed rows of `OrchestrationBusinessIntent`, `DeliveryRun`, `SpecialistDispatch` (by its unique idempotency key), `SpecialistResult` (the values, and the newest by `received_at`), `ReadinessDecision` (the newest reason code) |
| `pc`, `call`, `seen` | where each request is, with which arguments, and what it has read and not yet used |
| `received`, `gate` | external: the packages a specialist accepted (counted to 2), and the quality gate QA Again answers |

One action is what an endpoint does between two points at which another request can
interleave: a query whose answer is used later, a commit, an HTTP call. The chain of a
dispatch is `BeginDownstream` (or `BeginDispatchEngineering`, `BeginDispatchPm`) ->
`AssertEngineering` -> `AssertInfrastructure` -> `PickEngineering` -> `Lookup` ->
`Insert` -> one of the four `Send*` outcomes -> `MarkSent` or `MarkFailed` ->
`ReadStage` -> `Advance` (-> `Store` for infrastructure, whose result the adapter
produces itself). `ReadStage` and `Advance` are apart because `mark_dispatch_sent`
commits, which expires the session's copy of the run; the read that follows and the
write at the next commit are two statements. `Resolved` is what SQLAlchemy's
unit of work does with `run.status = ...; run.current_stage = "COMPLETE"`: a column is
written only if it differs from what the session had loaded. `Finish` ends a request
(an answer or an `HTTPException`); an exception nobody catches passes through a step
of its own (`AnswerError`). `Crash` drops every request in flight and keeps the rows.

Abstractions: a payload is a fingerprint (`Prints`), `Fresh` when it carries a
generated id and timestamp (equal to no stored payload), or `Stable` when it is the
run's work package. A report is a status and the blocking flag. PM's status is stored
and read but, as in the code, decides nothing. Tenants are left out: every lookup of
one run uses one tenant.

### QaIntake

What happens in QA Again when `SendAnswered` or `SendReplyLost` of `Orchestration` reach
it; `Orchestration` sees only that a request is taken and that its verdict comes or not.

| In the model | In the code |
|---|---|
| `request`, `newest` | `ExternalQARequest` by its unique idempotency key; the newest row of a qaRequestId |
| `project`, `link` | `Project` by its unique slug (id and tenant); `ExternalQAProjectLink`, the project id by work package |
| `published`, `cycles`, `attempts` | in each project's own database: whether a revision is published, `TestCycle` (the request it was made for), `QAExecutionAttempt` |
| `doomed` | how many deletions of a slug have removed the row and not yet the file |
| `orphaned`, `lost` | histories, read by no action: requests whose project was deleted while they had it in hand; requests whose cycle was removed with its file |
| `pc`, `call`, `seen` | as in `Orchestration` |

A delivery is `BeginIntake` (the lookup of the key) -> `Register` -> `FindLink` (->
`ChooseSlug` -> `CreateProject` -> `LinkProject`) (-> `ReloadProject`) -> `FindRevision` ->
`CreateCycle` -> `FindAttempt` -> `RecordAttempt` -> `MarkMapped`; a re-run `BeginRerun` ->
`ReadLast` -> `AppendAttempt`. Each arrow is a commit or a query whose answer is used
later. `ReloadProject` is the read of `project.slug` after a commit, which expires the row:
SQLAlchemy reads it again by its id, and finds none, or another project if the id was
given again. A row that a unique column refuses raises an `IntegrityError` nobody catches
(`Refuse`), and so does any statement of a locked database or of a row that is gone
(`Fail`). Rows of the master database and of a project's database are written in different
transactions, and `Crash` may fall between them.

A deletion is two steps, and neither looks whether a request works on the project:
`DeleteProject` removes the row, `RemoveFile` the file, and the link stays. In between
somebody may create a project of the same slug, whose file is then removed. Whoever has
the removed file open and writes gets an error (`Writing`), whoever opens the slug again
gets an empty file. A stop between the two steps leaves the file to the next project of
that slug. `NextIds` is SQLite's choice of an id, which repeats the greatest one when it
has been deleted.

Abstractions: a delivery is a key, a qaRequestId, a work package and a tenant (two
payloads that differ under one key are answered 409, which like a replay changes
nothing); which revision is found and which cases it has (a published one always has
some); the project's display name, which a later request may change; projects that
people create; the loop over suffixes is one step. `published` stays true until the file
is removed: publishing retires a revision only in favour of another, and in a file of no
project nothing is published.

What a deletion does to the requests at work on the project, the properties say request by
request. `MappedIsBacked` leaves out the requests of `lost` and `MappedInItsProject` those of
`orphaned`: for them the code does report a mapping of a campaign or a project that is gone
(section 4). Of every other request they hold, deletions of other projects and of its own
at any other moment included.

`QaService` is the promise: per key, a request is received, a campaign is started - one
ever -, a first run is made, the mapping is reported, and only then it is run again; a
deletion may discard campaigns at any moment, and the mapping of a lost one is reported all
the same. `QaIntake` is shown to implement it with `stage` the request's status (`unknown`
without a row), `campaign` whether a cycle of the key exists in any project's file or was
lost, and `runs` how many attempt numbers it has; the property is `ImplementsService`.


### DesignChanges

`job[e]` is the request that thread `e` serves: where it stands (`at`) and what it has
read. `create_revision` is `BeginCreate` -> `ReadNumber` -> `InsertRevision` (the number
is unique per artifact); `confirm_revision` is `BeginConfirm` -> `ReadSiblings` ->
`Confirm`; `create_baseline` `BeginBaseline` -> `Pick` (one revision after the other) ->
`FreezeBaseline`. A requirement change runs through `BeginDraft` -> `FindOpen` ->
`InsertDraft`, `BeginEdit` -> `Edit`, `BeginImpact` -> `StoreImpact`, `BeginRegenerate` ->
`NextTarget` -> (a `create_revision`) -> `CloseRegenerate`, and `BeginConfirmChange` ->
`Reauthenticate` -> for each generated revision `NextGenerated` -> `ReadSiblings` ->
`Confirm` -> at the end `AllConfirmed` -> `FreezeBaseline` -> `CloseChange`. What
`confirm_change` has pending in its session (the requirement's draft and row) is committed
by the first commit of the operations it calls: `ConfirmDraft` is therefore part of
`Confirm`. Which artifacts a change affects is what trace links say, so any set. The
statuses ARCHIVED and, of a change, REVIEWED are never set by these operations.
`overtaken` is a history: the revisions that were confirmed while another request, which had
found them editable, was still to commit (`InHand`). `ConfirmedIsFrozen` leaves them out,
and is otherwise unconditional.

### Handoffs

A courier is one delivery with its place in each of the three services (`deliver`,
`relay`, `pm`). Document waits 15 s and Conductor 30 (`DeliverFails`, `DispatchFails` may
come at any moment while the service below goes on); each machine may stop by itself
(`DocumentStops`, `ConductorStops`, `PmStops`). `held` and `found` are the statuses the
two sessions loaded, because an unchanged column is not written. A package carries the
stamp of its attempt, and PM Again compares whole payloads. `OtherPackage` is any other
package of the same intent in PM Again. The handoffs are of one Document project, so of
one business intent; a handoff of the QA kind goes to what `QaIntake` models.

### QaCampaign, HybridRuns

Every handler loads a row, tests it and commits what differs: `Load` and `Commit...` are
two steps with other commits in between (`Saved` is the write of an attribute that
changed). FAIL stands for BLOCKED too. `crossed` is a history: the cases whose row a
handler loaded to review and another to update, and both committed (`outrun` marks the one
that is late); `AcceptedAsReviewed` leaves them out until they are reviewed or set to
NOT_APPLICABLE again with nobody in between. The report (`BeginReport` ... `ReadDefectsAndAnswer`)
is the five queries of `build_qa_result`. A sign-off's latest decision per type comes to
APPROVED, REJECTED or PENDING. In `HybridRuns` a runner makes one request at a time;
`released` is whether a PASS decision was recorded since the run was last
sent to wait.

### QaEvidence

An upload is `BeginUpload` -> `CheckQuota` -> `Dedupe` -> `PutObject` -> `InsertRow` ->
`RecheckQuota` (-> `EvictRow` -> `Compensate`), with a failure or a stop at each point.
A file is its size. `accepted` records which rows were answered as saved. `InsertFails` is
either half of the `try` around the commit: the commit fails, or the row is committed and
its refresh fails, and the handler takes back the object all the same; `disowned` records
the rows of the second kind, which `RowHasObject` leaves out.
`DeleteOrphan` is not enabled for an object whose upload has not committed its row yet:
`reconciliation.py:8-16` asks the operator not to run the script then. `InFlight` is that
condition, and it is an assumption about the operator, not a guard of the code.

### InfraPackages, InfraPromotions

Handlers run on one event loop, so each is a step, except that a run awaits its
executors: `BeginRun`, `ExecuteTask`, `TaskEnds`, `EndRun`. `memory` is what `_packages`
holds: after a `Restart` nothing, and a package rebuilt from its row has no tasks.
`RunRow` keeps which tasks passed and failed; which of execution, observation, validation
and verification failed decides nothing. In `InfraPromotions` a digest is the status it
was computed for (`seal`), since nothing else it covers ever changes.

### AccountUsage

`BeginCall` -> `CheckIdempotent` -> `CommitCall`. `/usage` and `/entitlements/evaluate`
share one table of keys; the primary key decides between two calls that both found the
key free.

### ChangeRequests

A clerk is one request and what it has read. `update_change_request` is `BeginStatus` ->
`CommitStatus`, or for Approved `BeginApproval` -> `PassGate` (the document) ->
`ReadImpacts` -> `CommitApproval`; `submit_for_approval` is `BeginSubmitApproval` ->
`CommitSubmitApproval`, whose insert, flush and commit hold SQLite's write lock and are
one step; editing, reviewing and signing off a document are `BeginUpdateDocument`,
`BeginSubmitReview`, `BeginSignoff` -> `CommitDocument`. An update of a row that was
deleted meanwhile fails (`StaleDataError`). One impact row stands for all; an id is one
past the greatest, so a deleted last row's id comes again. Four histories are kept for
the property, all of the row and not of its id, so that `CreateChangeRequest` begins them
anew: `attached`, the document ids a change request was linked to; `backed`, the rows of which
such a document was signed off as Approved; `late`, the requests whose change request was
deleted under them; `mistaken`, the rows that a late approval committed onto.
`ScopeNeedsSignoff` leaves out the last. Documents that are imported or made from a
template start as Draft like `CreateDocument`'s.

### Deliberation

A session is one request. `submit` and `generate` are `BeginSubmission`, `BeginGenerate`
-> `ReadPanel` -> `CommitSubmission`; a critique, a revision and a decision are `Begin...`
-> `CommitMove`. The session does not flush before its commit (`autoflush=False`), so it
sees its own member's flag and the committed ones of the others. The statuses `draft`,
`independent_round` and those after `private_revision` but `decided` are never set.

### Services

The parts above and the readiness policy touch no common row, and no request of one
reaches another. A behaviour of `Services` chooses its part in the initial state and
moves only that one: the reachable states are the union of the parts' states, and each
property is checked over all behaviours of its part.

## 3. The runs

| Run | Question | Result |
|---|---|---|
| `orch_serial` | one request at a time, stops anywhere: stages go forward, hard failures block, nothing settled is resent, status = newest decision | holds |
| `orch_concurrent` | two requests interleaved over the whole path, all send outcomes: READY is earned, stages have dispatches, QA is asked once, outcomes are final | holds |
| `orch_shared` | two runs of one intent: SENT was received; the intent settles PLANNED | holds |
| `orch_polling` | does QA Again's final verdict reach the newest result for good? | holds under `PollingSpec` |
| `find_resent` | `CONDUCTOR_ORCHESTRATION_ARCHITECTURE.md:91`, no duplicate | refuted |
| `find_hardfail` | the same document, lines 97-99, checked before every downstream dispatch | refuted |
| `find_complete` | `service.py:359` and `state_machine.py:34`, COMPLETE is terminal | refuted |
| `qa_intake` | two threads, two requests under two keys, two work packages whose slugs clash, two tenants, stops, refused statements, deletions under working requests: one campaign per request, mapped onto committed rows in the linked project unless a deletion took them away, attempts in order, `QaService` implemented | holds |
| `find_unmapped` | `ecosystem/mapping_service.py:188`, unmapped until a revision is published | refuted |
| `find_wrong_project` | `models.py:542`, one project per work package | refuted |
| `services` | what the eleven parts below promise, each under its own interleavings, failures and stops | holds |
| `find_retry` | `services/document-again/backend/app/services.py:5365`, a failed handoff is safe to retry | refuted |

Bounds. One intent, one or two runs and two requests: every race above is between two
requests about one run (the hazards are read-then-write windows, which a third request
widens but does not change), and every key but a caller's own is derived from the run.
`orch_concurrent` uses the outcomes that let a run become READY, since the properties
speak of READY and SENT; failing reports are in `orch_serial`, where they matter to
order. It has no stops, which would triple its states: the theorems show the same four
properties with stops, and `orch_serial` and `orch_polling` have them. `received` saturates at 2: the properties ask about 0, 1 and more. `Crash` is
enabled only while a request is in flight, which loses nothing, as an idle service has
no volatile state. `orch_shared` has no stops because a stop inside `create_run` does
leave the intent ANALYZING (a hazard listed as such). Requests are symmetric in the
safety runs; no symmetry is used with liveness. A deadlock is checked in all of
Conductor's runs: a request can always begin.

`qa_intake` has two keys, which is what one campaign per request and a race for one work
package need; a second key delivered for either tenant and for another work package
gives conflicting payloads, `TenantMismatch` and clashing slugs. Three project ids and
two suffixes let an id be used again, under a request that holds it too (337 057 distinct
states). Its bounds on cycles and attempts (2 and 3) leave
room for a re-run race after the first attempt. `ServedSpec`, used by `find_unmapped`
alone, says that a request in progress is served.

`services` (1 446 601 distinct states). Per part:

* Design: one artifact with two revisions, a requirement with three revisions (its first
  text, a change, and a second change that supersedes the first), one baseline, two
  contents, one editor with stops. Every operation but the second of two
  concurrent ones happens, a regeneration and the confirmation of both changes included.
  Nothing relates two baselines, so one is enough. One editor, because two refute
  `OneCurrentRevision` and `RequirementShowsConfirmed` (section 4);
  `BaselineBindsConfirmed` and `ConfirmedIsFrozen` are proved for any number, and the model
  checker agrees for two editors, one draft and one baseline (922 632 states, not a regular
  run: the properties of one editor cannot be in it).
* Handoffs: one handoff, two couriers, two stamps, two projects: a first delivery with
  its retry, or two at once, and an intent whose project another package made.
* Evidence: two uploads, files of sizes 1 and 2, a quota of 2, two object keys: both fit
  alone and not together.
* Campaign: one critical case, two reasons, one handler and one report beside it, to keep
  the run short; both properties are proved for any number of handlers, and the model
  checker agrees on `AcceptedAsReviewed` for two (260 488 states without the report).
* Hybrid: two runs, one human. Two humans refute `EndIsFinal`; `PassIsReleased` is proved
  for any number.
* Packages: two plans, one package, two tasks, two runs: a newer plan, overlapping runs
  and a restart in between. Promotions: three people, of whom one is the empty name.
* Usage: two keys, two callers, one unkeyed usage record (`MaxUnkeyed`).
* Changes: one change request and one document, whose ids may be given again, two
  requests at a time. The theorem is for any number.
* Deliberation: two members, two requests at a time, two submissions of a member at most.

CHECK_DEADLOCK is FALSE in `services` and `find_retry`: a hybrid run that has ended, a
handoff that is acknowledged, or a history whose bounded rows are used up leaves nothing
to do. In the other runs a deadlock is checked.

Fairness. `PollingSpec` assumes that a request in progress is served (its thread is
scheduled), that somebody keeps calling `refresh-qa-result` (the endpoint's own
comment says Conductor is expected to poll) and that polls are not all cut off by
stops. The last two are strong fairness, because a stop or another answer may take the
opportunity away any number of times. Nothing is assumed of QA Again, whose gate may
keep changing: the property speaks only of behaviours in which it settles.

## 4. What the refuted statements mean

* `find_resent`: `dispatch-engineering` tests the status it read before sending
  (`routers/orchestration.py:199`). Two identical calls both send.
* `find_hardfail`: the check, the choice of the EngineeringResult and the insert are
  three moments; a FAILED report stored in between no longer blocks.
* `find_complete`: `advance_stage` overwrites a COMPLETE committed since its read.
* `find_unmapped`: a request that found nothing published is never looked at again. The
  counterexample is one delivery and one publication, and nothing else is enabled that
  would map it; a repeated delivery returns early.
* `find_wrong_project`: a project is deleted, the next one gets its id, and the deleted
  one's work package, still linked to that id, is tested in it.
* `find_retry`: PM Again registers the package and stops, or its answer is late. Document
  Again reads FAILED and the user retries; Conductor stamps the package with a new
  `createdAt`, PM Again finds the key with another payload and answers 409, now and at
  every later retry. The counterexample has one delivery at a time.

Met on the way, and not given a run: two interleaved `compute_readiness` calls may leave
a status that is not the newest decision's (unchanged columns are not written);
readiness may say READY on reports that have since been replaced by FAILED
(`service.py:289`); two concurrent `create_run` calls carry an intent from PLANNED back
to ANALYZING for a moment (`service.py:96`); a second `dispatch-infrastructure` is
answered 500 where the architecture document says 409 (`routers/orchestration.py:244`);
the caveat branch accepts an infrastructure PARTIAL where its comment says SUCCESS
(`readiness.py:88-90`), the one case `ReadyExactlyWhenEarned` says nothing about; an intent never reaches READY_FOR_REVIEW, because nothing
moves it to IN_EXECUTION.

Of the parts of `services`, likewise without a run of their own:

* Document Again. A confirmation between another request's editable test and its commit
  leaves the confirmed revision changed, or editable again (`services.py:653-657`), although
  `docs/REVISION_BASELINE_MODEL.md:3` says that a confirmed revision is immutable: those are
  the revisions `ConfirmedIsFrozen` leaves out. With two editors `OneCurrentRevision` and
  `RequirementShowsConfirmed` are refuted: the query for confirmed
  siblings is read before another confirmation commits. Even one editor may open a second
  change of a requirement: `create_requirement_draft` looks at the first of several open
  changes (`services.py:1302`). A refusal or a stop after the first commit of
  `confirm_change` leaves a change that can never be confirmed: its draft is CONFIRMED and
  the next attempt refuses it (1650-1652), or a generated revision is (1676-1679).
* Handoffs. A delivery that arrives while the first is still being dispatched is answered
  200 QUEUED without a reference, and Document Again reads ACKNOWLEDGED although the
  dispatch may still fail; a late failure of the other delivery may overwrite
  ACKNOWLEDGED in Document Again (in Conductor it cannot). Two packages of one intent may
  create two projects, where `pm-again/backend/app/ecosystem/mapping_service.py:6`
  promises one.
* QA Again's intake. A request whose project's file is removed between its attempt and its
  mapping reads MAPPED with neither cycle nor attempt. A request whose project is deleted
  before `project.slug` is read again goes on, if the id has been given again by then, in the
  project that has it now, even one of another tenant (`ecosystem/mapping_service.py:181`).
* Campaign. A review and an update of one result that overlap may leave an accepted N/A
  whose reason is not the one that was reviewed (`cycle_results.py:129` says it re-enters the
  queue every time), and a result can be committed after a lock.
* Hybrid. With two humans a FAIL can be overtaken by a PASS and the run end PASSED, contrary
  to the docstring of `finish_run` (`hybrid.py:310-315`).
* Evidence. A `db.refresh` that fails after the commit makes the handler remove the object of
  a committed row and answer 500 (`routers/evidence.py:173-184`). The row stays, and the same
  file sent again is answered with it as a duplicate (134-144), without an object. An answer
  given for a duplicate may name a row that its own upload takes back
  afterwards; a locked cycle may gain a file whose upload began before the lock.
* Infra Again. A promotion that names its source execution is always invalidated at its
  approval (the reloaded run carries no validation); consuming looks at no expiry. A
  package executed after a restart runs nothing and is COMPLETED, its run UNVERIFIED.
* Account Again. A key used for an evaluation and then for a usage record is answered
  DUPLICATE, and the usage is never recorded; a repeated evaluation replays the decision
  after the identity was revoked.
* PM Again. An approval whose change request is deleted meanwhile commits onto the row that
  got its id, a Draft without a document (`change_requests.py:104`, 161); a link to a deleted
  document is a link to the document that gets its id. The gate speaks of the document linked when it was read: a late
  `submit_for_approval` that found no link replaces it after the approval, so an Approved
  change request may show a Draft document (`change_requests.py:269-280`); two approvals
  at once create a function each for one impact, and a rejection loaded before an approval
  overwrites it, although Approved is `terminal` (`workflow_definitions.py:43`). One
  request at a time: impacts may be added between the client's sign-off and the approval,
  although `the numbers the client approved are the numbers that get committed`
  (`change_requests.py:295-296`); a redrafted change request keeps its Confirmed document;
  one whose document was deleted can never be approved, since submitting creates a
  document only where there is no link, unless another document gets the id. A Draft is
  let in by the first test of `submit_for_approval` and refused by the second.
* Deliberation. `submit` takes a member's second answer where `generate` answers 409; two
  last answers at once leave the case in `panel_selected`, from which only yet another
  answer, a critique, a revision or a decision takes it; an answer a model gave late takes
  a decided case back to `independent_complete`, and any later critique or revision
  reopens it; critiques are taken before the independent round has ended.

## 5. The proofs

`OrchestrationProofs` proves, for any number of intents, runs, requests, caller keys
and fingerprints, and whichever endpoints are in use, eleven theorems. The first four
invariants extend one another; the last two start again from `TypeInv` and `DispatchInv`:

1. `TypeInv` = `TypeOK` and, per request, `CallOK`: what a request at a given step has
   in hand (a dispatch step has a key and a payload, a request to mark has a row, ...).
   `TypeOK` alone is not inductive: `Store` puts `seen[q].result` into the table, which
   is a result only because the request stands at that step. Theorem `TypeCorrect`.
2. `DispatchInv` adds `KeyOK` (a downstream dispatch uses its run's own key and a fresh
   payload), `DispatchOK` (a downstream request past its insert has a PENDING row until
   it marks it, and a SENT row while it moves the stage) and `OneSettles` (no two
   requests settle the same downstream row: only the one whose insert succeeded gets
   past `Lookup`, since a fresh payload equals no stored one). Theorems
   `StageNeedsDispatch` and `DownstreamSettlesOnce`.
3. `ReceiptInv` adds `ReceiptOK`: a request about to mark SENT was accepted, one about
   to send to QA Again is the first. Theorems `QaAskedOnce` and
   `NoSyntheticAcknowledgement`.
4. `EvidenceInv` adds `StoredOK` (each stored report has its origin: infrastructure
   results a SENT dispatch, QA results a request QA Again received), `InHandOK` (the same
   for what requests hold or have read) and that READY decisions are `Earned`. The
   lemma `ReadyCodeIsEarned` is the policy's part, `EvidenceIsKept` says evidence is
   never withdrawn. Theorem `ReadyMeansEarned`.
5. `PlanningInv`, without stops: an intent at ANALYZING has a request on its way to PLANNED
   (`Moving`: it is about to read the intent, or has read it as ANALYZING); the intent of a
   run was planned or is being planned; and a request about to write moves from a status
   the intent has reached. Two `create_run` calls may carry the intent back, but the last
   one out leaves it PLANNED: `IntentsSettle`. Its hypothesis `[][~ Crash]_vars` is needed,
   since a stop inside `create_run` leaves ANALYZING for good.
6. `SerialInv`, while at most one request per run is in flight (`OnePerRun`; requests about
   other runs, those of the same intent included, and stops interleave freely): `InTurn`,
   what a request checked or read of its run is still so, and the run's status is its
   newest decision's. `WritesOwnRun` is the lemma that makes it inductive: no request writes
   a row of another run. Theorems `StatusFollowsDecision`, `StageMovesForward` (each write
   of a stage has a legal predecessor that is still the row's), `HardFailureStopsDispatch`
   and, with no keys of the callers' own, `SettledStaysSettled`. Without `OnePerRun` all
   of them fail: `find_hardfail`, `find_resent`, `find_complete` and the interleaved
   `compute_readiness` calls of section 4 show how.

Assumptions: the constants' (`KindsAssumption`, `AssignmentsAssumption`,
`OutcomesAssumption`, `PmReportsAssumption`, `GatesAssumption`, `MayCrashAssumption`,
`CallerKeysAssumption`), that is, that reports come from the statuses the contracts
allow and that a caller does not bring another run's default key. None of them bounds a
set. The last one is a real restriction: `dispatch-engineering` takes any string.

`QaIntakeProofs` proves, for any number of keys, work packages, threads, projects and
attempts, with stops, refused statements and deletions at any moment, six theorems, again
from invariants that extend one another:

1. `TypeInv` = `TypeOK`, `AttemptsNumbered` and `HandOK` (what a thread at a given step
   has in hand; at `append_attempt`, a last number no greater than the number of
   attempts). The lemma `Inserted` is the argument: a number that is free and not more
   than one past the end is one past the end. Theorems `TypeCorrect`, `AttemptsInOrder`.
2. `CampaignInv` adds `OneOwner` (no two threads work on one request), `OwnedOK` (its
   request has no cycle before `create_cycle`; after it, the one in hand, and attempt 1
   before `mark_mapped`, or it is `lost`), and that neither an unregistered key nor a lost
   one has a cycle. Theorems `OneCampaign` and `MappedWithItsRows`.
3. `PlaceInv` adds `UniqueIds` and `PlaceOK`: unless the request is `orphaned`, the project in
   hand exists, its tenant agrees, and from the link on it is the linked one. Theorem
   `MappedAtHome`.
4. `ServiceInv`, from `CampaignInv` again, adds `KeptAt` (the attempts of a request are those
   of one cycle: the mapped one, or before the mapping attempt 1 of the cycle it created or,
   if that is lost, of what stands in its place) and `RunOK` (a first attempt is made for a
   request that has none, another for a mapped one in its cycle).
   Then each step is one of `QaService`'s or changes none of `stage`, `campaign` and
   `runs`, whose count goes up by one exactly with a new number (by the facts of
   `FiniteSetTheorems`); `RemovalDiscards` is the step of a file's removal, which loses a
   campaign and its runs together. Theorem `QaIntakeImplementsQaService`.

Assumptions: `BaseSlugAssumption`, `DeliveriesAssumption` (typing), `BoundsAssumption`
(the bounds are positive; nothing else is asked of them). None is about who deletes what
and when.


`WorkflowProofs`, the policy: its first match equals its order-free definition for every
record of inputs but those of `CaveatInDispute`, of which the comment of the caveat's branch
and its code differ (`FirstMatchIsTheRule`, by the branches of the CASE), and a worse
engineering report never helps (`WorseNewsNeverHelps`). `PolicyInv` adds to the types that
the blocking flag accompanies PARTIAL only.

`HandoffProofs`, for any handoffs and couriers, with all stops. `HandoffInv` = `RowTypes`,
`RowsOK` (the two statements about rows), `CouriersOK` (what a delivery at a step may rely
on: a relay that loaded QUEUED finds its row QUEUED, one that loaded FAILED finds FAILED or
ACKNOWLEDGED; a package past its registration is RECEIVED and not planned) and `Alone` (at
most one relay holds a QUEUED row, at most one request of PM Again works on a registered
package, since a key can be inserted once). `AcknowledgedForGood` is where it is needed:
FAILED is written only by the holder of a QUEUED row, and that row is not ACKNOWLEDGED.

`DesignProofs`, for any editors and stops: a status CONFIRMED never stands without its
Confirmation row (`StatusOK`, because `Freeze` and the row are one commit), and the revisions
a request has dealt with (`made \ todo`) have theirs. Hence `BaselinesBindTheConfirmed`.
`DesignTypeInv` adds to the types `JobReady`, what a request at each step has in hand (the
revision it will save or confirm is written, the draft it will edit exists, each artifact
it will regenerate has a revision), whatever the others do meanwhile: rows are never taken
away, which is the argument. Theorem `DesignTypeCorrect`.

`FrozenInv` is about any editors: a revision that was confirmed while nobody had it in hand
is CONFIRMED or SUPERSEDED and in nobody's hands, since whoever would take it in hand tests
that it is editable; so no commit changes it. Theorem `ConfirmedIsImmutable`.

With one editor, stops included, `SoleInv` carries the other two properties together,
because neither of them is inductive alone: a step of `Confirm` keeps one revision current
only if the siblings it read are all the confirmed ones (`StillSo`), and it shows the right
requirement only if the draft in its session is the one that was read (`DraftInHand`, which
is claimed until the first commit of the change carries the draft along, and no longer).
Theorems `OneRevisionCurrent` and `RequirementIsConfirmed`. With two editors TLC refutes both
properties, so the hypothesis stays.

`QaCampaignProofs`: `PassNeedsRelease` for any humans (a request to finish was loaded after
a release, and only the runner's own next request withdraws one); `EndedStaysEnded` for one
human (`RestInv`: what a request loaded is still the status, unless it will write nothing);
`ApprovalNeedsExecution` for any handlers (a result other than NOT_RUN or FAIL has a history
row, a history row is never withdrawn, and the report's `ready` speaks of moments whose
history still stands); `ReviewedAsSeen` for any handlers (`RequestOK`: the reason that a
reviewer loaded still stands unless an update outran it; an updater's row has the review it
had, or none, unless a review outran it; and where an update turned the case
NOT_APPLICABLE meanwhile nobody has accepted that).

The evidence, for any uploads at once, stops, failing deletions and the script beside them:
`EvidenceInv` adds to the types and `RowHasObject` that keys are made up once (an object's
key is at most `keys`) and `HeldOK`: no two uploads hold one key, an upload about to insert
has its object, the row it may still take back was not accepted, and what it takes back has
no row or one it disowned. Theorems
`EvidenceTypeCorrect`, `EvidenceHasObject`. For `AcceptedFitsQuota`, `NextQuota` argues that
an upload is accepted only at its second sum, which counted every row there was, so all the
accepted ones. It needs what a sum over a set does when an element is added or taken out
and that a subset sums to no more. The folds of the community modules define the sum by
recursion over subsets, so these are inductions; they are done by hand, by a least
counterexample (`WFMin` over strict inclusion of finite sets), which needs no theorem with
an operator parameter.

`InfraProofs`: `SealsOK`, that no handler computes a digest of a refused record, makes
`RefusedForGood` inductive; `SuccessIsEarned` needs that the tasks of a run
are divided among to do, busy, failed and passed, all of them or none.

`WorkflowProofs`: `UsageInv` is inductive as it stands, the argument being that key and usage
row are one commit and the key is primary. `ChangeInv` adds to the property that a link and
a Confirmed status have left their trace in the histories, and that a request past the gate,
unless it is `late`, is about a row that is there and in `backed`; as long as the row is there
its histories only grow (`TracesGrow`), so no other request can take that away. `DeliberationInv` adds that a flag has its row and that a
request which found itself the last one leaves no other flag open.

`ServicesProofs`: a behaviour of `ServicesSpec` is one of each part's specification, since
the part not in use stutters at its initial state (`EachPart`). Hence `ServicesTypeCorrect`,
the type invariant of the whole; `PromisesOfTheServices`, every property of the run
`services` that a part keeps for any number of actors, `ConfirmedIsFrozen` and
`AcceptedAsReviewed` among them; and `PromisesOneAtATime`, the three that hold with one editor
and one human, which is the run's instance.

Assumptions of these: the ones the modules name (`MaxProjectsAssumption`,
`CampaignAssumption`, `PackagesAssumption`, `PeopleAssumption`, `UnkeyedAssumption`, ...),
all of typing, and the one editor or human of the theorems that say so.

Left to TLC: `QaVerdictArrives`, which is liveness under fairness, and the refuted
statements, which are counterexamples. Every other property of the passing runs, invariant
or action property, is stated by a theorem above. Where a theorem has a hypothesis that
the run's instance fulfils by its size (one editor, one human, one request at a time), the hypothesis is part
of the property: section 4 says what happens without it.

## 6. Not modelled, and why

Listed per component in `PROJECT.json`. In short:

* User interface, rendering, reports and language-model calls keep no state worth a
  property. Audit and trace rows are written beside every change and read by nobody in
  the flows.
* Document Again's comments, decisions, traces, workspaces and memberships are CRUD: one
  commit per request, no rule that spans two of them. The outbox is written and never
  emptied, so nothing can be said of its delivery.
* The rest of PM Again's planning is CRUD and date arithmetic over one project's file.
* Infra Again's orchestrator: the API reaches only its PLAN_ONLY path. An apply of the
  SIMULATED kind would stop at a transition its own table does not have
  (WAITING_FOR_APPROVAL to EXECUTING, `execution/orchestrator.py:332`). The leases of a
  runner live in memory and bind no task to a runner. `immutable_approval.py` and
  `guarded_aws_mutator.py` are called by scripts only.
* Account Again's entitlement engine reads and decides; nothing it returns is kept.
* A request of one part never reads another part's rows, except along the calls that are
  modelled (Conductor to QA Again and PM Again, Document to Conductor to PM Again).

## 7. Plan

The modules above cover what decides in these services. What is left, in this order:

1. Two editors: `OneRevisionCurrent` for overlapping requests
   that touch different artifacts, as `SerialInv` does it for runs, in place of one editor;
   likewise `EndedStaysEnded` per hybrid run.
2. Liveness: a handoff that is retried is planned in the end, once a retry carries the
   payload of the first (it does not today); a polled campaign's gate settles.
3. Publication of a revision in QA Again: a case created while its revision is published
   (`routers/cases.py`, `routers/revisions.py`), and the PUBLISHED revisions of a suite,
   of which a clone of an older one leaves two.
4. PM Again's effort budget and progress matrix, which read what the change requests commit.
5. Infra Again's cleanup of a package, and its orchestrator when the API reaches more of it.

