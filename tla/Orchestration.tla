---------------------------- MODULE Orchestration ----------------------------
(***************************************************************************)
(* Conductor Again's delivery orchestration: app/routers/orchestration.py  *)
(* over app/orchestration/service.py, its state machine, its dispatch      *)
(* adapters and their HTTP clients.                                        *)
(*                                                                         *)
(* Every endpoint is a synchronous function that FastAPI runs in a thread  *)
(* of its own with a database session of its own, so endpoints interleave  *)
(* at every committed write, at every read and at every HTTP call. pc[q]   *)
(* is the next such point of request q, call[q] its arguments and seen[q]  *)
(* what it has read and not yet used. A crash drops every request in       *)
(* flight and keeps what they committed.                                   *)
(***************************************************************************)
EXTENDS Naturals, Readiness

CONSTANTS
  Intents,        \* business intents
  Runs,           \* delivery runs (run_id, work package and correlation id)
  Requests,       \* threads that serve requests
  CallerKeys,     \* idempotency keys a caller of dispatch-engineering supplies
  Prints,         \* request fingerprints of dispatch-engineering
  Kinds,          \* the endpoints in use
  Assignments,    \* the assignments a run is created with
  Outcomes,       \* what an Idea -> Code run may report
  PmReports,      \* the projectStatus values PM Again reports
  Gates,          \* the qualityGate values QA Again reports
  MayCrash        \* whether the machine may stop (fly.toml: auto_stop_machines)

Specialists == {"ENGINEERING", "INFRASTRUCTURE", "QA", "PM"}

DispatchKinds == {"dispatch_engineering", "dispatch_infrastructure",
                  "dispatch_qa", "dispatch_pm"}

ResultKinds == {"execute_engineering", "refresh_qa_result", "refresh_pm_status"}

AllKinds == {"create_run", "compute_readiness"} \cup DispatchKinds \cup ResultKinds

PmStatuses == {"NOT_STARTED", "IN_PROGRESS", "COMPLETED", "BLOCKED", "CANCELLED"}

\* verified: the verifier passed; tested: some test passed; built: the build ran.
EngineeringOutcomes == [verified : BOOLEAN, tested : BOOLEAN, built : BOOLEAN]

\* The key a dispatch of specialist s for run r uses unless the caller supplies
\* one: eng-{run_id}, infra-{run_id}, qa-{run_id}, pm-{run_id}.
DefaultKey(s, r) == <<s, r>>

Keys == (Specialists \X Runs) \cup CallerKeys

ASSUME KindsAssumption       == Kinds \subseteq AllKinds
ASSUME AssignmentsAssumption == Assignments \subseteq SUBSET Assignable
ASSUME OutcomesAssumption    == Outcomes \subseteq EngineeringOutcomes
ASSUME PmReportsAssumption   == PmReports \subseteq PmStatuses
ASSUME GatesAssumption       == Gates \subseteq QualityGates
ASSUME MayCrashAssumption    == MayCrash \in BOOLEAN
ASSUME CallerKeysAssumption  == CallerKeys \cap (Specialists \X Runs) = {}

VARIABLES
  intent,     \* status of each BusinessIntent row
  run,        \* DeliveryRun rows
  dispatch,   \* SpecialistDispatch rows, by idempotency key
  results,    \* SpecialistResult rows: the values stored per run and specialist
  latest,     \* the newest of them (latest_result)
  decision,   \* reason_code of each run's newest ReadinessDecision row
  received,   \* packages each specialist accepted for a run: 0, 1 or 2 (= more)
  gate,       \* external: the qualityGate QA Again answers for a run's request
  pc, call, seen

rows    == <<intent, run, dispatch, results, latest, decision>>
world   == <<received, gate>>
threads == <<pc, call, seen>>
vars    == <<rows, world, threads>>

-----------------------------------------------------------------------------
(* state_machine.py *)

IntentStates == {"RECEIVED", "ANALYZING", "PLANNED", "IN_EXECUTION", "BLOCKED",
                 "READY_FOR_REVIEW", "COMPLETED", "FAILED"}

BusinessIntentTransitions(from) ==
  CASE from = "RECEIVED"         -> {"ANALYZING", "FAILED"}
    [] from = "ANALYZING"        -> {"PLANNED", "BLOCKED", "FAILED"}
    [] from = "PLANNED"          -> {"IN_EXECUTION", "BLOCKED", "FAILED"}
    [] from = "IN_EXECUTION"     -> {"READY_FOR_REVIEW", "BLOCKED", "FAILED"}
    [] from = "BLOCKED"          -> {"IN_EXECUTION", "FAILED"}
    [] from = "READY_FOR_REVIEW" -> {"COMPLETED", "IN_EXECUTION", "FAILED"}
    [] OTHER                     -> {}

RunStages == {"INTENT", "PLAN", "ENGINEERING", "INFRASTRUCTURE", "QA",
              "DELIVERY_READINESS", "COMPLETE"}

RunStageTransitions(from) ==
  CASE from = "INTENT"             -> {"PLAN"}
    [] from = "PLAN"               -> {"ENGINEERING"}
    [] from = "ENGINEERING"        -> {"INFRASTRUCTURE", "DELIVERY_READINESS"}
    [] from = "INFRASTRUCTURE"     -> {"QA", "DELIVERY_READINESS"}
    [] from = "QA"                 -> {"DELIVERY_READINESS"}
    [] from = "DELIVERY_READINESS" -> {"COMPLETE"}
    [] OTHER                       -> {}

-----------------------------------------------------------------------------
(* Rows *)

Absent == "ABSENT"      \* the row does not exist

RunStatuses == {"IN_PROGRESS"} \cup Decisions

NoRun  == [intent |-> Absent, stage |-> Absent, status |-> Absent, assigned |-> {}]
RunRow == [intent : Intents, stage : RunStages, status : RunStatuses,
           assigned : SUBSET Assignable]

\* A payload with a generated id and timestamp equals no stored payload.
Fresh    == "FRESH"
Stable   == "WORK_PACKAGE"   \* run.work_package_payload, the same on every call
Payloads == Prints \cup {Fresh, Stable}

NoDispatch  == [status |-> Absent, run |-> Absent, payload |-> Absent]
DispatchRow == [status : {"PENDING", "SENT", "FAILED"}, run : Runs, payload : Payloads]

NoResult == [status |-> NoStatus, blocking |-> FALSE]
Result(s) ==
  [status : CASE s = "ENGINEERING"    -> EngineeringStatuses
              [] s = "INFRASTRUCTURE" -> InfrastructureStatuses
              [] s = "QA"             -> QualityGates
              [] s = "PM"             -> PmStatuses,
   blocking : BOOLEAN]
Results == UNION {Result(s) : s \in Specialists}

Report(status) == [status |-> status, blocking |-> FALSE]

NoReads  == [s \in Specialists |-> NoResult]
Reads    == [Specialists -> Results \cup {NoResult}]

ReasonCodes == ReadyCodes \cup BlockedCodes

-----------------------------------------------------------------------------
(* Requests *)

\* Exceptions no endpoint catches: FastAPI answers 500.
Uncaught == {"IdempotencyConflictError", "IntegrityError",
             "InvalidTransitionError", "ValueError"}

PCs == {"idle", "plan_intent", "refresh_intent",
        "assert_engineering", "assert_infrastructure", "pick_engineering",
        "lookup", "insert", "send", "mark_sent", "mark_failed",
        "read_stage", "advance", "store",
        "read_engineering", "read_infrastructure", "read_qa", "read_pm", "decide"}
       \cup Uncaught

NoCall == [kind |-> "none", run |-> Absent, intent |-> Absent,
           assigned |-> {}, key |-> Absent, payload |-> Absent]
Calls  == [kind : AllKinds, run : Runs, intent : Intents \cup {Absent},
           assigned : SUBSET Assignable, key : Keys \cup {Absent},
           payload : Payloads \cup {Absent}]

Nothing == [intent |-> Absent, stage |-> Absent, status |-> Absent,
            result |-> NoResult, reads |-> NoReads]
Seen    == [intent : IntentStates \cup {Absent}, stage : RunStages \cup {Absent},
            status : RunStatuses \cup {Absent}, result : Results \cup {NoResult},
            reads : Reads]

SpecialistOf(kind) ==
  CASE kind \in {"dispatch_engineering", "execute_engineering"} -> "ENGINEERING"
    [] kind = "dispatch_infrastructure"                         -> "INFRASTRUCTURE"
    [] kind \in {"dispatch_qa", "refresh_qa_result"}            -> "QA"
    [] kind \in {"dispatch_pm", "refresh_pm_status"}            -> "PM"
    [] OTHER                                                    -> Absent

Exists(r) == run[r] # NoRun

\* Run ids are generated: no two calls of create_run use the same one.
Unused(r) == ~ Exists(r) /\ \A q \in Requests : call[q].run # r

Goto(q, label) ==
  /\ pc' = [pc EXCEPT ![q] = label]
  /\ UNCHANGED call

Finish(q) ==
  /\ pc'   = [pc EXCEPT ![q] = "idle"]
  /\ call' = [call EXCEPT ![q] = NoCall]
  /\ seen' = [seen EXCEPT ![q] = Nothing]

Begin(q, label, c, s) ==
  /\ pc[q] = "idle"
  /\ c.kind \in Kinds
  /\ pc'   = [pc EXCEPT ![q] = label]
  /\ call' = [call EXCEPT ![q] = c]
  /\ seen' = [seen EXCEPT ![q] = s]
  /\ UNCHANGED <<rows, world>>

Init ==
  /\ intent   = [i \in Intents |-> Absent]
  /\ run      = [r \in Runs |-> NoRun]
  /\ dispatch = [k \in Keys |-> NoDispatch]
  /\ results  = [r \in Runs |-> [s \in Specialists |-> {}]]
  /\ latest   = [r \in Runs |-> NoReads]
  /\ decision = [r \in Runs |-> Absent]
  /\ received = [s \in Specialists |-> [r \in Runs |-> 0]]
  /\ gate     = [r \in Runs |-> Absent]
  /\ pc       = [q \in Requests |-> "idle"]
  /\ call     = [q \in Requests |-> NoCall]
  /\ seen     = [q \in Requests |-> Nothing]

-----------------------------------------------------------------------------
(* Intents and runs *)

\* POST /intents
CreateIntent(i) ==
  /\ intent[i] = Absent
  /\ intent' = [intent EXCEPT ![i] = "RECEIVED"]
  /\ UNCHANGED <<run, dispatch, results, latest, decision, world, threads>>

\* POST /intents/{id}/runs reads the intent ...
BeginCreateRun(q) ==
  \E i \in Intents, r \in Runs, a \in Assignments :
    /\ intent[i] # Absent
    /\ Unused(r)
    /\ Begin(q, "plan_intent",
             [NoCall EXCEPT !.kind = "create_run", !.run = r, !.intent = i, !.assigned = a],
             [Nothing EXCEPT !.intent = intent[i]])

\* Mutant: straight to PLANNED, which the state machine does not allow.
PlanStepAtOnce(st) == IF st \in {"RECEIVED", "ANALYZING"} THEN "PLANNED" ELSE st

\* The status the next transition_intent_status gives an intent last read as st.
PlanStep(st) ==
  CASE st = "RECEIVED" -> "ANALYZING" [] st = "ANALYZING" -> "PLANNED" [] OTHER -> st

\* ... and each of its commits moves the intent one status; the first of them
\* also stores the run. The second transition is decided on a fresh read.
PlanIntent(q) ==
  LET c == call[q]  st == seen[q].intent IN
  /\ pc[q] = "plan_intent"
  /\ run' = [run EXCEPT ![c.run] =
       IF Exists(c.run) THEN @
       ELSE [intent |-> c.intent, stage |-> "PLAN", status |-> "IN_PROGRESS",
             assigned |-> c.assigned]]
  /\ intent' = IF PlanStep(st) \in BusinessIntentTransitions(st)
                 THEN [intent EXCEPT ![c.intent] = PlanStep(st)] ELSE intent
  /\ IF st = "RECEIVED" THEN Goto(q, "refresh_intent") /\ UNCHANGED seen ELSE Finish(q)
  /\ UNCHANGED <<dispatch, results, latest, decision, world>>

RefreshIntent(q) ==
  LET now == intent[call[q].intent] IN
  /\ pc[q] = "refresh_intent"
  /\ IF now = "ANALYZING"
       THEN Goto(q, "plan_intent") /\ seen' = [seen EXCEPT ![q].intent = now]
       ELSE Finish(q)
  /\ UNCHANGED <<rows, world>>

-----------------------------------------------------------------------------
(* Dispatch: hard-failure check, register, send, mark, advance *)

DispatchCall(kind, r, k, p) ==
  [NoCall EXCEPT !.kind = kind, !.run = r, !.key = k, !.payload = p]

BeginDispatchEngineering(q) ==
  \E r \in Runs, p \in Prints :
    \E k \in {DefaultKey("ENGINEERING", r)} \cup CallerKeys :
      /\ Exists(r)
      /\ Begin(q, "lookup", DispatchCall("dispatch_engineering", r, k, p), Nothing)

BeginDispatchPm(q) ==
  \E r \in Runs :
    /\ Exists(r)
    /\ Begin(q, "lookup", DispatchCall("dispatch_pm", r, DefaultKey("PM", r), Stable), Nothing)

\* dispatch-infrastructure and dispatch-qa render a request with a fresh id.
BeginDownstream(q) ==
  \E r \in Runs, kind \in {"dispatch_infrastructure", "dispatch_qa"} :
    /\ Exists(r)
    /\ Begin(q, "assert_engineering",
             DispatchCall(kind, r, DefaultKey(SpecialistOf(kind), r), Fresh), Nothing)

\* Mutant: looks at the blocking flag, which only a PARTIAL report carries.
HardBlocked(s, r) == latest[r][s].blocking

HardFailed(s, r) == latest[r][s].status = "FAILED"

\* assert_no_downstream_after_hard_failure: 409 on an engineering failure, and
\* for QA on an infrastructure failure. Two queries, so two steps.
AssertEngineering(q) ==
  LET c == call[q] IN
  /\ pc[q] = "assert_engineering"
  /\ IF HardFailed("ENGINEERING", c.run) THEN Finish(q)
     ELSE /\ Goto(q, IF c.kind = "dispatch_qa" THEN "assert_infrastructure"
                                               ELSE "pick_engineering")
          /\ UNCHANGED seen
  /\ UNCHANGED <<rows, world>>

AssertInfrastructure(q) ==
  /\ pc[q] = "assert_infrastructure"
  /\ IF HardFailed("INFRASTRUCTURE", call[q].run) THEN Finish(q)
     ELSE Goto(q, "pick_engineering") /\ UNCHANGED seen
  /\ UNCHANGED <<rows, world>>

\* The EngineeringResult the request refers to: queried again; 409 without one.
PickEngineering(q) ==
  /\ pc[q] = "pick_engineering"
  /\ IF latest[call[q].run]["ENGINEERING"] = NoResult THEN Finish(q)
     ELSE Goto(q, "lookup") /\ UNCHANGED seen
  /\ UNCHANGED <<rows, world>>

\* Mutant: compares without the generated id and timestamp.
SameWork(row, p) == row.payload = p

SamePayload(row, p) == row.payload = p /\ p # Fresh

\* Mutant: a FAILED dispatch is sent again.
NotSent(row) == row.status # "SENT"

MustSend(row) == row.status = "PENDING"

\* register_dispatch, the query. A conflict is 409, except that
\* dispatch-infrastructure does not catch it. An equal payload returns the row,
\* which is sent only while PENDING.
Lookup(q) ==
  LET c    == call[q]
      d    == dispatch[c.key]
      same == d # NoDispatch /\ SamePayload(d, c.payload)
      conflict == d # NoDispatch /\ ~ SamePayload(d, c.payload)
  IN
  /\ pc[q] = "lookup"
  /\ \/ d = NoDispatch /\ Goto(q, "insert") /\ UNCHANGED seen
     \/ same /\ MustSend(d) /\ Goto(q, "send") /\ UNCHANGED seen
     \/ same /\ ~ MustSend(d) /\ Finish(q)
     \/ conflict /\ c.kind # "dispatch_infrastructure" /\ Finish(q)
     \/ /\ conflict /\ c.kind = "dispatch_infrastructure"
        /\ Goto(q, "IdempotencyConflictError") /\ UNCHANGED seen
  /\ UNCHANGED <<rows, world>>

\* Mutant: the column without its unique constraint.
AlwaysFree(k) == k \in Keys

KeyFree(k) == dispatch[k] = NoDispatch

\* Mutant: dispatch-infrastructure forgets mark_dispatch_sent.
AfterInsertUnmarked(kind) == IF kind = "dispatch_infrastructure" THEN "read_stage" ELSE "send"

AfterInsert(kind) == IF kind = "dispatch_infrastructure" THEN "mark_sent" ELSE "send"

\* register_dispatch, the insert: the unique constraint on idempotency_key
\* refuses a second row. The infrastructure adapter calls nobody.
Insert(q) ==
  LET c == call[q] IN
  /\ pc[q] = "insert"
  /\ IF KeyFree(c.key)
     THEN /\ dispatch' = [dispatch EXCEPT ![c.key] =
                 [status |-> "PENDING", run |-> c.run, payload |-> c.payload]]
          /\ Goto(q, AfterInsert(c.kind))
     ELSE Goto(q, "IntegrityError") /\ UNCHANGED dispatch
  /\ UNCHANGED <<intent, run, results, latest, decision, world, seen>>

Min2(n) == IF n < 2 THEN n ELSE 2

Accept(q) ==
  LET s == SpecialistOf(call[q].kind) IN
  received' = [received EXCEPT ![s][call[q].run] = Min2(@ + 1)]

\* The HTTP call of the adapter: answered with 2xx and JSON ...
SendAnswered(q) ==
  /\ pc[q] = "send"
  /\ Accept(q)
  /\ Goto(q, "mark_sent")
  /\ UNCHANGED <<rows, gate, seen>>

\* ... accepted, and the answer lost or later than the timeout ...
SendReplyLost(q) ==
  /\ pc[q] = "send"
  /\ Accept(q)
  /\ Goto(q, "mark_failed")
  /\ UNCHANGED <<rows, gate, seen>>

\* Mutant: a transport failure is swallowed.
SendSwallowed(q) ==
  /\ pc[q] = "send"
  /\ Goto(q, "mark_sent")
  /\ UNCHANGED <<rows, world, seen>>

\* ... never received, or refused with an error status (or no service token) ...
SendRefused(q) ==
  /\ pc[q] = "send"
  /\ Goto(q, "mark_failed")
  /\ UNCHANGED <<rows, world, seen>>

\* ... or accepted with a 2xx body that is not JSON: resp.json() raises.
SendGarbled(q) ==
  /\ pc[q] = "send"
  /\ Accept(q)
  /\ Goto(q, "ValueError")
  /\ UNCHANGED <<rows, gate, seen>>

\* Both marks overwrite whatever another request marked meanwhile.
Mark(q, status) ==
  /\ dispatch' = [dispatch EXCEPT ![call[q].key].status = status]
  /\ UNCHANGED <<intent, run, results, latest, decision, world>>

MarkSent(q) ==
  /\ pc[q] = "mark_sent"
  /\ Mark(q, "SENT")
  /\ IF call[q].kind = "dispatch_pm" THEN Finish(q)
     ELSE Goto(q, "read_stage") /\ UNCHANGED seen

\* Mutant: no exception after mark_dispatch_failed, the stage advances.
MarkFailedGoesOn(q) ==
  /\ pc[q] = "mark_failed"
  /\ Mark(q, "FAILED")
  /\ Goto(q, "read_stage")
  /\ UNCHANGED seen

MarkFailed(q) ==
  /\ pc[q] = "mark_failed"
  /\ Mark(q, "FAILED")
  /\ Finish(q)

\* Mutant: any stage but the current one may follow.
MayAdvanceAnywhere(stage, target) == stage # target

MayAdvance(stage, target) == target \in RunStageTransitions(stage)

\* advance_stage: the row is read again after the commit of mark_dispatch_sent,
\* the transition is checked on what was read, and the write is unconditional.
ReadStage(q) ==
  LET c == call[q]  stage == run[c.run].stage IN
  /\ pc[q] = "read_stage"
  /\ Goto(q, IF MayAdvance(stage, SpecialistOf(c.kind))
             THEN "advance" ELSE "InvalidTransitionError")
  /\ UNCHANGED <<rows, world, seen>>

Advance(q) ==
  LET c == call[q] IN
  /\ pc[q] = "advance"
  /\ run' = [run EXCEPT ![c.run].stage = SpecialistOf(c.kind)]
  /\ IF c.kind = "dispatch_infrastructure"
     THEN /\ Goto(q, "store")
          /\ seen' = [seen EXCEPT ![q].result = Report("SUCCESS")]
     ELSE Finish(q)
  /\ UNCHANGED <<intent, dispatch, results, latest, decision, world>>

\* An exception reaches FastAPI: 500, nothing rolled back that was committed.
AnswerError(q) ==
  /\ pc[q] \in Uncaught
  /\ Finish(q)
  /\ UNCHANGED <<rows, world>>

-----------------------------------------------------------------------------
(* Results *)

\* Mutant: the verifier's own word instead of the contract's.
EngineeringStageReport(o) ==
  [status |-> IF o.verified THEN "VERIFIED" ELSE "FAILED", blocking |-> FALSE]

\* to_canonical_engineering_result, with Conductor's blocking flag. An answer of
\* LACC that carries no verification, tests or build (an error body) is FAILED.
EngineeringReport(o) ==
  LET status == IF o.verified THEN "SUCCESS"
                ELSE IF o.tested \/ o.built THEN "PARTIAL" ELSE "FAILED"
  IN  [status |-> status, blocking |-> status = "PARTIAL" /\ ~ o.built]

\* execute-engineering, refresh-qa-result and refresh-pm-status first call the
\* specialist; the answer is in hand when the request stops at "store". When the
\* call fails, or QA or PM has nothing yet, the request ends and changes nothing.
BeginResult(q, kind, r, report) ==
  Begin(q, "store", [NoCall EXCEPT !.kind = kind, !.run = r],
        [Nothing EXCEPT !.result = report])

ExecuteEngineering(q) ==
  \E r \in Runs, o \in Outcomes :
    Exists(r) /\ BeginResult(q, "execute_engineering", r, EngineeringReport(o))

\* Refused with 409 while the run has no QA dispatch row, whatever its status.
RefreshQaResult(q, r) ==
  /\ dispatch[DefaultKey("QA", r)] # NoDispatch
  /\ gate[r] # Absent
  /\ BeginResult(q, "refresh_qa_result", r, Report(gate[r]))

RefreshPmStatus(q) ==
  \E r \in Runs, s \in PmReports :
    /\ received["PM"][r] > 0
    /\ BeginResult(q, "refresh_pm_status", r, Report(s))

\* Mutant: latest_result ordered by received_at ascending.
Oldest(old, new) == IF old = NoResult THEN new ELSE old

\* latest_result orders by received_at, descending.
Newest(old, new) == new

\* intake_result: one more row, the newest of its specialist, at any stage.
Store(q) ==
  LET c == call[q]  s == SpecialistOf(c.kind)  report == seen[q].result IN
  /\ pc[q] = "store"
  /\ results' = [results EXCEPT ![c.run][s] = @ \cup {report}]
  /\ latest'  = [latest EXCEPT ![c.run][s] = Newest(@, report)]
  /\ Finish(q)
  /\ UNCHANGED <<intent, run, dispatch, decision, world>>

-----------------------------------------------------------------------------
(* Readiness *)

BeginReadiness(q) ==
  \E r \in Runs :
    /\ Exists(r)
    /\ Begin(q, "read_engineering", [NoCall EXCEPT !.kind = "compute_readiness", !.run = r],
             [Nothing EXCEPT !.stage = run[r].stage, !.status = run[r].status])

\* The four latest_result queries, each of which sees its own moment.
ReadLatest(q, at, s, next) ==
  /\ pc[q] = at
  /\ seen' = [seen EXCEPT ![q].reads[s] = latest[call[q].run][s]]
  /\ Goto(q, next)
  /\ UNCHANGED <<rows, world>>

ReadResults(q) ==
  \/ ReadLatest(q, "read_engineering", "ENGINEERING", "read_infrastructure")
  \/ ReadLatest(q, "read_infrastructure", "INFRASTRUCTURE", "read_qa")
  \/ ReadLatest(q, "read_qa", "QA", "read_pm")
  \/ ReadLatest(q, "read_pm", "PM", "decide")

InputsOf(assigned, reads) ==
  [assigned |-> assigned,
   eng      |-> reads["ENGINEERING"].status,
   blocking |-> reads["ENGINEERING"].blocking,
   infra    |-> reads["INFRASTRUCTURE"].status,
   qa       |-> reads["QA"].status]

\* Mutant: only a READY decision reaches the status column.
ResolvedWhenReady(row, loaded, d) ==
  [row EXCEPT !.status = IF d = "READY_FOR_DELIVERY" THEN d ELSE @, !.stage = "COMPLETE"]

\* The session writes the columns that differ from what it loaded: a run loaded
\* COMPLETE keeps the stage it has by now, and so does an unchanged status.
Resolved(row, loaded, d) ==
  [row EXCEPT !.status = IF d = loaded.status THEN @ ELSE d,
              !.stage  = IF loaded.stage = "COMPLETE" THEN @ ELSE "COMPLETE"]

\* The commit of compute_readiness. transition_intent_status_safe leaves the intent
\* alone unless its state machine allows READY_FOR_REVIEW.
Decide(q) ==
  LET r   == call[q].run
      in  == InputsOf(run[r].assigned, seen[q].reads)
      d   == EvaluateReadiness(in)
      i   == run[r].intent
  IN
  /\ pc[q] = "decide"
  /\ decision' = [decision EXCEPT ![r] = ReasonCode(in)]
  /\ run' = [run EXCEPT ![r] = Resolved(@, seen[q], d)]
  /\ intent' = IF /\ d = "READY_FOR_DELIVERY"
                  /\ "READY_FOR_REVIEW" \in BusinessIntentTransitions(intent[i])
                 THEN [intent EXCEPT ![i] = "READY_FOR_REVIEW"] ELSE intent
  /\ Finish(q)
  /\ UNCHANGED <<dispatch, results, latest, world>>

-----------------------------------------------------------------------------
(* Surroundings *)

\* QA Again works on a request it accepted; its answer may change until, and
\* after, its sign-offs.
QaProgress(r) ==
  /\ received["QA"][r] > 0
  /\ \E g \in Gates : g # gate[r] /\ gate' = [gate EXCEPT ![r] = g]
  /\ UNCHANGED <<rows, received, threads>>

Crash ==
  /\ MayCrash
  /\ \E q \in Requests : pc[q] # "idle"
  /\ pc'   = [q \in Requests |-> "idle"]
  /\ call' = [q \in Requests |-> NoCall]
  /\ seen' = [q \in Requests |-> Nothing]
  /\ UNCHANGED <<rows, world>>

BeginRequest(q) ==
  \/ BeginCreateRun(q)
  \/ BeginDispatchEngineering(q)
  \/ BeginDispatchPm(q)
  \/ BeginDownstream(q)
  \/ ExecuteEngineering(q)
  \/ \E r \in Runs : RefreshQaResult(q, r)
  \/ RefreshPmStatus(q)
  \/ BeginReadiness(q)

ServeRequest(q) ==
  \/ PlanIntent(q) \/ RefreshIntent(q)
  \/ AssertEngineering(q) \/ AssertInfrastructure(q) \/ PickEngineering(q)
  \/ Lookup(q) \/ Insert(q)
  \/ SendAnswered(q) \/ SendReplyLost(q) \/ SendRefused(q) \/ SendGarbled(q)
  \/ MarkSent(q) \/ MarkFailed(q)
  \/ ReadStage(q) \/ Advance(q) \/ AnswerError(q)
  \/ Store(q)
  \/ ReadResults(q) \/ Decide(q)

Next ==
  \/ \E i \in Intents : CreateIntent(i)
  \/ \E q \in Requests : BeginRequest(q) \/ ServeRequest(q)
  \/ \E r \in Runs : QaProgress(r)
  \/ Crash

Spec == Init /\ [][Next]_vars

\* A request in progress is served; the operator keeps polling QA Again ("Conductor
\* is expected to poll this after dispatch-qa", orchestration.py:308), some poll is
\* answered, and the machine does not stop in the middle of every one of them.
StorePoll(q, r) ==
  call[q].kind = "refresh_qa_result" /\ call[q].run = r /\ Store(q)

Polling ==
  \A q \in Requests :
    /\ WF_vars(ServeRequest(q))
    /\ \A r \in Runs : SF_vars(RefreshQaResult(q, r)) /\ SF_vars(StorePoll(q, r))

PollingSpec == Spec /\ Polling

-----------------------------------------------------------------------------
(* Types *)

TypeOK ==
  /\ intent \in [Intents -> IntentStates \cup {Absent}]
  /\ run \in [Runs -> RunRow \cup {NoRun}]
  /\ dispatch \in [Keys -> DispatchRow \cup {NoDispatch}]
  /\ results \in [Runs -> [Specialists -> SUBSET Results]]
  /\ latest \in [Runs -> Reads]
  /\ decision \in [Runs -> ReasonCodes \cup {Absent}]
  /\ received \in [Specialists -> [Runs -> 0..2]]
  /\ gate \in [Runs -> QualityGates \cup {Absent}]
  /\ pc \in [Requests -> PCs]
  /\ call \in [Requests -> Calls \cup {NoCall}]
  /\ seen \in [Requests -> Seen]

-----------------------------------------------------------------------------
(* Properties that hold whatever the interleaving and whenever it crashes *)

Status(s, r) == dispatch[DefaultKey(s, r)].status

\* READY_FOR_DELIVERY has a trail across three services, not only a column: an
\* engineering report that does not block, an infrastructure dispatch that was
\* sent, and an approval from a QA Again that really received the request.
ReadyIsEarned ==
  \A r \in Runs : decision[r] \in ReadyCodes =>
    /\ "engineering" \in run[r].assigned =>
         \E x \in results[r]["ENGINEERING"] : x.status # "FAILED" /\ ~ x.blocking
    /\ "infrastructure" \in run[r].assigned => Status("INFRASTRUCTURE", r) = "SENT"
    /\ "qa" \in run[r].assigned =>
         /\ Report("APPROVED") \in results[r]["QA"]
         /\ received["QA"][r] > 0

\* QA Again receives at most one QARequest per run, though two dispatch-qa calls
\* may run at once, answers may be lost and Conductor may stop after the send:
\* each call renders a fresh request, so the unique key admits only one of them.
QaReceivedAtMostOnce == \A r \in Runs : received["QA"][r] <= 1

\* No synthetic acknowledgement: a dispatch reads SENT only if the specialist
\* accepted a package of that run (qa_adapter.py:60-65).
SentWasReceived ==
  \A r \in Runs, s \in {"ENGINEERING", "QA", "PM"} :
    Status(s, r) = "SENT" => received[s][r] > 0

\* A run stands at INFRASTRUCTURE or QA only when that dispatch was sent.
StageHasDispatch ==
  \A r \in Runs, s \in {"INFRASTRUCTURE", "QA"} :
    run[r].stage = s => Status(s, r) = "SENT"

\* An infrastructure or QA dispatch is settled once: SENT and FAILED are final,
\* so a request that QA refused is never repeated.
DownstreamOutcomeFinal ==
  [][ \A r \in Runs, s \in {"INFRASTRUCTURE", "QA"} :
        Status(s, r) \in {"SENT", "FAILED"} => Status(s, r)' = Status(s, r) ]_vars

\* When no request is in flight, an intent that has a run is PLANNED, although
\* two calls of create_run may carry it back to ANALYZING on the way.
IntentSettlesPlanned ==
  (\A q \in Requests : pc[q] = "idle") =>
    \A r \in Runs : Exists(r) => intent[run[r].intent] = "PLANNED"

\* Once QA Again's answer no longer changes, polling makes it the run's newest QA
\* result for good, even if the dispatch was marked FAILED because its answer was
\* lost, and even if older answers are still on their way to the database.
QaVerdictArrives ==
  \A r \in Runs, g \in Gates :
    <>[](gate[r] = g) => <>[](latest[r]["QA"] = Report(g))

-----------------------------------------------------------------------------
(* Properties that hold when requests are served one at a time, crashes included *)

StageRank(stage) ==
  CASE stage = Absent -> 0 [] stage = "INTENT" -> 1 [] stage = "PLAN" -> 2
    [] stage = "ENGINEERING" -> 3 [] stage = "INFRASTRUCTURE" -> 4 [] stage = "QA" -> 5
    [] stage = "DELIVERY_READINESS" -> 6 [] stage = "COMPLETE" -> 7

\* The stage flow only goes forward; COMPLETE is never left (state_machine.py:27).
StageNeverRetreats ==
  [][ \A r \in Runs : StageRank(run[r].stage) <= StageRank(run'[r].stage) ]_vars

\* No infrastructure or QA dispatch is registered for a run whose newest
\* engineering report is a failure, or that has none (service.py:210-222).
NoDownstreamAfterHardFailure ==
  [][ \A r \in Runs, s \in {"INFRASTRUCTURE", "QA"} :
        Status(s, r) = Absent /\ Status(s, r)' # Absent =>
          latest[r]["ENGINEERING"].status \notin {"FAILED", NoStatus} ]_vars

\* A settled dispatch is returned, not sent again: "identical fingerprint ->
\* returns the existing dispatch (no duplicate)"
\* (CONDUCTOR_ORCHESTRATION_ARCHITECTURE.md:91).
SettledIsNotResent ==
  [][ \A r \in Runs, s \in Specialists :
        Status(s, r) \in {"SENT", "FAILED"} => received'[s][r] = received[s][r] ]_vars

DecisionOf(code) ==
  IF code \in ReadyCodes THEN "READY_FOR_DELIVERY"
  ELSE IF code = Absent THEN "IN_PROGRESS" ELSE "NOT_READY"

\* The run's status column agrees with its newest readiness decision.
StatusIsLastDecision ==
  \A r \in Runs : Exists(r) => run[r].status = DecisionOf(decision[r])

-----------------------------------------------------------------------------
(* A statement of the repository that concurrent requests refute *)

\* "Readiness is the terminal decision authority: it always resolves the run to
\* COMPLETE" (service.py:359), from which no transition leads (state_machine.py:34).
CompleteIsTerminal ==
  [][ \A r \in Runs : run[r].stage = "COMPLETE" => run'[r].stage = "COMPLETE" ]_vars

=============================================================================
