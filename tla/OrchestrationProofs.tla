------------------------- MODULE OrchestrationProofs -------------------------
(***************************************************************************)
(* Theorems about Orchestration, for any number of intents, runs, requests,  *)
(* caller keys and fingerprints, and whichever endpoints are in use.         *)
(***************************************************************************)
EXTENDS Orchestration, TLAPS

\* The steps of a request that is dispatching, and those that move the stage.
DispatchSteps == {"assert_engineering", "assert_infrastructure", "pick_engineering",
                  "lookup", "insert", "send", "mark_sent", "mark_failed"}
StageSteps    == {"read_stage", "advance"}
Downstream    == {"dispatch_infrastructure", "dispatch_qa"}
Staged        == Downstream \cup {"dispatch_engineering"}

\* What a request at a given step has in hand.
CallOK(q) ==
  /\ pc[q] = "idle" => call[q] = NoCall
  /\ pc[q] # "idle" => call[q] \in Calls
  /\ pc[q] \in {"plan_intent", "refresh_intent"} => call[q].intent \in Intents
  /\ pc[q] = "plan_intent" => seen[q].intent \in IntentStates
  /\ pc[q] \in DispatchSteps =>
       /\ call[q].kind \in DispatchKinds
       /\ call[q].key \in Keys
       /\ call[q].payload \in Payloads
  /\ pc[q] \in {"assert_engineering", "assert_infrastructure", "pick_engineering"} =>
       call[q].kind \in Downstream
  /\ pc[q] \in StageSteps => call[q].kind \in Staged
  /\ pc[q] = "store" =>
       /\ call[q].kind \in ResultKinds \cup {"dispatch_infrastructure"}
       /\ seen[q].result \in Results
  /\ pc[q] \notin {"idle", "plan_intent", "refresh_intent", "store"} => Exists(call[q].run)
  /\ pc[q] \in {"send", "mark_sent", "mark_failed"} => dispatch[call[q].key] # NoDispatch

TypeInv == TypeOK /\ \A q \in Requests : CallOK(q)

-----------------------------------------------------------------------------
(* Facts about the vocabulary *)

LEMMA SpecialistOfKind ==
  /\ \A k \in DispatchKinds \cup ResultKinds : SpecialistOf(k) \in Specialists
  /\ \A k \in Staged : SpecialistOf(k) \in RunStages
BY DEF SpecialistOf, DispatchKinds, ResultKinds, Specialists, Staged, Downstream, RunStages

LEMMA ReportTyped ==
  /\ \A o \in EngineeringOutcomes : EngineeringReport(o) \in Results
  /\ \A g \in QualityGates : Report(g) \in Results
  /\ \A s \in PmStatuses : Report(s) \in Results
  /\ Report("SUCCESS") \in Results
<1>1. \A s \in Specialists : Result(s) \subseteq Results
  BY DEF Results
<1>2. \A o \in EngineeringOutcomes : EngineeringReport(o) \in Result("ENGINEERING")
  BY DEF EngineeringReport, Result, EngineeringOutcomes, EngineeringStatuses
<1>3. \A g \in QualityGates : Report(g) \in Result("QA")
  BY DEF Report, Result
<1>4. \A s \in PmStatuses : Report(s) \in Result("PM")
  BY DEF Report, Result
<1>5. Report("SUCCESS") \in Result("INFRASTRUCTURE")
  BY DEF Report, Result, InfrastructureStatuses
<1> QED BY <1>1, <1>2, <1>3, <1>4, <1>5 DEF Specialists

LEMMA ReasonTyped ==
  \A in : ReasonCode(in) \in ReasonCodes /\ EvaluateReadiness(in) \in Decisions
BY DEF ReasonCode, ReasonCodes, ReadyCodes, BlockedCodes, EvaluateReadiness, Decisions

LEMMA InitTypeInv == Init => TypeInv
BY DEF Init, TypeInv, TypeOK, CallOK, Reads, NoReads, NoCall, Nothing, Seen, PCs, Uncaught, NoResult,
  DispatchSteps, StageSteps

-----------------------------------------------------------------------------
(* How a step moves the requests *)

\* Every request but q is where it was.
Others(q) ==
  \A p \in Requests \ {q} :
    pc'[p] = pc[p] /\ call'[p] = call[p] /\ seen'[p] = seen[p]

LEMMA Moved ==
  ASSUME TypeOK, NEW q \in Requests, NEW label, Goto(q, label), UNCHANGED seen
  PROVE  /\ Others(q)
         /\ pc'[q] = label /\ call'[q] = call[q] /\ seen'[q] = seen[q]
         /\ label \in PCs =>
              /\ pc' \in [Requests -> PCs]
              /\ call' \in [Requests -> Calls \cup {NoCall}]
              /\ seen' \in [Requests -> Seen]
BY DEF TypeOK, Goto, Others

LEMMA Finished ==
  ASSUME TypeOK, NEW q \in Requests, Finish(q)
  PROVE  /\ Others(q)
         /\ pc'[q] = "idle" /\ call'[q] = NoCall /\ seen'[q] = Nothing
         /\ pc' \in [Requests -> PCs]
         /\ call' \in [Requests -> Calls \cup {NoCall}]
         /\ seen' \in [Requests -> Seen]
<1>1. Nothing \in Seen
  BY DEF Nothing, Seen, Reads, NoReads
<1> QED BY <1>1 DEF TypeOK, Finish, Others, PCs

LEMMA Begun ==
  ASSUME TypeOK, NEW q \in Requests, NEW label \in PCs, NEW c \in Calls, NEW s \in Seen,
         Begin(q, label, c, s)
  PROVE  /\ Others(q)
         /\ pc[q] = "idle" /\ pc'[q] = label /\ call'[q] = c /\ seen'[q] = s
         /\ c.kind \in Kinds
         /\ pc' \in [Requests -> PCs]
         /\ call' \in [Requests -> Calls \cup {NoCall}]
         /\ seen' \in [Requests -> Seen]
         /\ UNCHANGED <<rows, world>>
BY DEF TypeOK, Begin, Others

\* What a request has read stays well formed when one field is read again.
LEMMA SeenUpdated ==
  ASSUME seen \in [Requests -> Seen], NEW q \in Requests
  PROVE  /\ \A v \in IntentStates : seen' = [seen EXCEPT ![q].intent = v] =>
              seen' \in [Requests -> Seen] /\ seen'[q].intent = v
         /\ \A v \in Results : seen' = [seen EXCEPT ![q].result = v] =>
              seen' \in [Requests -> Seen] /\ seen'[q].result = v
         /\ \A s \in Specialists, v \in Results \cup {NoResult} :
              seen' = [seen EXCEPT ![q].reads[s] = v] =>
                /\ seen' \in [Requests -> Seen]
                /\ seen'[q].reads = [seen[q].reads EXCEPT ![s] = v]
<1>1. \A x \in Seen, v \in IntentStates : [x EXCEPT !.intent = v] \in Seen
  BY DEF Seen
<1>2. \A x \in Seen, v \in Results : [x EXCEPT !.result = v] \in Seen
  BY DEF Seen
<1>3. \A x \in Seen, s \in Specialists, v \in Results \cup {NoResult} :
        [x EXCEPT !.reads = [x.reads EXCEPT ![s] = v]] \in Seen
  BY DEF Seen, Reads
<1>4. seen[q] \in Seen
  OBVIOUS
<1>5. ASSUME NEW v \in IntentStates, seen' = [seen EXCEPT ![q].intent = v]
      PROVE  seen' \in [Requests -> Seen] /\ seen'[q].intent = v
  <2>1. seen' = [seen EXCEPT ![q] = [seen[q] EXCEPT !.intent = v]]
    BY <1>5
  <2>2. [seen[q] EXCEPT !.intent = v] \in Seen /\ [seen[q] EXCEPT !.intent = v].intent = v
    BY <1>1, <1>4 DEF Seen
  <2> QED BY <2>1, <2>2
<1>6. ASSUME NEW v \in Results, seen' = [seen EXCEPT ![q].result = v]
      PROVE  seen' \in [Requests -> Seen] /\ seen'[q].result = v
  <2>1. seen' = [seen EXCEPT ![q] = [seen[q] EXCEPT !.result = v]]
    BY <1>6
  <2>2. [seen[q] EXCEPT !.result = v] \in Seen /\ [seen[q] EXCEPT !.result = v].result = v
    BY <1>2, <1>4 DEF Seen
  <2> QED BY <2>1, <2>2
<1>7. ASSUME NEW s \in Specialists, NEW v \in Results \cup {NoResult},
             seen' = [seen EXCEPT ![q].reads[s] = v]
      PROVE  /\ seen' \in [Requests -> Seen]
             /\ seen'[q].reads = [seen[q].reads EXCEPT ![s] = v]
  <2> DEFINE y == [seen[q] EXCEPT !.reads = [seen[q].reads EXCEPT ![s] = v]]
  <2>1. seen' = [seen EXCEPT ![q] = y]
    BY <1>7
  <2>2. y \in Seen /\ y.reads = [seen[q].reads EXCEPT ![s] = v]
    BY <1>3, <1>4 DEF Seen
  <2> QED BY <2>1, <2>2
<1> QED BY <1>5, <1>6, <1>7

\* A step of q leaves what the other requests have in hand in order as long as no
\* run and no dispatch row disappears.
LEMMA OthersKeepCallOK ==
  ASSUME NEW q \in Requests, Others(q), \A p \in Requests : CallOK(p),
         \A r \in Runs : Exists(r) => Exists(r)',
         \A k \in Keys : dispatch[k] # NoDispatch => dispatch'[k] # NoDispatch
  PROVE  \A p \in Requests \ {q} : CallOK(p)'
<1>1. SUFFICES ASSUME NEW p \in Requests \ {q} PROVE CallOK(p)'
  OBVIOUS
<1>2. pc[p] # "idle" => call[p].run \in Runs
  BY DEF CallOK, Calls
<1>3. pc[p] \in {"send", "mark_sent", "mark_failed"} => call[p].key \in Keys
  BY DEF CallOK, DispatchSteps
<1> QED BY <1>2, <1>3 DEF CallOK, Others

-----------------------------------------------------------------------------
(* Type correctness *)

\* What a request has in hand when it begins at a step.
Fits(label, c, s) ==
  \/ /\ label = "plan_intent" /\ c.kind = "create_run"
     /\ c.intent \in Intents /\ s.intent \in IntentStates
  \/ /\ label \in {"lookup", "assert_engineering"} /\ c.kind \in DispatchKinds
     /\ label = "assert_engineering" => c.kind \in Downstream
     /\ c.key \in Keys /\ c.payload \in Payloads /\ Exists(c.run)
     /\ \/ c.key = DefaultKey(SpecialistOf(c.kind), c.run)
        \/ c.key \in CallerKeys /\ c.kind = "dispatch_engineering"
     /\ c.kind \in Downstream => c.payload = Fresh
  \/ /\ label = "store" /\ c.kind \in ResultKinds
     /\ s.result \in Results
     /\ s.result.blocking => c.kind = "execute_engineering" /\ s.result.status = "PARTIAL"
     /\ c.kind = "refresh_qa_result" => gate[c.run] # Absent
  \/ /\ label = "read_engineering" /\ c.kind = "compute_readiness"
     /\ Exists(c.run) /\ s.reads = NoReads

LEMMA BlankTyped == Nothing \in Seen /\ Nothing.reads = NoReads
BY DEF Nothing, Seen, Reads, NoReads

LEMMA CreateRunFits ==
  ASSUME TypeInv, NEW q \in Requests, BeginCreateRun(q)
  PROVE  \E label \in PCs, c \in Calls, s \in Seen : Begin(q, label, c, s) /\ Fits(label, c, s)
<1>1. PICK i \in Intents, r \in Runs, a \in Assignments :
        /\ intent[i] # Absent
        /\ Begin(q, "plan_intent",
             [NoCall EXCEPT !.kind = "create_run", !.run = r, !.intent = i, !.assigned = a],
             [Nothing EXCEPT !.intent = intent[i]])
  BY DEF BeginCreateRun
<1> DEFINE c == [NoCall EXCEPT !.kind = "create_run", !.run = r, !.intent = i, !.assigned = a]
           s == [Nothing EXCEPT !.intent = intent[i]]
<1>2. c \in Calls /\ c.intent = i /\ c.kind = "create_run"
  BY AssignmentsAssumption DEF NoCall, Calls, AllKinds
<1>3. s \in Seen /\ s.intent \in IntentStates
  BY <1>1 DEF TypeInv, TypeOK, Nothing, Seen, Reads, NoReads
<1>4. "plan_intent" \in PCs
  BY DEF PCs
<1> HIDE DEF c, s
<1> QED BY <1>1, <1>2, <1>3, <1>4 DEF c, s, Fits

LEMMA DispatchFits ==
  ASSUME NEW q \in Requests, NEW label \in {"lookup", "assert_engineering"},
         NEW kind \in DispatchKinds, NEW r \in Runs, NEW k \in Keys, NEW p \in Payloads,
         label = "assert_engineering" => kind \in Downstream,
         Exists(r),
         \/ k = DefaultKey(SpecialistOf(kind), r)
         \/ k \in CallerKeys /\ kind = "dispatch_engineering",
         kind \in Downstream => p = Fresh,
         Begin(q, label, DispatchCall(kind, r, k, p), Nothing)
  PROVE  \E l \in PCs, c \in Calls, s \in Seen : Begin(q, l, c, s) /\ Fits(l, c, s)
<1> DEFINE c == DispatchCall(kind, r, k, p)
<1>1. c \in Calls /\ c.run = r /\ c.kind = kind /\ c.key = k /\ c.payload = p
  BY DEF DispatchCall, NoCall, Calls, DispatchKinds, AllKinds
<1>2. label \in PCs
  BY DEF PCs
<1> HIDE DEF c
<1>3. Begin(q, label, c, Nothing)
  BY DEF c
<1>4. Fits(label, c, Nothing)
  BY <1>1 DEF Fits
<1> QED BY <1>1, <1>2, <1>3, <1>4, BlankTyped

LEMMA ResultFits ==
  ASSUME NEW q \in Requests, NEW kind \in ResultKinds, NEW r \in Runs, NEW report \in Results,
         report.blocking => kind = "execute_engineering" /\ report.status = "PARTIAL",
         kind = "refresh_qa_result" => gate[r] # Absent,
         BeginResult(q, kind, r, report)
  PROVE  \E l \in PCs, c \in Calls, s \in Seen : Begin(q, l, c, s) /\ Fits(l, c, s)
<1> DEFINE c == [NoCall EXCEPT !.kind = kind, !.run = r]
           s == [Nothing EXCEPT !.result = report]
<1>1. c \in Calls /\ c.run = r /\ c.kind = kind
  BY DEF NoCall, Calls, ResultKinds, AllKinds
<1>2. s \in Seen /\ s.result = report
  BY DEF Nothing, Seen, Reads, NoReads
<1>3. "store" \in PCs
  BY DEF PCs
<1> HIDE DEF c, s
<1>4. Begin(q, "store", c, s)
  BY DEF BeginResult, c, s
<1>5. Fits("store", c, s)
  BY <1>1, <1>2 DEF Fits
<1> QED BY <1>1, <1>2, <1>3, <1>4, <1>5

LEMMA ReadinessFits ==
  ASSUME TypeInv, NEW q \in Requests, BeginReadiness(q)
  PROVE  \E label \in PCs, c \in Calls, s \in Seen : Begin(q, label, c, s) /\ Fits(label, c, s)
<1>1. PICK r \in Runs :
        /\ Exists(r)
        /\ Begin(q, "read_engineering", [NoCall EXCEPT !.kind = "compute_readiness", !.run = r],
             [Nothing EXCEPT !.stage = run[r].stage, !.status = run[r].status])
  BY DEF BeginReadiness
<1> DEFINE c == [NoCall EXCEPT !.kind = "compute_readiness", !.run = r]
           s == [Nothing EXCEPT !.stage = run[r].stage, !.status = run[r].status]
<1>2. c \in Calls /\ c.run = r /\ c.kind = "compute_readiness"
  BY DEF NoCall, Calls, AllKinds
<1>3. s \in Seen /\ s.reads = NoReads
  BY <1>1 DEF TypeInv, TypeOK, Nothing, Seen, Reads, NoReads, RunRow, Exists
<1>4. "read_engineering" \in PCs
  BY DEF PCs
<1> HIDE DEF c, s
<1> QED BY <1>1, <1>2, <1>3, <1>4 DEF c, s, Fits

\* Every request begins with what its first step needs.
LEMMA BeginRequestFits ==
  ASSUME TypeInv, NEW q \in Requests, BeginRequest(q)
  PROVE  \E label \in PCs, c \in Calls, s \in Seen : Begin(q, label, c, s) /\ Fits(label, c, s)
<1>1. \A s \in Specialists, r \in Runs : DefaultKey(s, r) \in Keys
  BY DEF DefaultKey, Keys
<1>2. CASE BeginCreateRun(q)
  BY <1>2, CreateRunFits
<1>3. CASE BeginDispatchEngineering(q)
  <2>1. PICK r \in Runs, p \in Prints, k \in Keys :
          /\ Exists(r)
          /\ k = DefaultKey("ENGINEERING", r) \/ k \in CallerKeys
          /\ Begin(q, "lookup", DispatchCall("dispatch_engineering", r, k, p), Nothing)
    <3>1. \A r \in Runs : {DefaultKey("ENGINEERING", r)} \cup CallerKeys \subseteq Keys
      BY <1>1 DEF Keys, Specialists
    <3> QED BY <1>3, <3>1 DEF BeginDispatchEngineering
  <2>2. p \in Payloads /\ SpecialistOf("dispatch_engineering") = "ENGINEERING"
    BY DEF Payloads, SpecialistOf
  <2> QED BY <2>1, <2>2, DispatchFits DEF DispatchKinds, Downstream
<1>4. CASE BeginDispatchPm(q)
  <2>1. PICK r \in Runs :
          /\ Exists(r)
          /\ Begin(q, "lookup", DispatchCall("dispatch_pm", r, DefaultKey("PM", r), Stable), Nothing)
    BY <1>4 DEF BeginDispatchPm
  <2>2. /\ DefaultKey("PM", r) \in Keys /\ Stable \in Payloads
        /\ SpecialistOf("dispatch_pm") = "PM"
    BY <1>1 DEF Payloads, Specialists, SpecialistOf
  <2> QED BY <2>1, <2>2, DispatchFits DEF DispatchKinds, Downstream
<1>5. CASE BeginDownstream(q)
  <2>1. PICK r \in Runs, kind \in Downstream :
          /\ Exists(r)
          /\ Begin(q, "assert_engineering",
                   DispatchCall(kind, r, DefaultKey(SpecialistOf(kind), r), Fresh), Nothing)
    BY <1>5 DEF BeginDownstream, Downstream
  <2>2. kind \in DispatchKinds /\ Fresh \in Payloads
    BY DEF Downstream, DispatchKinds, Payloads
  <2>3. DefaultKey(SpecialistOf(kind), r) \in Keys
    BY <1>1, <2>2, SpecialistOfKind
  <2> QED BY <2>1, <2>2, <2>3, DispatchFits
<1>6. CASE ExecuteEngineering(q)
  <2>1. PICK r \in Runs, o \in Outcomes :
          BeginResult(q, "execute_engineering", r, EngineeringReport(o))
    BY <1>6 DEF ExecuteEngineering
  <2>2. /\ EngineeringReport(o) \in Results
        /\ EngineeringReport(o).blocking => EngineeringReport(o).status = "PARTIAL"
    BY ReportTyped, OutcomesAssumption DEF EngineeringReport
  <2> QED BY <2>1, <2>2, ResultFits DEF ResultKinds
<1>7. ASSUME NEW r \in Runs, RefreshQaResult(q, r)
      PROVE  \E label \in PCs, c \in Calls, s \in Seen : Begin(q, label, c, s) /\ Fits(label, c, s)
  <2>1. /\ gate[r] \in QualityGates /\ gate[r] # Absent
        /\ BeginResult(q, "refresh_qa_result", r, Report(gate[r]))
    BY <1>7 DEF RefreshQaResult, TypeInv, TypeOK
  <2>2. Report(gate[r]) \in Results /\ ~ Report(gate[r]).blocking
    BY <2>1, ReportTyped DEF Report
  <2> QED BY <2>1, <2>2, ResultFits DEF ResultKinds
<1>8. CASE RefreshPmStatus(q)
  <2>1. PICK r \in Runs, s \in PmReports : BeginResult(q, "refresh_pm_status", r, Report(s))
    BY <1>8 DEF RefreshPmStatus
  <2>2. Report(s) \in Results /\ ~ Report(s).blocking
    BY ReportTyped, PmReportsAssumption DEF Report
  <2> QED BY <2>1, <2>2, ResultFits DEF ResultKinds
<1>9. CASE BeginReadiness(q)
  BY <1>9, ReadinessFits
<1> QED BY <1>2, <1>3, <1>4, <1>5, <1>6, <1>7, <1>8, <1>9 DEF BeginRequest

LEMMA BeginRequestTyped ==
  ASSUME TypeInv, NEW q \in Requests, BeginRequest(q)
  PROVE  TypeInv'
<1>1. PICK label \in PCs, c \in Calls, s \in Seen : Begin(q, label, c, s) /\ Fits(label, c, s)
  BY BeginRequestFits
<1>2. TypeOK
  BY DEF TypeInv
<1>3. TypeOK'
  BY <1>1, <1>2, Begun DEF TypeOK, rows, world
<1>4. CallOK(q)'
  BY <1>1, <1>2, Begun DEF CallOK, Fits, DispatchSteps, StageSteps, Exists, rows
<1>5. \A x \in Requests \ {q} : CallOK(x)'
  BY <1>1, <1>2, Begun, OthersKeepCallOK DEF TypeInv, Exists, rows
<1> QED BY <1>3, <1>4, <1>5 DEF TypeInv

\* A step that only moves q, by Goto or Finish.
LEMMA MoveTyped ==
  ASSUME TypeInv, NEW q \in Requests, NEW label \in PCs,
         UNCHANGED <<rows, gate>>, received' \in [Specialists -> [Runs -> 0..2]],
         \/ Finish(q)
         \/ /\ Goto(q, label) /\ UNCHANGED seen
            /\ CallOK(q)'
  PROVE  TypeInv'
<1>1. TypeOK
  BY DEF TypeInv
<1>2. Others(q)
  BY <1>1, Moved, Finished
<1>3. TypeOK'
  BY <1>1, Moved, Finished DEF TypeOK, rows
<1>4. CallOK(q)'
  BY <1>1, Finished DEF CallOK, DispatchSteps, StageSteps
<1>5. \A x \in Requests \ {q} : CallOK(x)'
  BY <1>2, OthersKeepCallOK DEF TypeInv, Exists, rows
<1> QED BY <1>3, <1>4, <1>5 DEF TypeInv

\* The steps that read, or answer, and write no row.
LEMMA ReadTyped ==
  ASSUME TypeInv, NEW q \in Requests,
         \/ AssertEngineering(q) \/ AssertInfrastructure(q) \/ PickEngineering(q)
         \/ Lookup(q) \/ ReadStage(q) \/ AnswerError(q)
  PROVE  TypeInv'
<1>1. TypeOK /\ CallOK(q)
  BY DEF TypeInv
<1>2. UNCHANGED <<rows, world>>
  BY DEF AssertEngineering, AssertInfrastructure, PickEngineering, Lookup, ReadStage, AnswerError
<1>3. PICK label \in PCs :
        \/ Finish(q)
        \/ Goto(q, label) /\ UNCHANGED seen /\ CallOK(q)'
  <2>1. CASE AssertEngineering(q)
    BY <1>1, <1>2, <2>1, Moved DEF AssertEngineering, CallOK, DispatchSteps, StageSteps, PCs, Exists, rows
  <2>2. CASE AssertInfrastructure(q)
    BY <1>1, <1>2, <2>2, Moved DEF AssertInfrastructure, CallOK, DispatchSteps, StageSteps, PCs, Exists, rows
  <2>3. CASE PickEngineering(q)
    BY <1>1, <1>2, <2>3, Moved DEF PickEngineering, CallOK, DispatchSteps, StageSteps, PCs, Exists, rows
  <2>4. CASE Lookup(q)
    <3>1. pc[q] = "lookup" /\ call[q] \in Calls /\ call[q].kind \in DispatchKinds /\ call[q].key \in Keys
          /\ call[q].payload \in Payloads /\ Exists(call[q].run)
      BY <1>1, <2>4 DEF Lookup, CallOK, DispatchSteps
    <3>2. \/ Finish(q)
          \/ \E label \in {"insert", "IdempotencyConflictError"} : Goto(q, label) /\ UNCHANGED seen
          \/ Goto(q, "send") /\ UNCHANGED seen /\ dispatch[call[q].key] # NoDispatch
      BY <2>4 DEF Lookup
    <3>3. ASSUME NEW label \in {"insert", "IdempotencyConflictError"}, Goto(q, label), UNCHANGED seen
          PROVE  label \in PCs /\ CallOK(q)'
      BY <1>1, <1>2, <3>1, <3>3, Moved DEF CallOK, DispatchSteps, StageSteps, PCs, Uncaught, Exists, rows
    <3>4. ASSUME Goto(q, "send"), UNCHANGED seen, dispatch[call[q].key] # NoDispatch
          PROVE  "send" \in PCs /\ CallOK(q)'
      BY <1>1, <1>2, <3>1, <3>4, Moved DEF CallOK, DispatchSteps, StageSteps, PCs, Exists, rows
    <3> QED BY <3>2, <3>3, <3>4 DEF PCs
  <2>5. CASE ReadStage(q)
    <3>1. pc[q] = "read_stage" /\ call[q] \in Calls /\ call[q].kind \in Staged /\ Exists(call[q].run)
      BY <1>1, <2>5 DEF ReadStage, CallOK, StageSteps
    <3>2. PICK label \in {"advance", "InvalidTransitionError"} : Goto(q, label) /\ UNCHANGED seen
      BY <2>5 DEF ReadStage
    <3>3. label \in PCs /\ CallOK(q)'
      BY <1>1, <1>2, <3>1, <3>2, Moved DEF CallOK, DispatchSteps, StageSteps, PCs, Uncaught, Exists, rows
    <3> QED BY <3>2, <3>3
  <2>6. CASE AnswerError(q)
    BY <2>6 DEF AnswerError, PCs
  <2> QED BY <2>1, <2>2, <2>3, <2>4, <2>5, <2>6
<1> QED BY <1>1, <1>2, <1>3, MoveTyped DEF world, TypeOK

\* The steps of create_run.
LEMMA CreateRunTyped ==
  ASSUME TypeInv, NEW q \in Requests, PlanIntent(q) \/ RefreshIntent(q)
  PROVE  TypeInv'
<1>1. TypeOK /\ CallOK(q)
  BY DEF TypeInv
<1>2. "refresh_intent" \in PCs /\ "plan_intent" \in PCs
  BY DEF PCs
<1>3. CASE PlanIntent(q)
  <2> DEFINE c == call[q]  st == seen[q].intent
  <2>1. /\ c \in Calls /\ c.run \in Runs /\ c.intent \in Intents /\ c.assigned \in SUBSET Assignable
        /\ st \in IntentStates
    BY <1>1, <1>3 DEF CallOK, PlanIntent, Calls
  <2>2. PlanStep(st) \in IntentStates
    BY <2>1 DEF PlanStep, IntentStates
  <2>3. [intent |-> c.intent, stage |-> "PLAN", status |-> "IN_PROGRESS",
         assigned |-> c.assigned] \in RunRow
    BY <2>1 DEF RunRow, RunStages, RunStatuses
  <2>4. run' \in [Runs -> RunRow \cup {NoRun}] /\ \A r \in Runs : Exists(r) => Exists(r)'
    BY <1>1, <1>3, <2>1, <2>3 DEF PlanIntent, TypeOK, Exists
  <2>5. intent' \in [Intents -> IntentStates \cup {Absent}]
    BY <1>1, <1>3, <2>1, <2>2 DEF PlanIntent, TypeOK
  <2>6. \/ Finish(q)
        \/ Goto(q, "refresh_intent") /\ UNCHANGED seen
    BY <1>3 DEF PlanIntent
  <2>7. Others(q) /\ CallOK(q)'
    BY <1>1, <1>2, <1>3, <2>6, Moved, Finished DEF CallOK, DispatchSteps, StageSteps, PlanIntent
  <2>8. TypeOK'
    BY <1>1, <1>2, <1>3, <2>4, <2>5, <2>6, Moved, Finished DEF TypeOK, PlanIntent, world
  <2>9. \A x \in Requests \ {q} : CallOK(x)'
    BY <1>3, <2>4, <2>7, OthersKeepCallOK DEF TypeInv, PlanIntent
  <2> QED BY <2>7, <2>8, <2>9 DEF TypeInv
<1>4. CASE RefreshIntent(q)
  <2>1. call[q] \in Calls
    BY <1>1, <1>4 DEF CallOK, RefreshIntent
  <2>2. \/ Finish(q)
        \/ Goto(q, "plan_intent") /\ seen' = [seen EXCEPT ![q].intent = "ANALYZING"]
    BY <1>4 DEF RefreshIntent
  <2>3. Others(q) /\ seen' \in [Requests -> Seen] /\ CallOK(q)'
    <3>1. CASE Finish(q)
      BY <1>1, <3>1, Finished DEF CallOK, DispatchSteps, StageSteps
    <3>2. CASE Goto(q, "plan_intent") /\ seen' = [seen EXCEPT ![q].intent = "ANALYZING"]
      <4>1. Others(q) /\ pc'[q] = "plan_intent" /\ call'[q] = call[q]
        BY <1>1, <3>2 DEF Goto, TypeOK, Others
      <4>2. seen' \in [Requests -> Seen] /\ seen'[q].intent \in IntentStates
        BY <1>1, <3>2, SeenUpdated DEF TypeOK, IntentStates
      <4>3. CallOK(q)'
        BY <1>1, <1>4, <2>1, <4>1, <4>2 DEF CallOK, DispatchSteps, StageSteps, RefreshIntent
      <4> QED BY <4>1, <4>2, <4>3
    <3> QED BY <2>2, <3>1, <3>2
  <2>4. TypeOK'
    BY <1>1, <1>2, <1>4, <2>2, <2>3, Finished DEF TypeOK, RefreshIntent, Goto, rows, world
  <2>5. \A x \in Requests \ {q} : CallOK(x)'
    BY <1>4, <2>3, OthersKeepCallOK DEF TypeInv, RefreshIntent, Exists, rows
  <2> QED BY <2>3, <2>4, <2>5 DEF TypeInv
<1> QED BY <1>3, <1>4

\* The insert and the two marks write one dispatch row.
LEMMA DispatchRowTyped ==
  ASSUME TypeInv, NEW q \in Requests, Insert(q) \/ MarkSent(q) \/ MarkFailed(q)
  PROVE  TypeInv'
<1>1. TypeOK /\ CallOK(q)
  BY DEF TypeInv
<1>2. /\ call[q].key \in Keys /\ call[q].payload \in Payloads /\ call[q].run \in Runs
      /\ call[q].kind \in DispatchKinds
  BY <1>1 DEF CallOK, DispatchSteps, Insert, MarkSent, MarkFailed, Calls
<1>3. dispatch' \in [Keys -> DispatchRow \cup {NoDispatch}]
  <2>1. CASE Insert(q)
    BY <1>1, <1>2, <2>1 DEF Insert, TypeOK, DispatchRow
  <2>2. ASSUME NEW status \in {"SENT", "FAILED"}, Mark(q, status), dispatch[call[q].key] # NoDispatch
        PROVE  dispatch' \in [Keys -> DispatchRow \cup {NoDispatch}]
    BY <1>1, <1>2, <2>2 DEF Mark, TypeOK, DispatchRow
  <2>3. CASE MarkSent(q) \/ MarkFailed(q)
    BY <1>1, <2>2, <2>3 DEF MarkSent, MarkFailed, CallOK
  <2> QED BY <2>1, <2>3
<1>4. \A k \in Keys : dispatch[k] # NoDispatch => dispatch'[k] # NoDispatch
  BY <1>1, <1>2 DEF Insert, MarkSent, MarkFailed, Mark, TypeOK, NoDispatch, DispatchRow, Absent
<1>5. PICK label \in PCs :
        \/ Finish(q)
        \/ Goto(q, label) /\ UNCHANGED seen /\ CallOK(q)'
  <2>1. CASE Insert(q)
    BY <1>1, <1>2, <2>1, Moved
       DEF Insert, KeyFree, AfterInsert, CallOK, DispatchSteps, StageSteps, PCs, Uncaught, Exists, TypeOK, NoDispatch, Absent
  <2>2. CASE MarkSent(q)
    BY <1>1, <1>2, <2>2, Moved
       DEF MarkSent, Mark, CallOK, DispatchSteps, StageSteps, PCs, Exists, DispatchKinds, Staged, Downstream
  <2>3. CASE MarkFailed(q)
    BY <2>3 DEF MarkFailed, PCs
  <2> QED BY <2>1, <2>2, <2>3
<1>6. UNCHANGED <<intent, run, results, latest, decision, world>>
  BY DEF Insert, MarkSent, MarkFailed, Mark
<1>7. Others(q) /\ CallOK(q)'
  BY <1>1, <1>5, Moved, Finished DEF CallOK, DispatchSteps, StageSteps
<1>8. TypeOK'
  BY <1>1, <1>3, <1>5, <1>6, Moved, Finished DEF TypeOK, world
<1>9. \A x \in Requests \ {q} : CallOK(x)'
  BY <1>4, <1>6, <1>7, OthersKeepCallOK DEF TypeInv, Exists
<1> QED BY <1>7, <1>8, <1>9 DEF TypeInv

LEMMA SendTyped ==
  ASSUME TypeInv, NEW q \in Requests,
         SendAnswered(q) \/ SendReplyLost(q) \/ SendRefused(q) \/ SendGarbled(q)
  PROVE  TypeInv'
<1>1. TypeOK /\ CallOK(q) /\ pc[q] = "send"
  BY DEF TypeInv, SendAnswered, SendReplyLost, SendRefused, SendGarbled
<1>2. call[q].run \in Runs /\ SpecialistOf(call[q].kind) \in Specialists
  BY <1>1, SpecialistOfKind DEF CallOK, DispatchSteps, Calls
<1>3. \A n \in 0..2 : Min2(n + 1) \in 0..2
  BY DEF Min2
<1>4. received' \in [Specialists -> [Runs -> 0..2]]
  <2>1. CASE Accept(q)
    BY <1>1, <1>2, <1>3, <2>1 DEF Accept, TypeOK
  <2>2. CASE UNCHANGED received
    BY <1>1, <2>2 DEF TypeOK
  <2> QED BY <2>1, <2>2 DEF SendAnswered, SendReplyLost, SendRefused, SendGarbled, world
<1>5. UNCHANGED <<rows, gate>>
  BY DEF SendAnswered, SendReplyLost, SendRefused, SendGarbled, world
<1>6. PICK label \in PCs : Goto(q, label) /\ UNCHANGED seen /\ CallOK(q)'
  <2>1. PICK label \in {"mark_sent", "mark_failed", "ValueError"} : Goto(q, label) /\ UNCHANGED seen
    BY DEF SendAnswered, SendReplyLost, SendRefused, SendGarbled
  <2>2. label \in PCs
    BY DEF PCs, Uncaught
  <2> QED BY <1>1, <1>5, <2>1, <2>2, Moved DEF CallOK, DispatchSteps, StageSteps, Exists, rows
<1> QED BY <1>4, <1>5, <1>6, MoveTyped

LEMMA AdvanceTyped ==
  ASSUME TypeInv, NEW q \in Requests, Advance(q)
  PROVE  TypeInv'
<1>1. TypeOK /\ CallOK(q) /\ pc[q] = "advance"
  BY DEF TypeInv, Advance
<1>2. call[q].run \in Runs /\ Exists(call[q].run) /\ SpecialistOf(call[q].kind) \in RunStages
  BY <1>1, SpecialistOfKind DEF CallOK, StageSteps, Calls
<1>3. run' \in [Runs -> RunRow \cup {NoRun}] /\ \A r \in Runs : Exists(r) => Exists(r)'
  BY <1>1, <1>2 DEF Advance, TypeOK, Exists, RunRow, NoRun, Absent, RunStages
<1>4. \/ Finish(q)
      \/ /\ Goto(q, "store") /\ call[q].kind = "dispatch_infrastructure"
         /\ seen' = [seen EXCEPT ![q].result = Report("SUCCESS")]
  BY DEF Advance
<1>5. Others(q) /\ seen' \in [Requests -> Seen] /\ CallOK(q)' /\ pc' \in [Requests -> PCs]
  <2>1. CASE Finish(q)
    BY <1>1, <2>1, Finished DEF CallOK, DispatchSteps, StageSteps
  <2>2. CASE ~ Finish(q)
    <3>1. /\ Others(q) /\ pc'[q] = "store" /\ call'[q] = call[q]
          /\ pc' \in [Requests -> PCs]
      BY <1>1, <1>4, <2>2 DEF Goto, TypeOK, Others, PCs
    <3>2. seen' \in [Requests -> Seen] /\ seen'[q].result \in Results
      <4>1. Report("SUCCESS") \in Results /\ seen \in [Requests -> Seen]
        BY <1>1, ReportTyped DEF TypeOK
      <4>2. seen' = [seen EXCEPT ![q].result = Report("SUCCESS")]
        BY <1>4, <2>2
      <4> QED BY <4>1, <4>2, SeenUpdated
    <3>3. CallOK(q)'
      BY <1>1, <1>4, <2>2, <3>1, <3>2 DEF CallOK, DispatchSteps, StageSteps
    <3> QED BY <3>1, <3>2, <3>3
  <2> QED BY <2>1, <2>2
<1>6. TypeOK'
  BY <1>1, <1>3, <1>4, <1>5, Finished DEF TypeOK, Advance, Goto, world
<1>7. \A x \in Requests \ {q} : CallOK(x)'
  BY <1>3, <1>5, OthersKeepCallOK DEF TypeInv, Advance
<1> QED BY <1>5, <1>6, <1>7 DEF TypeInv

\* A result is stored, and readiness reads and decides.
LEMMA StoreTyped ==
  ASSUME TypeInv, NEW q \in Requests, Store(q)
  PROVE  TypeInv'
<1>1. TypeOK /\ CallOK(q) /\ pc[q] = "store"
  BY DEF TypeInv, Store
<1>2. /\ call[q].run \in Runs /\ SpecialistOf(call[q].kind) \in Specialists
      /\ seen[q].result \in Results
  BY <1>1, SpecialistOfKind DEF CallOK, Calls, DispatchKinds
<1>3. results' \in [Runs -> [Specialists -> SUBSET Results]]
  BY <1>1, <1>2 DEF Store, TypeOK
<1>4. latest' \in [Runs -> Reads]
  BY <1>1, <1>2 DEF Store, TypeOK, Reads, Newest
<1>5. Finish(q) /\ UNCHANGED <<intent, run, dispatch, decision, world>>
  BY DEF Store
<1>6. Others(q) /\ CallOK(q)'
  BY <1>1, <1>5, Finished DEF CallOK, DispatchSteps, StageSteps
<1>7. TypeOK'
  BY <1>1, <1>3, <1>4, <1>5, Finished DEF TypeOK, world
<1>8. \A x \in Requests \ {q} : CallOK(x)'
  BY <1>5, <1>6, OthersKeepCallOK DEF TypeInv, Exists
<1> QED BY <1>6, <1>7, <1>8 DEF TypeInv

LEMMA ReadResultsTyped ==
  ASSUME TypeInv, NEW q \in Requests, ReadResults(q)
  PROVE  TypeInv'
<1>1. PICK s \in Specialists :
        \E next \in {"read_infrastructure", "read_qa", "read_pm", "decide"} :
          /\ pc[q] \in {"read_engineering", "read_infrastructure", "read_qa", "read_pm"}
          /\ seen' = [seen EXCEPT ![q].reads[s] = latest[call[q].run][s]]
          /\ Goto(q, next)
          /\ UNCHANGED <<rows, world>>
  BY DEF ReadResults, ReadLatest, Specialists
<1>2. TypeOK /\ CallOK(q)
  BY DEF TypeInv
<1>3. call[q].run \in Runs /\ Exists(call[q].run)
  BY <1>1, <1>2 DEF CallOK, Calls
<1>4. latest[call[q].run][s] \in Results \cup {NoResult}
  BY <1>2, <1>3 DEF TypeOK, Reads
<1>5. seen' \in [Requests -> Seen]
  BY <1>1, <1>2, <1>4, SeenUpdated DEF TypeOK
<1>6. /\ pc'[q] \in {"read_infrastructure", "read_qa", "read_pm", "decide"}
      /\ call'[q] = call[q] /\ pc' \in [Requests -> PCs] /\ UNCHANGED call
  BY <1>1, <1>2 DEF Goto, TypeOK, PCs
<1>7. Others(q)
  BY <1>1, <1>2 DEF Goto, TypeOK, Others
<1>8. CallOK(q)'
  BY <1>1, <1>2, <1>3, <1>6 DEF CallOK, DispatchSteps, StageSteps, Exists, rows
<1>9. TypeOK'
  BY <1>1, <1>2, <1>5, <1>6 DEF TypeOK, rows, world
<1>10. \A x \in Requests \ {q} : CallOK(x)'
  BY <1>1, <1>7, OthersKeepCallOK DEF TypeInv, Exists, rows
<1> QED BY <1>8, <1>9, <1>10 DEF TypeInv

LEMMA DecideTyped ==
  ASSUME TypeInv, NEW q \in Requests, Decide(q)
  PROVE  TypeInv'
<1> DEFINE r  == call[q].run
           in == InputsOf(run[r].assigned, seen[q].reads)
           d  == EvaluateReadiness(in)
<1>1. TypeOK /\ CallOK(q) /\ pc[q] = "decide"
  BY DEF TypeInv, Decide
<1>2. r \in Runs /\ run[r] \in RunRow
  BY <1>1 DEF CallOK, Calls, TypeOK, Exists
<1>3. ReasonCode(in) \in ReasonCodes /\ d \in RunStatuses
  BY ReasonTyped DEF RunStatuses
<1>4. Resolved(run[r], seen[q], d) \in RunRow
  BY <1>2, <1>3 DEF Resolved, RunRow, RunStages
<1>5. run' = [run EXCEPT ![r] = Resolved(@, seen[q], d)]
  BY DEF Decide
<1>6. run' \in [Runs -> RunRow \cup {NoRun}] /\ \A x \in Runs : Exists(x) => Exists(x)'
  <2>1. NoRun \notin RunRow
    BY DEF NoRun, RunRow, RunStages, Absent
  <2> HIDE DEF d
  <2> QED BY <1>1, <1>2, <1>4, <1>5, <2>1 DEF TypeOK, Exists
<1>7. decision' \in [Runs -> ReasonCodes \cup {Absent}]
  BY <1>1, <1>3 DEF Decide, TypeOK
<1>8. intent' \in [Intents -> IntentStates \cup {Absent}]
  BY <1>1 DEF Decide, TypeOK, IntentStates
<1>9. Finish(q) /\ UNCHANGED <<dispatch, results, latest, world>>
  BY DEF Decide
<1>10. Others(q) /\ CallOK(q)'
  BY <1>1, <1>9, Finished DEF CallOK, DispatchSteps, StageSteps
<1>11. TypeOK'
  BY <1>1, <1>6, <1>7, <1>8, <1>9, Finished DEF TypeOK, world
<1>12. \A x \in Requests \ {q} : CallOK(x)'
  BY <1>6, <1>9, <1>10, OthersKeepCallOK DEF TypeInv
<1> QED BY <1>10, <1>11, <1>12 DEF TypeInv

LEMMA SurroundingsTyped ==
  ASSUME TypeInv, \/ \E i \in Intents : CreateIntent(i)
                  \/ \E r \in Runs : QaProgress(r)
                  \/ Crash
                  \/ UNCHANGED vars
  PROVE  TypeInv'
<1>1. TypeOK /\ \A q \in Requests : CallOK(q)
  BY DEF TypeInv
<1>2. ASSUME NEW i \in Intents, CreateIntent(i) PROVE TypeInv'
  BY <1>1, <1>2 DEF CreateIntent, TypeInv, TypeOK, CallOK, Exists, threads, world, IntentStates
<1>3. ASSUME NEW r \in Runs, QaProgress(r) PROVE TypeInv'
  BY <1>1, <1>3, GatesAssumption DEF QaProgress, TypeInv, TypeOK, CallOK, Exists, threads, rows
<1>4. CASE Crash
  <2>1. Nothing \in Seen
    BY DEF Nothing, Seen, Reads, NoReads
  <2> QED BY <1>1, <1>4, <2>1 DEF Crash, TypeInv, TypeOK, CallOK, rows, world, PCs, DispatchSteps, StageSteps
<1>5. CASE UNCHANGED vars
  BY <1>1, <1>5 DEF vars, threads, rows, world, TypeInv, TypeOK, CallOK, Exists
<1> QED BY <1>2, <1>3, <1>4, <1>5

LEMMA TypeInvNext == TypeInv /\ [Next]_vars => TypeInv'
<1>1. ASSUME TypeInv, NEW q \in Requests, ServeRequest(q) PROVE TypeInv'
  BY <1>1, CreateRunTyped, ReadTyped, DispatchRowTyped, SendTyped, AdvanceTyped, StoreTyped,
     ReadResultsTyped, DecideTyped DEF ServeRequest
<1> QED BY <1>1, BeginRequestTyped, SurroundingsTyped DEF Next

\* Every row, answer and request keeps its type, for every value of the constants.
THEOREM TypeCorrect == Spec => []TypeOK
<1>1. Init => TypeInv
  BY InitTypeInv
<1>2. TypeInv /\ [Next]_vars => TypeInv'
  BY TypeInvNext
<1>3. TypeInv => TypeOK
  BY DEF TypeInv
<1> QED BY <1>1, <1>2, <1>3, PTL DEF Spec

-----------------------------------------------------------------------------
(* Downstream dispatches settle once *)

Settling == {"send", "mark_sent", "mark_failed"}

\* A dispatch step holds the key of its own run and specialist, or a caller's key;
\* downstream dispatches hold their default key and a fresh payload.
KeyOK(q) ==
  pc[q] \in DispatchSteps \cup StageSteps =>
    /\ \A s \in Specialists, r \in Runs :
         call[q].key = DefaultKey(s, r) => SpecialistOf(call[q].kind) = s /\ call[q].run = r
    /\ call[q].kind \in Downstream =>
         /\ call[q].key = DefaultKey(SpecialistOf(call[q].kind), call[q].run)
         /\ call[q].payload = Fresh

\* What a downstream request knows of its dispatch row.
DispatchOK(q) ==
  call[q].kind \in Downstream =>
    /\ pc[q] \in Settling => Status(SpecialistOf(call[q].kind), call[q].run) = "PENDING"
    /\ pc[q] \in StageSteps \cup {"store"} =>
         Status(SpecialistOf(call[q].kind), call[q].run) = "SENT"
    /\ call[q].kind = "dispatch_infrastructure" => pc[q] \notin {"send", "mark_failed"}

\* At most one request is about to settle a downstream row.
OneSettles ==
  \A p, q \in Requests :
    /\ pc[p] \in Settling /\ pc[q] \in Settling
    /\ call[p].kind \in Downstream /\ call[p].kind = call[q].kind
    /\ call[p].run = call[q].run
    => p = q

DispatchInv ==
  /\ TypeInv
  /\ \A q \in Requests : KeyOK(q) /\ DispatchOK(q)
  /\ OneSettles
  /\ StageHasDispatch

\* The steps of a dispatch come one after the other: none is entered from a step
\* outside it, except when it begins.
LEMMA ServeMoves ==
  ASSUME TypeInv, NEW q \in Requests, ServeRequest(q)
  PROVE  /\ Others(q)
         /\ \/ pc'[q] = "idle" /\ call'[q] = NoCall
            \/ /\ call'[q] = call[q]
               /\ pc'[q] \in DispatchSteps => pc[q] \in DispatchSteps
               /\ pc'[q] \in StageSteps => pc[q] \in {"mark_sent", "read_stage"}
               /\ pc'[q] = "store" => pc[q] = "advance"
<1>1. TypeOK
  BY DEF TypeInv
<1>2. CASE PlanIntent(q)
  BY <1>1, <1>2, Moved, Finished DEF PlanIntent, DispatchSteps, StageSteps
<1>3. CASE RefreshIntent(q)
  <2>1. CASE Finish(q)
    BY <1>1, <2>1, Finished
  <2>2. CASE ~ Finish(q)
    BY <1>1, <1>3, <2>2 DEF RefreshIntent, Goto, Others, TypeOK, DispatchSteps, StageSteps
  <2> QED BY <2>1, <2>2
<1>4. CASE AssertEngineering(q) \/ AssertInfrastructure(q) \/ PickEngineering(q)
  BY <1>1, <1>4, Moved, Finished
     DEF AssertEngineering, AssertInfrastructure, PickEngineering, DispatchSteps, StageSteps
<1>5. CASE Lookup(q) \/ Insert(q)
  BY <1>1, <1>5, Moved, Finished DEF Lookup, Insert, AfterInsert, DispatchSteps, StageSteps
<1>6. CASE SendAnswered(q) \/ SendReplyLost(q) \/ SendRefused(q) \/ SendGarbled(q)
  BY <1>1, <1>6, Moved DEF SendAnswered, SendReplyLost, SendRefused, SendGarbled, DispatchSteps, StageSteps
<1>7. CASE MarkSent(q) \/ MarkFailed(q)
  BY <1>1, <1>7, Moved, Finished DEF MarkSent, MarkFailed, DispatchSteps, StageSteps
<1>8. CASE ReadStage(q)
  BY <1>1, <1>8, Moved DEF ReadStage, DispatchSteps, StageSteps
<1>9. CASE Advance(q)
  <2>1. CASE Finish(q)
    BY <1>1, <2>1, Finished
  <2>2. CASE ~ Finish(q)
    BY <1>1, <1>9, <2>2 DEF Advance, Goto, Others, TypeOK, DispatchSteps, StageSteps
  <2> QED BY <2>1, <2>2
<1>10. CASE AnswerError(q) \/ Store(q) \/ Decide(q)
  BY <1>1, <1>10, Finished DEF AnswerError, Store, Decide
<1>11. CASE ReadResults(q)
  BY <1>1, <1>11 DEF ReadResults, ReadLatest, Goto, Others, TypeOK, DispatchSteps, StageSteps
<1> QED BY <1>2, <1>3, <1>4, <1>5, <1>6, <1>7, <1>8, <1>9, <1>10, <1>11 DEF ServeRequest

LEMMA KeysApart ==
  /\ \A s, t \in Specialists, r, x \in Runs : DefaultKey(s, r) = DefaultKey(t, x) => s = t /\ r = x
  /\ \A s \in Specialists, r \in Runs : DefaultKey(s, r) \notin CallerKeys
BY CallerKeysAssumption DEF DefaultKey

LEMMA BeginMoves ==
  ASSUME TypeInv, NEW q \in Requests, BeginRequest(q)
  PROVE  /\ Others(q) /\ UNCHANGED <<rows, world>>
         /\ pc[q] = "idle" /\ pc'[q] \notin Settling \cup StageSteps
         /\ KeyOK(q)'
         /\ pc'[q] = "store" => call'[q].kind \notin Downstream
<1>1. PICK label \in PCs, c \in Calls, s \in Seen : Begin(q, label, c, s) /\ Fits(label, c, s)
  BY BeginRequestFits
<1>2. /\ Others(q) /\ UNCHANGED <<rows, world>>
      /\ pc[q] = "idle" /\ pc'[q] = label /\ call'[q] = c
  BY <1>1, Begun DEF TypeInv
<1>3. KeyOK(q)'
  <2>1. c.run \in Runs /\ (c.kind \in DispatchKinds => SpecialistOf(c.kind) \in Specialists)
    BY SpecialistOfKind DEF Calls
  <2>2. SUFFICES ASSUME label \in DispatchSteps \cup StageSteps
                 PROVE  KeyOK(q)'
    BY <1>2 DEF KeyOK
  <2>3. /\ c.kind \in DispatchKinds
        /\ \/ c.key = DefaultKey(SpecialistOf(c.kind), c.run)
           \/ c.key \in CallerKeys /\ c.kind \notin Downstream
        /\ c.kind \in Downstream => c.payload = Fresh
    BY <1>1, <2>2 DEF Fits, DispatchSteps, StageSteps, Downstream
  <2> QED BY <1>2, <2>1, <2>3, KeysApart DEF KeyOK
<1> QED BY <1>1, <1>2, <1>3 DEF Fits, Settling, StageSteps, ResultKinds, Downstream

LEMMA InitDispatchInv == Init => DispatchInv
<1> SUFFICES ASSUME Init PROVE DispatchInv
  OBVIOUS
<1>1. TypeInv
  BY InitTypeInv
<1>2. \A q \in Requests : pc[q] = "idle" /\ call[q] = NoCall
  BY DEF Init
<1>3. \A r \in Runs : run[r].stage = Absent
  BY DEF Init, NoRun
<1> QED BY <1>1, <1>2, <1>3
     DEF DispatchInv, KeyOK, DispatchOK, OneSettles, StageHasDispatch, Settling, DispatchSteps,
         StageSteps, Absent, NoCall, Downstream

\* The key a request holds after its step.
LEMMA KeyKept ==
  ASSUME DispatchInv, NEW q \in Requests, ServeRequest(q)
  PROVE  KeyOK(q)'
BY ServeMoves DEF DispatchInv, KeyOK, DispatchSteps, StageSteps

\* A step that writes no dispatch row keeps the invariant when q does not start to
\* settle a downstream row.
LEMMA QuietStep ==
  ASSUME DispatchInv, TypeInv', NEW q \in Requests, Others(q), UNCHANGED dispatch,
         KeyOK(q)', DispatchOK(q)', StageHasDispatch',
         pc'[q] \in Settling /\ call'[q].kind \in Downstream =>
           pc[q] \in Settling /\ call'[q] = call[q]
  PROVE  DispatchInv'
<1>1. \A p \in Requests \ {q} : KeyOK(p)' /\ DispatchOK(p)'
  BY DEF DispatchInv, KeyOK, DispatchOK, Others, Status
<1>2. OneSettles'
  BY DEF DispatchInv, OneSettles, Others
<1> QED BY <1>1, <1>2 DEF DispatchInv

LEMMA BeginKeepsDispatchInv ==
  ASSUME DispatchInv, NEW q \in Requests, BeginRequest(q)
  PROVE  DispatchInv'
<1>1. TypeInv /\ TypeInv'
  BY BeginRequestTyped DEF DispatchInv
<1>2. /\ Others(q) /\ UNCHANGED <<rows, world>>
      /\ pc'[q] \notin Settling \cup StageSteps /\ KeyOK(q)'
      /\ pc'[q] = "store" => call'[q].kind \notin Downstream
  BY <1>1, BeginMoves
<1>3. DispatchOK(q)'
  BY <1>2 DEF DispatchOK, Settling
<1>4. StageHasDispatch'
  BY <1>2 DEF DispatchInv, StageHasDispatch, Status, rows
<1> QED BY <1>1, <1>2, <1>3, <1>4, QuietStep DEF rows

\* The steps that write neither a dispatch row nor a run.
LEMMA ReadersKeepDispatchInv ==
  ASSUME DispatchInv, NEW q \in Requests, TypeInv',
         \/ RefreshIntent(q) \/ AssertEngineering(q) \/ AssertInfrastructure(q)
         \/ PickEngineering(q) \/ Lookup(q) \/ ReadStage(q) \/ AnswerError(q)
         \/ Store(q) \/ ReadResults(q)
         \/ SendAnswered(q) \/ SendReplyLost(q) \/ SendRefused(q) \/ SendGarbled(q)
  PROVE  DispatchInv'
<1>1. TypeInv /\ CallOK(q) /\ KeyOK(q) /\ DispatchOK(q)
  BY DEF DispatchInv, TypeInv
<1>2. Others(q) /\ KeyOK(q)'
  BY <1>1, ServeMoves, KeyKept DEF ServeRequest
<1>3. UNCHANGED <<dispatch, run>>
  BY DEF RefreshIntent, AssertEngineering, AssertInfrastructure, PickEngineering, Lookup, ReadStage,
         AnswerError, Store, ReadResults, ReadLatest, SendAnswered, SendReplyLost, SendRefused,
         SendGarbled, rows
<1>4. StageHasDispatch'
  BY <1>3 DEF DispatchInv, StageHasDispatch, Status
<1>5. /\ DispatchOK(q)'
      /\ pc'[q] \in Settling /\ call'[q].kind \in Downstream =>
           pc[q] \in Settling /\ call'[q] = call[q]
  <2>1. CASE pc'[q] = "idle" /\ call'[q] = NoCall
    BY <2>1 DEF DispatchOK, Settling, NoCall, Downstream
  <2>2. CASE pc'[q] # "idle" /\ call'[q] = call[q]
    <3>1. CASE Lookup(q)
      <4>1. call[q].kind \in Downstream => pc'[q] \notin Settling \cup StageSteps \cup {"store"}
        BY <1>1, <2>2, <3>1, Moved, Finished
           DEF Lookup, KeyOK, SamePayload, TypeInv, DispatchSteps, StageSteps, Settling
      <4> QED BY <2>2, <4>1 DEF DispatchOK, Settling
    <3>2. CASE ReadStage(q)
      BY <1>1, <1>3, <2>2, <3>2, Moved DEF ReadStage, DispatchOK, TypeInv, StageSteps, Settling, Status
    <3>3. CASE SendAnswered(q) \/ SendReplyLost(q) \/ SendRefused(q) \/ SendGarbled(q)
      BY <1>1, <1>3, <2>2, <3>3, Moved
         DEF SendAnswered, SendReplyLost, SendRefused, SendGarbled, DispatchOK, TypeInv, StageSteps,
             Settling, Status
    <3>4. CASE \/ RefreshIntent(q) \/ AssertEngineering(q) \/ AssertInfrastructure(q)
               \/ PickEngineering(q) \/ AnswerError(q) \/ Store(q) \/ ReadResults(q)
      <4>1. pc'[q] \notin Settling \cup StageSteps \cup {"store"}
        BY <1>1, <2>2, <3>4, Moved, Finished
           DEF RefreshIntent, AssertEngineering, AssertInfrastructure, PickEngineering, AnswerError, Store,
               ReadResults, ReadLatest, Goto, TypeInv, TypeOK, StageSteps, Settling
      <4> QED BY <4>1 DEF DispatchOK, Settling
    <3> QED BY <3>1, <3>2, <3>3, <3>4
  <2>3. \/ pc'[q] = "idle" /\ call'[q] = NoCall
        \/ call'[q] = call[q]
    BY <1>1, ServeMoves DEF ServeRequest
  <2>4. pc'[q] = "idle" => call'[q] = NoCall
    BY DEF TypeInv, CallOK
  <2> QED BY <2>1, <2>2, <2>3, <2>4
<1> QED BY <1>2, <1>3, <1>4, <1>5, QuietStep

\* The steps that write a run.
LEMMA RunWritersKeepDispatchInv ==
  ASSUME DispatchInv, NEW q \in Requests, TypeInv', PlanIntent(q) \/ Advance(q) \/ Decide(q)
  PROVE  DispatchInv'
<1>1. TypeInv /\ TypeOK /\ CallOK(q) /\ KeyOK(q) /\ DispatchOK(q) /\ StageHasDispatch
  BY DEF DispatchInv, TypeInv
<1>2. Others(q) /\ KeyOK(q)' /\ UNCHANGED dispatch
  BY <1>1, ServeMoves, KeyKept DEF ServeRequest, PlanIntent, Advance, Decide
<1>3. CASE PlanIntent(q)
  <2>1. StageHasDispatch'
    BY <1>1, <1>2, <1>3 DEF PlanIntent, StageHasDispatch, Status, TypeOK
  <2>2. pc'[q] \in {"idle", "refresh_intent"}
    BY <1>1, <1>3, Moved, Finished DEF PlanIntent
  <2> QED BY <1>2, <2>1, <2>2, QuietStep DEF DispatchOK, Settling, StageSteps
<1>4. CASE Advance(q)
  <2>1. call[q].run \in Runs /\ call[q].kind \in Staged
    BY <1>1, <1>4 DEF CallOK, Advance, Calls, StageSteps
  <2>2. call[q].kind \in Downstream => Status(SpecialistOf(call[q].kind), call[q].run) = "SENT"
    BY <1>1, <1>4 DEF DispatchOK, Advance, StageSteps
  <2>3. SpecialistOf("dispatch_engineering") = "ENGINEERING"
    BY DEF SpecialistOf
  <2>4. StageHasDispatch'
    <3>1. ASSUME NEW r \in Runs, r # call[q].run
          PROVE  \A s \in {"INFRASTRUCTURE", "QA"} : run'[r].stage = s => Status(s, r)' = "SENT"
      BY <1>1, <1>2, <1>4, <2>1, <3>1 DEF Advance, StageHasDispatch, Status, TypeOK
    <3>2. run'[call[q].run].stage = SpecialistOf(call[q].kind)
      BY <1>1, <1>4, <2>1 DEF Advance, TypeOK, CallOK, Exists, RunRow, StageSteps
    <3>3. \A s \in {"INFRASTRUCTURE", "QA"} :
            run'[call[q].run].stage = s => dispatch'[DefaultKey(s, call[q].run)].status = "SENT"
      <4>1. CASE call[q].kind \in Downstream
        BY <1>2, <2>2, <3>2, <4>1 DEF Status
      <4>2. CASE call[q].kind = "dispatch_engineering"
        BY <2>3, <3>2, <4>2
      <4> QED BY <2>1, <4>1, <4>2 DEF Staged
    <3> QED BY <3>1, <3>3 DEF StageHasDispatch, Status
  <2>5. \/ pc'[q] = "idle" /\ call'[q] = NoCall
        \/ pc'[q] = "store" /\ call'[q] = call[q]
    BY <1>1, <1>4, Finished DEF Advance, Goto, TypeOK
  <2>6. DispatchOK(q)'
    BY <1>2, <2>2, <2>5 DEF DispatchOK, Status, Settling, NoCall, Downstream
  <2> QED BY <1>2, <2>4, <2>5, <2>6, QuietStep DEF Settling
<1>5. CASE Decide(q)
  <2>1. call[q].run \in Runs
    BY <1>1, <1>5 DEF CallOK, Decide, Calls
  <2>2. \A r \in Runs : run'[r].stage \in {run[r].stage, "COMPLETE"}
    <3>1. \A row \in RunRow : \A loaded, d :
            Resolved(row, loaded, d).stage \in {row.stage, "COMPLETE"}
      BY DEF Resolved, RunRow
    <3>2. run[call[q].run] \in RunRow
      BY <1>1, <1>5, <2>1 DEF TypeOK, CallOK, Decide, Exists
    <3>3. PICK d : run' = [run EXCEPT ![call[q].run] = Resolved(@, seen[q], d)]
      BY <1>5 DEF Decide
    <3> QED BY <1>1, <2>1, <3>1, <3>2, <3>3 DEF TypeOK
  <2>3. StageHasDispatch'
    BY <1>1, <1>2, <2>2 DEF StageHasDispatch, Status
  <2>4. pc'[q] = "idle" /\ call'[q] = NoCall
    BY <1>1, <1>5, Finished DEF Decide
  <2> QED BY <1>2, <2>3, <2>4, QuietStep DEF DispatchOK, Settling, StageSteps
<1> QED BY <1>3, <1>4, <1>5

\* An insert leaves every row that exists as it is.
LEMMA InsertedRow ==
  ASSUME TypeOK, NEW q \in Requests, Insert(q), call[q].key \in Keys,
         NEW s \in Specialists, NEW r \in Runs, Status(s, r) # Absent
  PROVE  dispatch'[DefaultKey(s, r)] = dispatch[DefaultKey(s, r)]
<1>1. DefaultKey(s, r) \in Keys
  BY DEF DefaultKey, Keys
<1>2. CASE KeyFree(call[q].key)
  <2>1. DefaultKey(s, r) # call[q].key
    BY <1>2 DEF KeyFree, Status, NoDispatch
  <2> QED BY <1>1, <1>2, <2>1 DEF Insert, TypeOK
<1>3. CASE ~ KeyFree(call[q].key)
  BY <1>3 DEF Insert
<1> QED BY <1>2, <1>3

\* A mark writes the row of its own dispatch; a downstream row was PENDING.
LEMMA MarkedRow ==
  ASSUME DispatchInv, NEW q \in Requests, MarkSent(q) \/ MarkFailed(q)
  PROVE  /\ \A s \in Specialists, r \in Runs :
              ~ (SpecialistOf(call[q].kind) = s /\ call[q].run = r) =>
                dispatch'[DefaultKey(s, r)] = dispatch[DefaultKey(s, r)]
         /\ call[q].kind \in Downstream =>
              LET k == DefaultKey(SpecialistOf(call[q].kind), call[q].run) IN
              /\ dispatch[k].status = "PENDING"
              /\ dispatch'[k].status = IF MarkSent(q) THEN "SENT" ELSE "FAILED"
<1>1. /\ TypeOK /\ CallOK(q) /\ KeyOK(q) /\ DispatchOK(q) /\ pc[q] \in Settling \ {"send"}
      /\ call[q].key \in Keys /\ call[q].run \in Runs
  BY DEF DispatchInv, TypeInv, MarkSent, MarkFailed, CallOK, DispatchSteps, Calls, Settling
<1>2. ASSUME NEW s \in Specialists, NEW r \in Runs,
             ~ (SpecialistOf(call[q].kind) = s /\ call[q].run = r)
      PROVE  dispatch'[DefaultKey(s, r)] = dispatch[DefaultKey(s, r)]
  <2>1. DefaultKey(s, r) \in Keys
    BY DEF DefaultKey, Keys
  <2>2. DefaultKey(s, r) # call[q].key
    BY <1>1, <1>2 DEF KeyOK, DispatchSteps, Settling
  <2> QED BY <1>1, <2>1, <2>2 DEF MarkSent, MarkFailed, Mark, TypeOK
<1>3. ASSUME call[q].kind \in Downstream
      PROVE  LET k == DefaultKey(SpecialistOf(call[q].kind), call[q].run) IN
             /\ dispatch[k].status = "PENDING"
             /\ dispatch'[k].status = IF MarkSent(q) THEN "SENT" ELSE "FAILED"
  <2>1. call[q].key = DefaultKey(SpecialistOf(call[q].kind), call[q].run)
    BY <1>1, <1>3 DEF KeyOK, DispatchSteps, Settling
  <2>2. dispatch[call[q].key] \in DispatchRow /\ dispatch[call[q].key].status = "PENDING"
    BY <1>1, <1>3, <2>1 DEF CallOK, TypeOK, DispatchOK, Status, Settling
  <2>3. dispatch'[call[q].key].status = IF MarkSent(q) THEN "SENT" ELSE "FAILED"
    BY <1>1, <2>2 DEF MarkSent, MarkFailed, Mark, TypeOK, DispatchRow
  <2> QED BY <2>1, <2>2, <2>3
<1> QED BY <1>2, <1>3

\* The insert: the row appears PENDING, and only q knows of it.
LEMMA InsertKeepsDispatchInv ==
  ASSUME DispatchInv, NEW q \in Requests, TypeInv', Insert(q)
  PROVE  DispatchInv'
<1> DEFINE c == call[q]
<1>1. /\ TypeInv /\ TypeOK /\ CallOK(q) /\ KeyOK(q) /\ pc[q] = "insert"
      /\ c.key \in Keys /\ c.run \in Runs /\ c.kind \in DispatchKinds
      /\ SpecialistOf(c.kind) \in Specialists
  BY SpecialistOfKind DEF DispatchInv, TypeInv, Insert, CallOK, DispatchSteps, Calls
<1>2. Others(q) /\ KeyOK(q)' /\ UNCHANGED run
  BY <1>1, ServeMoves, KeyKept DEF ServeRequest, Insert
<1>3. CASE ~ KeyFree(c.key)
  <2>1. UNCHANGED dispatch /\ pc'[q] = "IntegrityError"
    BY <1>1, <1>3, Moved DEF Insert
  <2>2. StageHasDispatch'
    BY <1>2, <2>1 DEF DispatchInv, StageHasDispatch, Status
  <2> QED BY <1>2, <2>1, <2>2, QuietStep DEF DispatchOK, Settling, StageSteps
<1>4. CASE KeyFree(c.key)
  <2>1. /\ dispatch[c.key] = NoDispatch
        /\ dispatch' = [dispatch EXCEPT ![c.key] =
               [status |-> "PENDING", run |-> c.run, payload |-> c.payload]]
        /\ pc'[q] = AfterInsert(c.kind) /\ call'[q] = c
    BY <1>1, <1>4, Moved DEF Insert, KeyFree
  <2>2. ASSUME NEW s \in Specialists, NEW r \in Runs, Status(s, r) # Absent
        PROVE  Status(s, r)' = Status(s, r)
    BY <1>1, <2>2, InsertedRow DEF Status
  <2>3. /\ c.kind \in Downstream => Status(SpecialistOf(c.kind), c.run) = Absent
        /\ c.kind \in Downstream => Status(SpecialistOf(c.kind), c.run)' = "PENDING"
    BY <1>1, <2>1 DEF KeyOK, DispatchSteps, Status, NoDispatch, TypeOK
  <2>4. DispatchOK(q)'
    BY <2>1, <2>3 DEF DispatchOK, AfterInsert, Settling, StageSteps, Status
  <2>5. ASSUME NEW p \in Requests \ {q}
        PROVE  KeyOK(p)' /\ DispatchOK(p)'
    <3>1. KeyOK(p) /\ DispatchOK(p) /\ (pc[p] # "idle" => call[p] \in Calls) /\ (pc[p] = "idle" => call[p] = NoCall)
      BY DEF DispatchInv, TypeInv, CallOK
    <3>2. call[p].kind \in Downstream => SpecialistOf(call[p].kind) \in Specialists /\ call[p].run \in Runs
      BY <3>1, SpecialistOfKind DEF Calls, Downstream, DispatchKinds, NoCall
    <3>3. DispatchOK(p)'
      BY <1>2, <2>2, <3>1, <3>2 DEF DispatchOK, Others, Absent, Status
    <3> QED BY <1>2, <3>1, <3>3 DEF KeyOK, Others
  <2>6. OneSettles'
    <3>1. \A p \in Requests : pc[p] \in Settling /\ call[p].kind \in Downstream =>
            Status(SpecialistOf(call[p].kind), call[p].run) = "PENDING"
      BY DEF DispatchInv, DispatchOK
    <3> QED BY <1>2, <2>1, <2>3, <3>1 DEF DispatchInv, OneSettles, Others, Absent
  <2>7. StageHasDispatch'
    BY <1>2, <2>2 DEF DispatchInv, StageHasDispatch, Specialists, Absent
  <2> QED BY <1>2, <2>4, <2>5, <2>6, <2>7 DEF DispatchInv
<1> QED BY <1>3, <1>4

\* The marks: a downstream row leaves PENDING by the one request that settles it.
LEMMA MarksKeepDispatchInv ==
  ASSUME DispatchInv, NEW q \in Requests, TypeInv', MarkSent(q) \/ MarkFailed(q)
  PROVE  DispatchInv'
<1> DEFINE c == call[q]
<1>1. /\ TypeInv /\ TypeOK /\ CallOK(q) /\ KeyOK(q) /\ DispatchOK(q) /\ pc[q] \in Settling \ {"send"}
      /\ c.key \in Keys /\ c.run \in Runs /\ c.kind \in DispatchKinds
      /\ SpecialistOf(c.kind) \in Specialists
  BY SpecialistOfKind DEF DispatchInv, TypeInv, MarkSent, MarkFailed, CallOK, DispatchSteps, Calls, Settling
<1>2. Others(q) /\ KeyOK(q)' /\ UNCHANGED run
  BY <1>1, ServeMoves, KeyKept DEF ServeRequest, MarkSent, MarkFailed, Mark
<1>3. ASSUME NEW s \in {"INFRASTRUCTURE", "QA"}, NEW r \in Runs,
             ~ (c.kind \in Downstream /\ SpecialistOf(c.kind) = s /\ c.run = r)
      PROVE  Status(s, r)' = Status(s, r)
  <2>1. SpecialistOf(c.kind) = s => c.kind \in Downstream
    BY <1>1 DEF SpecialistOf, DispatchKinds, Downstream
  <2> QED BY <1>3, <2>1, MarkedRow DEF Status, Specialists
<1>4. c.kind \in Downstream =>
        /\ Status(SpecialistOf(c.kind), c.run) = "PENDING"
        /\ dispatch'[DefaultKey(SpecialistOf(c.kind), c.run)].status = IF MarkSent(q) THEN "SENT" ELSE "FAILED"
        /\ c.kind = "dispatch_infrastructure" => MarkSent(q)
  BY <1>1, MarkedRow DEF Status, DispatchOK, MarkFailed, Downstream
<1>5. DispatchOK(q)'
  <2>1. \/ pc'[q] = "idle" /\ call'[q] = NoCall
        \/ pc'[q] = "read_stage" /\ call'[q] = c /\ MarkSent(q)
    BY <1>1, Moved, Finished DEF MarkSent, MarkFailed
  <2> QED BY <1>4, <2>1 DEF DispatchOK, Settling, StageSteps, NoCall, Downstream, Status
<1>6. ASSUME NEW p \in Requests \ {q}
      PROVE  KeyOK(p)' /\ DispatchOK(p)'
  <2>1. KeyOK(p) /\ DispatchOK(p) /\ (pc[p] # "idle" => call[p] \in Calls) /\ (pc[p] = "idle" => call[p] = NoCall)
    BY DEF DispatchInv, TypeInv, CallOK
  <2>2. call[p].kind \in Downstream =>
          SpecialistOf(call[p].kind) \in {"INFRASTRUCTURE", "QA"} /\ call[p].run \in Runs
    BY <2>1 DEF Calls, Downstream, SpecialistOf, NoCall
  <2>3. /\ c.kind \in Downstream /\ call[p].kind \in Downstream
        /\ SpecialistOf(c.kind) = SpecialistOf(call[p].kind) /\ c.run = call[p].run
        => pc[p] \notin Settling \cup StageSteps \cup {"store"}
    <3>1. SpecialistOf("dispatch_infrastructure") # SpecialistOf("dispatch_qa")
      BY DEF SpecialistOf
    <3> QED BY <1>1, <1>4, <2>1, <3>1 DEF DispatchInv, OneSettles, DispatchOK, Downstream
  <2>4. DispatchOK(p)'
    BY <1>2, <1>3, <2>1, <2>2, <2>3 DEF DispatchOK, Others, Status
  <2> QED BY <1>2, <2>1, <2>4 DEF KeyOK, Others
<1>7. OneSettles'
  <2>1. pc'[q] \notin Settling
    BY <1>1, Moved, Finished DEF MarkSent, MarkFailed, Settling
  <2> QED BY <1>2, <2>1 DEF DispatchInv, OneSettles, Others
<1>8. StageHasDispatch'
  <2>1. ASSUME NEW r \in Runs, NEW s \in {"INFRASTRUCTURE", "QA"}, Status(s, r) = "SENT"
        PROVE  Status(s, r)' = "SENT"
    BY <1>3, <1>4, <2>1
  <2> QED BY <1>2, <2>1 DEF DispatchInv, StageHasDispatch
<1> QED BY <1>2, <1>5, <1>6, <1>7, <1>8 DEF DispatchInv

LEMMA SurroundingsKeepDispatchInv ==
  ASSUME DispatchInv, TypeInv', \/ \E i \in Intents : CreateIntent(i)
                                \/ \E r \in Runs : QaProgress(r)
                                \/ Crash
                                \/ UNCHANGED vars
  PROVE  DispatchInv'
<1>1. UNCHANGED <<dispatch, run>>
  BY DEF CreateIntent, QaProgress, Crash, vars, rows
<1>2. StageHasDispatch'
  BY <1>1 DEF DispatchInv, StageHasDispatch, Status
<1>3. CASE UNCHANGED threads
  BY <1>1, <1>2, <1>3 DEF DispatchInv, KeyOK, DispatchOK, OneSettles, Status, threads
<1>4. CASE Crash
  BY <1>2, <1>4 DEF Crash, DispatchInv, KeyOK, DispatchOK, OneSettles, Settling, DispatchSteps, StageSteps
<1> QED BY <1>3, <1>4 DEF CreateIntent, QaProgress, vars

LEMMA DispatchInvNext == DispatchInv /\ [Next]_vars => DispatchInv'
<1> SUFFICES ASSUME DispatchInv, [Next]_vars PROVE DispatchInv'
  OBVIOUS
<1>1. TypeInv'
  BY TypeInvNext DEF DispatchInv
<1>2. ASSUME NEW q \in Requests, ServeRequest(q) PROVE DispatchInv'
  BY <1>1, <1>2, ReadersKeepDispatchInv, RunWritersKeepDispatchInv, InsertKeepsDispatchInv,
     MarksKeepDispatchInv DEF ServeRequest
<1> QED BY <1>1, <1>2, BeginKeepsDispatchInv, SurroundingsKeepDispatchInv DEF Next

\* A settled downstream row is written by nobody.
LEMMA SettledStays ==
  ASSUME DispatchInv, [Next]_vars, NEW r \in Runs, NEW s \in {"INFRASTRUCTURE", "QA"},
         Status(s, r) \in {"SENT", "FAILED"}
  PROVE  Status(s, r)' = Status(s, r)
<1>1. TypeOK /\ s \in Specialists /\ Status(s, r) # Absent
  BY DEF DispatchInv, TypeInv, Specialists, Absent
<1>2. ASSUME NEW q \in Requests, Insert(q) PROVE Status(s, r)' = Status(s, r)
  <2>1. call[q].key \in Keys
    BY <1>2 DEF DispatchInv, TypeInv, CallOK, Insert, DispatchSteps
  <2> QED BY <1>1, <1>2, <2>1, InsertedRow DEF Status
<1>3. ASSUME NEW q \in Requests, MarkSent(q) \/ MarkFailed(q) PROVE Status(s, r)' = Status(s, r)
  <2>1. call[q].kind \in DispatchKinds
    BY <1>3 DEF DispatchInv, TypeInv, CallOK, MarkSent, MarkFailed, DispatchSteps
  <2>2. SpecialistOf(call[q].kind) = s => call[q].kind \in Downstream
    BY <2>1 DEF SpecialistOf, DispatchKinds, Downstream
  <2> QED BY <1>1, <1>3, <2>2, MarkedRow DEF Status
<1>4. ASSUME UNCHANGED dispatch PROVE Status(s, r)' = Status(s, r)
  BY <1>4 DEF Status
<1>5. ASSUME NEW q \in Requests, BeginRequest(q) PROVE UNCHANGED dispatch
  BY <1>5, BeginMoves DEF DispatchInv, rows
<1>6. ASSUME NEW q \in Requests, ServeRequest(q), ~ Insert(q), ~ MarkSent(q), ~ MarkFailed(q)
      PROVE  UNCHANGED dispatch
  BY <1>6 DEF ServeRequest, PlanIntent, RefreshIntent, AssertEngineering, AssertInfrastructure,
     PickEngineering, Lookup, ReadStage, AnswerError, Store, ReadResults, ReadLatest, Decide, Advance,
     SendAnswered, SendReplyLost, SendRefused, SendGarbled, rows
<1>7. ASSUME \/ \E i \in Intents : CreateIntent(i)
             \/ \E x \in Runs : QaProgress(x)
             \/ Crash
             \/ UNCHANGED vars
      PROVE  UNCHANGED dispatch
  BY <1>7 DEF CreateIntent, QaProgress, Crash, vars, rows
<1> QED BY <1>2, <1>3, <1>4, <1>5, <1>6, <1>7 DEF Next

LEMMA DispatchInvAlways == Spec => []DispatchInv
BY InitDispatchInv, DispatchInvNext, PTL DEF Spec

\* A run stands at INFRASTRUCTURE or QA only when that dispatch was sent.
THEOREM StageNeedsDispatch == Spec => []StageHasDispatch
<1>1. DispatchInv => StageHasDispatch
  BY DEF DispatchInv
<1> QED BY <1>1, DispatchInvAlways, PTL

\* No interleaving and no crash settles an infrastructure or QA dispatch twice.
THEOREM DownstreamSettlesOnce == Spec => DownstreamOutcomeFinal
<1>1. DispatchInv /\ [Next]_vars =>
        [ \A r \in Runs, s \in {"INFRASTRUCTURE", "QA"} :
            Status(s, r) \in {"SENT", "FAILED"} => Status(s, r)' = Status(s, r) ]_vars
  BY SettledStays
<1> QED BY <1>1, DispatchInvAlways, PTL DEF Spec, DownstreamOutcomeFinal

-----------------------------------------------------------------------------
(* What the specialists received *)

\* A request that is about to mark SENT was accepted; QA Again has not yet seen
\* the one that is about to be sent to it.
ReceiptOK(q) ==
  /\ pc[q] = "mark_sent" /\ call[q].kind # "dispatch_infrastructure" =>
       received[SpecialistOf(call[q].kind)][call[q].run] > 0
  /\ pc[q] = "send" /\ call[q].kind = "dispatch_qa" => received["QA"][call[q].run] = 0

ReceiptInv ==
  /\ DispatchInv
  /\ \A q \in Requests : ReceiptOK(q)
  /\ SentWasReceived
  /\ QaReceivedAtMostOnce
  /\ \A r \in Runs : received["QA"][r] > 0 => Status("QA", r) # Absent
  /\ \A r \in Runs : gate[r] # Absent => received["QA"][r] > 0

LEMMA InitReceiptInv == Init => ReceiptInv
<1> SUFFICES ASSUME Init PROVE ReceiptInv
  OBVIOUS
<1>1. DispatchInv
  BY InitDispatchInv
<1>2. \A q \in Requests : pc[q] = "idle"
  BY DEF Init
<1>3. \A s \in Specialists, r \in Runs : received[s][r] = 0 /\ Status(s, r) = Absent /\ gate[r] = Absent
  BY DEF Init, Status, DefaultKey, Keys, NoDispatch
<1> QED BY <1>1, <1>2, <1>3 DEF ReceiptInv, ReceiptOK, SentWasReceived, QaReceivedAtMostOnce, Specialists, Absent

\* A request that stays where it is, or leaves, keeps what it knows as long as no
\* package arrives.
LEMMA NothingReceived ==
  ASSUME ReceiptInv, DispatchInv', NEW q \in Requests, Others(q), UNCHANGED <<dispatch, received>>,
         ReceiptOK(q)', \A r \in Runs : gate'[r] # Absent => received["QA"][r] > 0
  PROVE  ReceiptInv'
<1>1. \A p \in Requests \ {q} : ReceiptOK(p)'
  BY DEF ReceiptInv, ReceiptOK, Others
<1> QED BY <1>1 DEF ReceiptInv, SentWasReceived, QaReceivedAtMostOnce, Status

LEMMA BeginKeepsReceiptInv ==
  ASSUME ReceiptInv, DispatchInv', NEW q \in Requests, BeginRequest(q)
  PROVE  ReceiptInv'
<1>1. /\ Others(q) /\ UNCHANGED <<rows, world>>
      /\ pc'[q] \notin Settling \cup StageSteps
  BY BeginMoves DEF ReceiptInv, DispatchInv
<1> QED BY <1>1, NothingReceived DEF rows, world, ReceiptInv, ReceiptOK, Settling

LEMMA QuietKeepsReceiptInv ==
  ASSUME ReceiptInv, DispatchInv', NEW q \in Requests,
         \/ PlanIntent(q) \/ RefreshIntent(q) \/ AssertEngineering(q) \/ AssertInfrastructure(q)
         \/ PickEngineering(q) \/ Lookup(q) \/ ReadStage(q) \/ Advance(q) \/ AnswerError(q)
         \/ Store(q) \/ ReadResults(q) \/ Decide(q)
  PROVE  ReceiptInv'
<1>1. TypeInv /\ TypeOK /\ KeyOK(q)
  BY DEF ReceiptInv, DispatchInv, TypeInv
<1>2. Others(q)
  BY <1>1, ServeMoves DEF ServeRequest
<1>3. UNCHANGED <<dispatch, received, gate>>
  BY DEF PlanIntent, RefreshIntent, AssertEngineering, AssertInfrastructure, PickEngineering, Lookup,
         ReadStage, Advance, AnswerError, Store, ReadResults, ReadLatest, Decide, rows, world
<1>4. pc'[q] # "mark_sent" /\ (pc'[q] = "send" => Lookup(q))
  BY SMTT(60), <1>1, Moved, Finished
     DEF PlanIntent, RefreshIntent, AssertEngineering, AssertInfrastructure, PickEngineering, Lookup,
         ReadStage, Advance, AnswerError, Store, ReadResults, ReadLatest, Decide, Goto, TypeOK
<1>5. Lookup(q) /\ pc'[q] = "send" => call'[q].kind # "dispatch_qa"
  BY <1>1, Moved, Finished DEF Lookup, KeyOK, SamePayload, DispatchSteps, Downstream
<1>6. ReceiptOK(q)'
  BY <1>4, <1>5 DEF ReceiptOK
<1> QED BY <1>2, <1>3, <1>6, NothingReceived DEF ReceiptInv

LEMMA InsertKeepsReceiptInv ==
  ASSUME ReceiptInv, DispatchInv', NEW q \in Requests, Insert(q)
  PROVE  ReceiptInv'
<1>1. /\ TypeInv /\ TypeOK /\ KeyOK(q) /\ CallOK(q) /\ pc[q] = "insert"
      /\ call[q].key \in Keys /\ call[q].run \in Runs
  BY DEF ReceiptInv, DispatchInv, TypeInv, Insert, CallOK, DispatchSteps, Calls
<1>2. Others(q) /\ call'[q] = call[q]
      /\ UNCHANGED <<received, gate>>
  BY <1>1, ServeMoves, Moved DEF ServeRequest, Insert, world
<1>3. CASE ~ KeyFree(call[q].key)
  BY <1>1, <1>2, <1>3, Moved, NothingReceived DEF Insert, ReceiptInv, ReceiptOK
<1>4. CASE KeyFree(call[q].key)
  <2>1. call[q].kind = "dispatch_qa" => received["QA"][call[q].run] = 0
    <3>1. ASSUME call[q].kind = "dispatch_qa" PROVE Status("QA", call[q].run) = Absent
      BY <1>1, <1>4, <3>1 DEF KeyOK, DispatchSteps, Downstream, SpecialistOf, KeyFree, Status, NoDispatch
    <3> QED BY <1>1, <3>1 DEF ReceiptInv, TypeOK, Specialists
  <2>2. pc'[q] = AfterInsert(call[q].kind)
    BY <1>1, <1>4, Moved DEF Insert
  <2>3. ReceiptOK(q)'
    BY <1>2, <2>1, <2>2 DEF ReceiptOK, AfterInsert
  <2>4. \A p \in Requests \ {q} : ReceiptOK(p)'
    BY <1>2 DEF ReceiptInv, ReceiptOK, Others
  <2>5. ASSUME NEW s \in Specialists, NEW r \in Runs, Status(s, r)' = "SENT"
        PROVE  Status(s, r) = "SENT"
    <3>1. DefaultKey(s, r) \in Keys
      BY DEF DefaultKey, Keys
    <3>2. dispatch' = [dispatch EXCEPT ![call[q].key] =
             [status |-> "PENDING", run |-> call[q].run, payload |-> call[q].payload]]
      BY <1>4 DEF Insert
    <3>3. DefaultKey(s, r) = call[q].key => dispatch'[DefaultKey(s, r)].status = "PENDING"
      BY <1>1, <3>2 DEF TypeOK
    <3>4. DefaultKey(s, r) # call[q].key =>
            dispatch'[DefaultKey(s, r)] = dispatch[DefaultKey(s, r)]
      BY <1>1, <3>1, <3>2 DEF TypeOK
    <3> QED BY <2>5, <3>3, <3>4 DEF Status
  <2>6. SentWasReceived'
    BY <1>2, <2>5 DEF ReceiptInv, SentWasReceived, Specialists
  <2>7. \A r \in Runs : received'["QA"][r] > 0 => Status("QA", r)' # Absent
    BY <1>1, <1>2, InsertedRow DEF ReceiptInv, Status, Specialists
  <2> QED BY <1>2, <2>3, <2>4, <2>6, <2>7 DEF ReceiptInv, QaReceivedAtMostOnce
<1> QED BY <1>3, <1>4

LEMMA MarksKeepReceiptInv ==
  ASSUME ReceiptInv, DispatchInv', NEW q \in Requests, MarkSent(q) \/ MarkFailed(q)
  PROVE  ReceiptInv'
<1>1. /\ DispatchInv /\ TypeInv /\ TypeOK /\ KeyOK(q) /\ CallOK(q) /\ ReceiptOK(q)
      /\ call[q].key \in Keys /\ call[q].run \in Runs /\ call[q].kind \in DispatchKinds
  BY DEF ReceiptInv, DispatchInv, TypeInv, MarkSent, MarkFailed, CallOK, DispatchSteps, Calls
<1>2. /\ Others(q) /\ UNCHANGED <<received, gate>>
      /\ pc'[q] \in {"idle", "read_stage"}
  BY <1>1, ServeMoves, Moved, Finished DEF ServeRequest, MarkSent, MarkFailed, Mark, world
<1>3. \A p \in Requests : ReceiptOK(p)'
  BY <1>2 DEF ReceiptInv, ReceiptOK, Others
<1>4. SentWasReceived'
  <2>1. SUFFICES ASSUME NEW r \in Runs, NEW s \in {"ENGINEERING", "QA", "PM"},
                        dispatch'[DefaultKey(s, r)].status = "SENT"
                 PROVE  received[s][r] > 0
    BY <1>2 DEF SentWasReceived, Status
  <2>2. CASE SpecialistOf(call[q].kind) = s /\ call[q].run = r
    <3>1. call[q].kind # "dispatch_infrastructure"
      BY <2>2 DEF SpecialistOf
    <3>2. CASE MarkSent(q)
      BY <1>1, <2>2, <3>1, <3>2 DEF MarkSent, ReceiptOK
    <3>3. CASE MarkFailed(q) /\ DefaultKey(s, r) = call[q].key
      <4>1. dispatch[call[q].key] \in DispatchRow
        BY <1>1, <3>3 DEF CallOK, MarkFailed, TypeOK
      <4>2. dispatch'[call[q].key].status = "FAILED"
        BY <1>1, <3>3, <4>1 DEF MarkFailed, Mark, TypeOK, DispatchRow
      <4> QED BY <2>1, <3>3, <4>2
    <3>4. CASE DefaultKey(s, r) # call[q].key
      <4>1. DefaultKey(s, r) \in Keys
        BY DEF DefaultKey, Keys, Specialists
      <4>2. Status(s, r) = "SENT"
        BY <1>1, <2>1, <3>4, <4>1 DEF MarkSent, MarkFailed, Mark, TypeOK, Status
      <4> QED BY <4>2 DEF ReceiptInv, SentWasReceived
    <3> QED BY <3>2, <3>3, <3>4
  <2>3. CASE ~ (SpecialistOf(call[q].kind) = s /\ call[q].run = r)
    BY <1>1, <2>1, <2>3, MarkedRow DEF ReceiptInv, SentWasReceived, Status, Specialists
  <2> QED BY <2>2, <2>3
<1>5. ASSUME NEW r \in Runs, received'["QA"][r] > 0
      PROVE  Status("QA", r)' # Absent
  <2>1. DefaultKey("QA", r) \in Keys /\ Status("QA", r) # Absent
    BY <1>2, <1>5 DEF DefaultKey, Keys, Specialists, ReceiptInv
  <2>2. dispatch[DefaultKey("QA", r)] \in DispatchRow
    BY <1>1, <2>1 DEF TypeOK, Status, NoDispatch
  <2>3. CASE DefaultKey("QA", r) = call[q].key
    <3>1. dispatch'[DefaultKey("QA", r)].status \in {"SENT", "FAILED"}
      BY <1>1, <2>1, <2>2, <2>3 DEF MarkSent, MarkFailed, Mark, TypeOK, DispatchRow
    <3> QED BY <3>1 DEF Status, Absent
  <2>4. CASE DefaultKey("QA", r) # call[q].key
    <3>1. dispatch'[DefaultKey("QA", r)] = dispatch[DefaultKey("QA", r)]
      BY <1>1, <2>1, <2>4 DEF MarkSent, MarkFailed, Mark, TypeOK
    <3> QED BY <2>1, <3>1 DEF Status
  <2> QED BY <2>3, <2>4
<1> QED BY <1>2, <1>3, <1>4, <1>5 DEF ReceiptInv, QaReceivedAtMostOnce

LEMMA SendKeepsReceiptInv ==
  ASSUME ReceiptInv, DispatchInv', NEW q \in Requests,
         SendAnswered(q) \/ SendReplyLost(q) \/ SendRefused(q) \/ SendGarbled(q)
  PROVE  ReceiptInv'
<1> DEFINE s == SpecialistOf(call[q].kind)  r == call[q].run
<1>1. /\ DispatchInv /\ TypeInv /\ TypeOK /\ KeyOK(q) /\ DispatchOK(q) /\ CallOK(q) /\ ReceiptOK(q)
      /\ pc[q] = "send" /\ r \in Runs /\ s \in Specialists /\ call[q].kind \in DispatchKinds
  BY SpecialistOfKind DEF ReceiptInv, DispatchInv, TypeInv, SendAnswered, SendReplyLost, SendRefused,
     SendGarbled, CallOK, DispatchSteps, Calls
<1>2. /\ Others(q) /\ UNCHANGED <<dispatch, gate>> /\ call'[q] = call[q]
      /\ pc'[q] \in {"mark_sent", "mark_failed", "ValueError"}
  BY <1>1, ServeMoves, Moved DEF ServeRequest, SendAnswered, SendReplyLost, SendRefused, SendGarbled,
     rows, world
<1>3. CASE SendRefused(q)
  <2>1. pc'[q] = "mark_failed" /\ UNCHANGED received
    BY <1>1, <1>3, Moved DEF SendRefused, world
  <2> QED BY <1>2, <2>1, NothingReceived DEF ReceiptOK, ReceiptInv
<1>4. CASE Accept(q)
  <2>1. /\ \A t \in Specialists, x \in Runs : ~ (t = s /\ x = r) => received'[t][x] = received[t][x]
        /\ received'[s][r] = Min2(received[s][r] + 1) /\ received[s][r] \in 0..2
    BY <1>1, <1>4 DEF Accept, TypeOK
  <2>2. received'[s][r] > 0 /\ (received[s][r] = 0 => received'[s][r] = 1)
    BY <2>1 DEF Min2
  <2>3. \A t \in Specialists, x \in Runs : received[t][x] > 0 => received'[t][x] > 0
    BY <2>1, <2>2
  <2>4. s = "QA" => call[q].kind = "dispatch_qa"
    BY <1>1 DEF SpecialistOf, DispatchKinds
  <2>5. s = "QA" => received["QA"][r] = 0 /\ Status("QA", r) # Absent
    BY <1>1, <2>4 DEF ReceiptOK, DispatchOK, Settling, Downstream, Absent
  <2>6. ReceiptOK(q)'
    BY <1>2, <2>2 DEF ReceiptOK
  <2>7. ASSUME NEW p \in Requests \ {q} PROVE ReceiptOK(p)'
    <3>1. /\ ReceiptOK(p) /\ (pc[p] # "idle" => call[p].run \in Runs)
          /\ pc[p] = "mark_sent" => SpecialistOf(call[p].kind) \in Specialists
      BY SpecialistOfKind DEF ReceiptInv, DispatchInv, TypeInv, CallOK, Calls, DispatchSteps
    <3>2. pc[p] = "mark_sent" /\ call[p].kind # "dispatch_infrastructure" =>
            received'[SpecialistOf(call[p].kind)][call[p].run] > 0
      BY <2>3, <3>1 DEF ReceiptOK
    <3>3. pc[p] = "send" /\ call[p].kind = "dispatch_qa" => received'["QA"][call[p].run] = 0
      <4>1. SUFFICES ASSUME pc[p] = "send", call[p].kind = "dispatch_qa"
                     PROVE  received'["QA"][call[p].run] = 0
        OBVIOUS
      <4>2. ~ (s = "QA" /\ r = call[p].run)
        BY <1>1, <2>4, <4>1 DEF DispatchInv, OneSettles, Settling, Downstream
      <4> QED BY <2>1, <3>1, <4>1, <4>2 DEF ReceiptOK, Specialists
    <3> QED BY <1>2, <3>2, <3>3 DEF ReceiptOK, Others
  <2>8. SentWasReceived'
    BY <1>2, <2>3 DEF ReceiptInv, SentWasReceived, Status, Specialists
  <2>9. QaReceivedAtMostOnce'
    BY <2>1, <2>2, <2>5 DEF ReceiptInv, QaReceivedAtMostOnce, Specialists
  <2>10. \A x \in Runs : received'["QA"][x] > 0 => Status("QA", x)' # Absent
    BY <1>2, <2>1, <2>5 DEF ReceiptInv, Status, Specialists
  <2>11. \A x \in Runs : gate'[x] # Absent => received'["QA"][x] > 0
    BY <1>2, <2>3 DEF ReceiptInv, Specialists
  <2> QED BY <2>6, <2>7, <2>8, <2>9, <2>10, <2>11 DEF ReceiptInv
<1> QED BY <1>3, <1>4 DEF SendAnswered, SendReplyLost, SendGarbled

LEMMA SurroundingsKeepReceiptInv ==
  ASSUME ReceiptInv, DispatchInv', \/ \E i \in Intents : CreateIntent(i)
                                   \/ \E r \in Runs : QaProgress(r)
                                   \/ Crash
                                   \/ UNCHANGED vars
  PROVE  ReceiptInv'
<1>1. UNCHANGED <<dispatch, received>>
  BY DEF CreateIntent, QaProgress, Crash, vars, rows, world
<1>2. SentWasReceived' /\ QaReceivedAtMostOnce'
      /\ \A r \in Runs : received'["QA"][r] > 0 => Status("QA", r)' # Absent
  BY <1>1 DEF ReceiptInv, SentWasReceived, QaReceivedAtMostOnce, Status
<1>3. \A q \in Requests : ReceiptOK(q)'
  <2>1. CASE UNCHANGED threads
    BY <1>1, <2>1 DEF ReceiptInv, ReceiptOK, threads
  <2>2. CASE Crash
    BY <2>2 DEF Crash, ReceiptOK
  <2> QED BY <2>1, <2>2 DEF CreateIntent, QaProgress, vars
<1>4. \A r \in Runs : gate'[r] # Absent => received'["QA"][r] > 0
  <2>1. CASE UNCHANGED gate
    BY <1>1, <2>1 DEF ReceiptInv
  <2>2. ASSUME NEW r \in Runs, QaProgress(r)
        PROVE  \A x \in Runs : gate'[x] # Absent => received'["QA"][x] > 0
    BY <1>1, <2>2 DEF QaProgress, ReceiptInv, DispatchInv, TypeInv, TypeOK
  <2> QED BY <2>1, <2>2 DEF CreateIntent, Crash, vars, world
<1> QED BY <1>2, <1>3, <1>4 DEF ReceiptInv

LEMMA ReceiptInvNext == ReceiptInv /\ [Next]_vars => ReceiptInv'
<1> SUFFICES ASSUME ReceiptInv, [Next]_vars PROVE ReceiptInv'
  OBVIOUS
<1>1. DispatchInv'
  BY DispatchInvNext DEF ReceiptInv
<1>2. ASSUME NEW q \in Requests, ServeRequest(q) PROVE ReceiptInv'
  BY <1>1, <1>2, QuietKeepsReceiptInv, InsertKeepsReceiptInv, MarksKeepReceiptInv, SendKeepsReceiptInv
     DEF ServeRequest
<1> QED BY <1>1, <1>2, BeginKeepsReceiptInv, SurroundingsKeepReceiptInv DEF Next

LEMMA ReceiptInvAlways == Spec => []ReceiptInv
BY InitReceiptInv, ReceiptInvNext, PTL DEF Spec

\* QA Again receives at most one request per run, whatever runs at once or crashes.
THEOREM QaAskedOnce == Spec => []QaReceivedAtMostOnce
<1>1. ReceiptInv => QaReceivedAtMostOnce
  BY DEF ReceiptInv
<1> QED BY <1>1, ReceiptInvAlways, PTL

\* A dispatch under a run's own key reads SENT only if its specialist took a
\* package of that run, even while callers bring keys of their own.
THEOREM NoSyntheticAcknowledgement == Spec => []SentWasReceived
<1>1. ReceiptInv => SentWasReceived
  BY DEF ReceiptInv
<1> QED BY <1>1, ReceiptInvAlways, PTL

-----------------------------------------------------------------------------
(* Where the evidence of a READY decision comes from *)

ReadSteps == {"read_engineering", "read_infrastructure", "read_qa", "read_pm", "decide"}

\* x is nothing, or a report of s that is stored for run r.
Known(r, s, x) == x = NoResult \/ x \in results[r][s]

\* Every report that is stored, or about to be, comes from where it says.
StoredOK(r) ==
  /\ \A s \in Specialists : Known(r, s, latest[r][s])
  /\ \A s \in Specialists : \A x \in results[r][s] :
       x.blocking => s = "ENGINEERING" /\ x.status = "PARTIAL"
  /\ results[r]["INFRASTRUCTURE"] # {} => Status("INFRASTRUCTURE", r) = "SENT"
  /\ results[r]["QA"] # {} => received["QA"][r] > 0

InHandOK(q) ==
  /\ pc[q] = "store" =>
       /\ seen[q].result.blocking =>
            call[q].kind = "execute_engineering" /\ seen[q].result.status = "PARTIAL"
       /\ call[q].kind = "refresh_qa_result" => received["QA"][call[q].run] > 0
  /\ pc[q] \in ReadSteps => \A s \in Specialists : Known(call[q].run, s, seen[q].reads[s])

\* The three services' evidence for calling run r ready.
Earned(r) ==
  /\ "engineering" \in run[r].assigned =>
       \E x \in results[r]["ENGINEERING"] : x.status # "FAILED" /\ ~ x.blocking
  /\ "infrastructure" \in run[r].assigned => Status("INFRASTRUCTURE", r) = "SENT"
  /\ "qa" \in run[r].assigned =>
       Report("APPROVED") \in results[r]["QA"] /\ received["QA"][r] > 0

EvidenceInv ==
  /\ ReceiptInv
  /\ \A r \in Runs : StoredOK(r)
  /\ \A q \in Requests : InHandOK(q)
  /\ \A r \in Runs : decision[r] \in ReadyCodes => Exists(r) /\ Earned(r)

LEMMA InitEvidenceInv == Init => EvidenceInv
<1> SUFFICES ASSUME Init PROVE EvidenceInv
  OBVIOUS
<1>1. \A r \in Runs : \A s \in Specialists : latest[r][s] = NoResult /\ results[r][s] = {}
  BY DEF Init, NoReads
<1>2. \A r \in Runs : StoredOK(r)
  BY <1>1 DEF StoredOK, Known, Specialists
<1>3. \A q \in Requests : InHandOK(q)
  BY DEF Init, InHandOK, ReadSteps
<1>4. \A r \in Runs : decision[r] \notin ReadyCodes
  BY DEF Init, Absent, ReadyCodes
<1> QED BY <1>2, <1>3, <1>4, InitReceiptInv DEF EvidenceInv

\* What was said, sent or received stays so, and a run keeps its assignment.
EvidenceKept ==
  /\ \A r \in Runs, s \in Specialists : results[r][s] \subseteq results'[r][s]
  /\ \A r \in Runs : received["QA"][r] > 0 => received'["QA"][r] > 0
  /\ \A r \in Runs : Status("INFRASTRUCTURE", r) = "SENT" => Status("INFRASTRUCTURE", r)' = "SENT"
  /\ \A r \in Runs : Exists(r) => Exists(r)' /\ run'[r].assigned = run[r].assigned

LEMMA RunsKeepAssignment ==
  ASSUME TypeInv, [Next]_vars, NEW r \in Runs, Exists(r)
  PROVE  Exists(r)' /\ run'[r].assigned = run[r].assigned
<1>1. TypeOK /\ run[r] \in RunRow /\ NoRun \notin RunRow
  BY DEF TypeInv, TypeOK, Exists, NoRun, RunRow, RunStages, Absent
<1>2. ASSUME NEW q \in Requests, PlanIntent(q) PROVE run'[r] = run[r]
  BY <1>1, <1>2 DEF PlanIntent, TypeOK
<1>3. ASSUME NEW q \in Requests, Advance(q)
      PROVE  run'[r] \in RunRow /\ run'[r].assigned = run[r].assigned
  <2>1. call[q].run \in Runs /\ SpecialistOf(call[q].kind) \in RunStages
    BY <1>3, SpecialistOfKind DEF TypeInv, CallOK, Advance, StageSteps, Calls
  <2> QED BY <1>1, <1>3, <2>1 DEF Advance, TypeOK, RunRow
<1>4. ASSUME NEW q \in Requests, Decide(q)
      PROVE  run'[r] \in RunRow /\ run'[r].assigned = run[r].assigned
  <2> DEFINE d == EvaluateReadiness(InputsOf(run[call[q].run].assigned, seen[q].reads))
  <2>1. d \in RunStatuses
    BY ReasonTyped DEF RunStatuses
  <2>2. run' = [run EXCEPT ![call[q].run] = Resolved(@, seen[q], d)]
    BY <1>4 DEF Decide
  <2> HIDE DEF d
  <2>3. Resolved(run[r], seen[q], d) \in RunRow /\ Resolved(run[r], seen[q], d).assigned = run[r].assigned
    BY <1>1, <2>1 DEF Resolved, RunRow, RunStages
  <2> QED BY <1>1, <2>2, <2>3 DEF TypeOK
<1>5. ASSUME NEW q \in Requests, BeginRequest(q) PROVE run' = run
  BY <1>5, BeginMoves DEF rows
<1>6. ASSUME NEW q \in Requests, ServeRequest(q), ~ PlanIntent(q), ~ Advance(q), ~ Decide(q)
      PROVE  run' = run
  BY <1>6 DEF ServeRequest, RefreshIntent, AssertEngineering, AssertInfrastructure, PickEngineering,
     Lookup, Insert, SendAnswered, SendReplyLost, SendRefused, SendGarbled, MarkSent, MarkFailed, Mark,
     ReadStage, AnswerError, Store, ReadResults, ReadLatest, rows
<1>7. ASSUME \/ \E i \in Intents : CreateIntent(i)
             \/ \E x \in Runs : QaProgress(x)
             \/ Crash
             \/ UNCHANGED vars
      PROVE  run' = run
  BY <1>7 DEF CreateIntent, QaProgress, Crash, vars, rows
<1> QED BY <1>1, <1>2, <1>3, <1>4, <1>5, <1>6, <1>7 DEF Next, Exists

LEMMA ResultsGrow ==
  ASSUME TypeInv, [Next]_vars, NEW r \in Runs, NEW s \in Specialists
  PROVE  results[r][s] \subseteq results'[r][s]
<1>1. ASSUME NEW q \in Requests, Store(q) PROVE results[r][s] \subseteq results'[r][s]
  BY <1>1 DEF Store, TypeInv, TypeOK
<1>2. ASSUME NEW q \in Requests, BeginRequest(q) PROVE results' = results
  BY <1>2, BeginMoves DEF rows
<1>3. ASSUME NEW q \in Requests, ServeRequest(q), ~ Store(q) PROVE results' = results
  BY <1>3 DEF ServeRequest, PlanIntent, RefreshIntent, AssertEngineering, AssertInfrastructure,
     PickEngineering, Lookup, Insert, SendAnswered, SendReplyLost, SendRefused, SendGarbled, MarkSent,
     MarkFailed, Mark, ReadStage, Advance, AnswerError, ReadResults, ReadLatest, Decide, rows
<1>4. ASSUME \/ \E i \in Intents : CreateIntent(i)
             \/ \E x \in Runs : QaProgress(x)
             \/ Crash
             \/ UNCHANGED vars
      PROVE  results' = results
  BY <1>4 DEF CreateIntent, QaProgress, Crash, vars, rows
<1> QED BY <1>1, <1>2, <1>3, <1>4 DEF Next

LEMMA ReceivedGrows ==
  ASSUME TypeInv, [Next]_vars, NEW r \in Runs, received["QA"][r] > 0
  PROVE  received'["QA"][r] > 0
<1>1. ASSUME NEW q \in Requests, Accept(q) PROVE received'["QA"][r] > 0
  <2>1. received["QA"][r] \in 1..2
    BY DEF TypeInv, TypeOK, Specialists
  <2>2. received'["QA"][r] \in {received["QA"][r], Min2(received["QA"][r] + 1)}
    BY <1>1 DEF Accept, TypeInv, TypeOK, Specialists
  <2> QED BY <2>1, <2>2 DEF Min2
<1>2. ASSUME NEW q \in Requests, BeginRequest(q) PROVE received' = received
  BY <1>2, BeginMoves DEF world
<1>3. ASSUME NEW q \in Requests, ServeRequest(q), ~ Accept(q) PROVE received' = received
  BY <1>3 DEF ServeRequest, PlanIntent, RefreshIntent, AssertEngineering, AssertInfrastructure,
     PickEngineering, Lookup, Insert, SendAnswered, SendReplyLost, SendRefused, SendGarbled, MarkSent,
     MarkFailed, Mark, ReadStage, Advance, AnswerError, Store, ReadResults, ReadLatest, Decide, world
<1>4. ASSUME \/ \E i \in Intents : CreateIntent(i)
             \/ \E x \in Runs : QaProgress(x)
             \/ Crash
             \/ UNCHANGED vars
      PROVE  received' = received
  BY <1>4 DEF CreateIntent, QaProgress, Crash, vars, world
<1> QED BY <1>1, <1>2, <1>3, <1>4 DEF Next

LEMMA EvidenceIsKept ==
  ASSUME ReceiptInv, [Next]_vars
  PROVE  EvidenceKept
<1>1. DispatchInv /\ TypeInv
  BY DEF ReceiptInv, DispatchInv
<1>2. \A r \in Runs : Status("INFRASTRUCTURE", r) = "SENT" => Status("INFRASTRUCTURE", r)' = "SENT"
  BY <1>1, SettledStays
<1> QED BY <1>1, <1>2, RunsKeepAssignment, ResultsGrow, ReceivedGrows DEF EvidenceKept

\* A decision that was earned stays earned, and what was read stays known.
LEMMA KeptEvidence ==
  ASSUME EvidenceKept
  PROVE  /\ \A r \in Runs : Exists(r) /\ Earned(r) => Exists(r)' /\ Earned(r)'
         /\ \A r \in Runs, s \in Specialists : \A x : Known(r, s, x) => Known(r, s, x)'
BY DEF EvidenceKept, Earned, Known, Specialists

\* Who does not touch the reports keeps the invariant, if q's own part holds.
LEMMA NothingReported ==
  ASSUME EvidenceInv, ReceiptInv', EvidenceKept, NEW q \in Requests, Others(q),
         UNCHANGED <<results, latest, decision>>, InHandOK(q)'
  PROVE  EvidenceInv'
<1>1. \A r \in Runs : StoredOK(r)'
  BY DEF EvidenceInv, StoredOK, Known, EvidenceKept, Specialists
<1>2. ASSUME NEW p \in Requests \ {q} PROVE InHandOK(p)'
  <2>1. InHandOK(p) /\ (pc[p] # "idle" => call[p].run \in Runs)
    BY DEF EvidenceInv, ReceiptInv, DispatchInv, TypeInv, CallOK, Calls
  <2> QED BY <2>1 DEF Others, InHandOK, EvidenceKept, Known, ReadSteps
<1>3. \A r \in Runs : decision'[r] \in ReadyCodes => Exists(r)' /\ Earned(r)'
  BY KeptEvidence DEF EvidenceInv
<1> QED BY <1>1, <1>2, <1>3 DEF EvidenceInv

LEMMA BeginKeepsEvidence ==
  ASSUME EvidenceInv, ReceiptInv', EvidenceKept, NEW q \in Requests, BeginRequest(q)
  PROVE  EvidenceInv'
<1>1. PICK label \in PCs, c \in Calls, s \in Seen : Begin(q, label, c, s) /\ Fits(label, c, s)
  BY BeginRequestFits DEF EvidenceInv, ReceiptInv, DispatchInv
<1>2. /\ Others(q) /\ UNCHANGED <<rows, world>>
      /\ pc'[q] = label /\ call'[q] = c /\ seen'[q] = s
  BY <1>1, Begun DEF EvidenceInv, ReceiptInv, DispatchInv, TypeInv
<1>3. c.run \in Runs
  BY DEF Calls
<1>4. InHandOK(q)'
  <2>1. label = "store" => /\ s.result.blocking => c.kind = "execute_engineering" /\ s.result.status = "PARTIAL"
                           /\ c.kind = "refresh_qa_result" => received["QA"][c.run] > 0
    BY <1>1, <1>3 DEF Fits, EvidenceInv, ReceiptInv
  <2>2. label \in ReadSteps => s.reads = NoReads
    BY <1>1 DEF Fits, ReadSteps
  <2> QED BY <1>2, <2>1, <2>2 DEF InHandOK, world, Known, NoReads
<1> QED BY <1>2, <1>4, NothingReported DEF rows

LEMMA QuietKeepsEvidence ==
  ASSUME EvidenceInv, ReceiptInv', EvidenceKept, NEW q \in Requests, ServeRequest(q),
         ~ Store(q), ~ ReadResults(q), ~ Decide(q)
  PROVE  EvidenceInv'
<1>1. TypeInv /\ TypeOK
  BY DEF EvidenceInv, ReceiptInv, DispatchInv, TypeInv
<1>2. Others(q)
  BY <1>1, ServeMoves
<1>3. UNCHANGED <<results, latest, decision>>
  BY DEF ServeRequest, PlanIntent, RefreshIntent, AssertEngineering, AssertInfrastructure,
     PickEngineering, Lookup, Insert, SendAnswered, SendReplyLost, SendRefused, SendGarbled, MarkSent,
     MarkFailed, Mark, ReadStage, Advance, AnswerError, rows
<1>4. pc'[q] \notin ReadSteps /\ (pc'[q] = "store" => Advance(q))
  BY <1>1, Moved, Finished
     DEF ServeRequest, PlanIntent, RefreshIntent, AssertEngineering, AssertInfrastructure,
     PickEngineering, Lookup, Insert, AfterInsert, SendAnswered, SendReplyLost, SendRefused, SendGarbled,
     MarkSent, MarkFailed, ReadStage, Advance, AnswerError, Goto, TypeOK, ReadSteps
<1>5. InHandOK(q)'
  <2>1. SUFFICES ASSUME Advance(q), pc'[q] = "store"
                 PROVE  ~ seen'[q].result.blocking /\ call'[q].kind = "dispatch_infrastructure"
    BY <1>4 DEF InHandOK
  <2>2. ~ Finish(q)
    BY <1>1, <2>1, Finished
  <2>3. /\ call[q].kind = "dispatch_infrastructure" /\ UNCHANGED call
        /\ seen' = [seen EXCEPT ![q].result = Report("SUCCESS")]
    BY <2>1, <2>2 DEF Advance, Goto
  <2>4. seen'[q].result = Report("SUCCESS")
    BY <1>1, <2>3, ReportTyped, SeenUpdated DEF TypeOK
  <2> QED BY <2>3, <2>4 DEF Report
<1> QED BY <1>2, <1>3, <1>5, NothingReported

LEMMA StoreKeepsEvidence ==
  ASSUME EvidenceInv, ReceiptInv', EvidenceKept, NEW q \in Requests, Store(q)
  PROVE  EvidenceInv'
<1> DEFINE c == call[q]  s == SpecialistOf(c.kind)  x == seen[q].result
<1>1. /\ TypeOK /\ CallOK(q) /\ InHandOK(q) /\ DispatchOK(q) /\ pc[q] = "store"
      /\ c.run \in Runs /\ s \in Specialists /\ c.kind \in ResultKinds \cup {"dispatch_infrastructure"}
  BY SpecialistOfKind DEF EvidenceInv, ReceiptInv, DispatchInv, TypeInv, Store, CallOK, Calls, DispatchKinds
<1>2. /\ \A r \in Runs, t \in Specialists :
           /\ results'[r][t] = IF r = c.run /\ t = s THEN results[r][t] \cup {x} ELSE results[r][t]
           /\ latest'[r][t] = IF r = c.run /\ t = s THEN x ELSE latest[r][t]
      /\ UNCHANGED <<decision, dispatch, received>>
  BY <1>1 DEF Store, Newest, TypeOK, Reads, world
<1>3. Others(q) /\ pc'[q] = "idle"
  BY <1>1, Finished DEF Store
<1>4. /\ x.blocking => s = "ENGINEERING" /\ x.status = "PARTIAL"
      /\ s = "QA" => received["QA"][c.run] > 0
      /\ s = "INFRASTRUCTURE" => Status("INFRASTRUCTURE", c.run) = "SENT"
  BY <1>1 DEF InHandOK, DispatchOK, SpecialistOf, ResultKinds, Downstream
<1>5. \A r \in Runs : StoredOK(r)'
  <2>1. SUFFICES ASSUME NEW r \in Runs PROVE StoredOK(r)'
    OBVIOUS
  <2>2. StoredOK(r)
    BY DEF EvidenceInv
  <2>3. ASSUME NEW t \in Specialists
        PROVE  /\ latest'[r][t] = NoResult \/ latest'[r][t] \in results'[r][t]
               /\ \A y \in results'[r][t] : y.blocking => t = "ENGINEERING" /\ y.status = "PARTIAL"
    <3>1. /\ latest[r][t] = NoResult \/ latest[r][t] \in results[r][t]
          /\ \A y \in results[r][t] : y.blocking => t = "ENGINEERING" /\ y.status = "PARTIAL"
      BY <2>2 DEF StoredOK, Known
    <3>2. CASE r = c.run /\ t = s
      <4>1. latest'[r][t] = x /\ results'[r][t] = results[r][t] \cup {x}
        BY <1>2, <3>2
      <4> HIDE DEF c, s, x
      <4> QED BY <1>4, <3>1, <3>2, <4>1
    <3>3. CASE ~ (r = c.run /\ t = s)
      <4>1. latest'[r][t] = latest[r][t] /\ results'[r][t] = results[r][t]
        BY <1>2, <3>3
      <4> QED BY <3>1, <4>1
    <3> QED BY <3>2, <3>3
  <2>4. \A t \in Specialists : Known(r, t, latest[r][t])'
    BY <2>3 DEF Known
  <2>5. /\ results'[r]["INFRASTRUCTURE"] # {} => Status("INFRASTRUCTURE", r)' = "SENT"
        /\ results'[r]["QA"] # {} => received'["QA"][r] > 0
    BY <1>2, <1>4, <2>2 DEF StoredOK, Status, Specialists
  <2> QED BY <2>3, <2>4, <2>5 DEF StoredOK
<1>6. ASSUME NEW p \in Requests PROVE InHandOK(p)'
  <2>1. InHandOK(p) /\ (pc[p] # "idle" => call[p].run \in Runs)
    BY DEF EvidenceInv, ReceiptInv, DispatchInv, TypeInv, CallOK, Calls
  <2>2. CASE p = q
    BY <1>3, <2>2 DEF InHandOK, ReadSteps
  <2>3. CASE p # q
    BY <1>2, <1>3, <2>1, <2>3 DEF Others, InHandOK, EvidenceKept, Known, ReadSteps
  <2> QED BY <2>2, <2>3
<1>7. \A r \in Runs : decision'[r] \in ReadyCodes => Exists(r)' /\ Earned(r)'
  BY <1>2, KeptEvidence DEF EvidenceInv
<1> QED BY <1>5, <1>6, <1>7 DEF EvidenceInv

LEMMA ReadKeepsEvidence ==
  ASSUME EvidenceInv, ReceiptInv', EvidenceKept, NEW q \in Requests, ReadResults(q)
  PROVE  EvidenceInv'
<1>1. PICK s \in Specialists :
        /\ pc[q] \in ReadSteps
        /\ seen' = [seen EXCEPT ![q].reads[s] = latest[call[q].run][s]]
        /\ pc'[q] \in ReadSteps /\ UNCHANGED <<call, rows, world>> /\ Others(q)
  <2>1. PICK s \in Specialists :
          \E next \in {"read_infrastructure", "read_qa", "read_pm", "decide"} :
            /\ pc[q] \in {"read_engineering", "read_infrastructure", "read_qa", "read_pm"}
            /\ seen' = [seen EXCEPT ![q].reads[s] = latest[call[q].run][s]]
            /\ Goto(q, next)
            /\ UNCHANGED <<rows, world>>
    BY DEF ReadResults, ReadLatest, Specialists
  <2> QED BY <2>1 DEF Goto, EvidenceInv, ReceiptInv, DispatchInv, TypeInv, TypeOK, Others, ReadSteps
<1>2. TypeOK /\ CallOK(q) /\ InHandOK(q) /\ call[q].run \in Runs
  BY <1>1 DEF EvidenceInv, ReceiptInv, DispatchInv, TypeInv, CallOK, Calls, ReadSteps
<1>3. StoredOK(call[q].run) /\ latest[call[q].run][s] \in Results \cup {NoResult}
  BY <1>2 DEF EvidenceInv, TypeOK, Reads
<1>4. seen'[q].reads = [seen[q].reads EXCEPT ![s] = latest[call[q].run][s]]
  BY <1>1, <1>2, <1>3, SeenUpdated DEF TypeOK
<1>5. \A t \in Specialists : Known(call[q].run, t, seen'[q].reads[t])
  <2>1. seen[q].reads \in Reads
    BY <1>2 DEF TypeOK, Seen
  <2> QED BY <1>1, <1>2, <1>3, <1>4, <2>1 DEF InHandOK, StoredOK, Reads
<1>6. InHandOK(q)'
  BY <1>1, <1>5 DEF InHandOK, Known, ReadSteps, rows
<1> QED BY <1>1, <1>6, NothingReported DEF rows

\* The policy at work: a READY code, computed from known reports, is earned.
LEMMA ReadyCodeIsEarned ==
  ASSUME TypeOK, NEW r \in Runs, StoredOK(r), NEW reads \in Reads,
         \A s \in Specialists : Known(r, s, reads[s]),
         ReasonCode(InputsOf(run[r].assigned, reads)) \in ReadyCodes
  PROVE  Earned(r)
<1> DEFINE in == InputsOf(run[r].assigned, reads)
<1>1. /\ ~ MissingResult(in) /\ in.eng # "FAILED" /\ ~ (in.eng = "PARTIAL" /\ in.blocking)
      /\ CaveatPasses(in) \/ AllGatesPass(in)
  <2> HIDE DEF in
  <2> QED BY DEF in, ReasonCode, ReadyCodes, EngineeringFailed
<1>2. /\ in.assigned = run[r].assigned
      /\ in.eng = reads["ENGINEERING"].status /\ in.blocking = reads["ENGINEERING"].blocking
      /\ in.infra = reads["INFRASTRUCTURE"].status /\ in.qa = reads["QA"].status
  BY DEF InputsOf
<1>3. NoResult.status = NoStatus
  BY DEF NoResult
<1>4. ASSUME "engineering" \in run[r].assigned
      PROVE  \E x \in results[r]["ENGINEERING"] : x.status # "FAILED" /\ ~ x.blocking
  <2>1. reads["ENGINEERING"] \in results[r]["ENGINEERING"]
    BY <1>1, <1>2, <1>3, <1>4 DEF MissingResult, Known, Specialists
  <2>2. reads["ENGINEERING"].blocking => reads["ENGINEERING"].status = "PARTIAL"
    BY <2>1 DEF StoredOK, Specialists
  <2> QED BY <1>1, <1>2, <2>1, <2>2
<1>5. ASSUME "infrastructure" \in run[r].assigned
      PROVE  Status("INFRASTRUCTURE", r) = "SENT"
  <2>1. reads["INFRASTRUCTURE"] \in results[r]["INFRASTRUCTURE"]
    BY <1>1, <1>2, <1>3, <1>5 DEF MissingResult, Known, Specialists
  <2> QED BY <2>1 DEF StoredOK
<1>6. ASSUME "qa" \in run[r].assigned
      PROVE  Report("APPROVED") \in results[r]["QA"] /\ received["QA"][r] > 0
  <2>1. reads["QA"] \in results[r]["QA"]
    BY <1>1, <1>2, <1>3, <1>6 DEF MissingResult, Known, Specialists
  <2>2. reads["QA"].status = "APPROVED"
    BY <1>1, <1>2, <1>6 DEF CaveatPasses, AllGatesPass, GatePasses
  <2>3. ~ reads["QA"].blocking
    BY <2>1, <2>2 DEF StoredOK, Specialists
  <2>4. reads["QA"] \in Results
    BY <2>1 DEF TypeOK, Specialists
  <2>5. reads["QA"] = Report("APPROVED")
    <3>1. \A y \in Results : y = [status |-> y.status, blocking |-> y.blocking] /\ y.blocking \in BOOLEAN
      BY DEF Results, Result
    <3> QED BY <2>2, <2>3, <2>4, <3>1 DEF Report
  <2> QED BY <2>1, <2>5 DEF StoredOK
<1> QED BY <1>4, <1>5, <1>6 DEF Earned

LEMMA DecideKeepsEvidence ==
  ASSUME EvidenceInv, ReceiptInv', EvidenceKept, NEW q \in Requests, Decide(q)
  PROVE  EvidenceInv'
<1> DEFINE r == call[q].run  code == ReasonCode(InputsOf(run[r].assigned, seen[q].reads))
<1>1. TypeOK /\ CallOK(q) /\ InHandOK(q) /\ pc[q] = "decide" /\ r \in Runs /\ Exists(r)
  BY DEF EvidenceInv, ReceiptInv, DispatchInv, TypeInv, CallOK, Calls, Decide
<1>2. seen[q].reads \in Reads /\ (\A s \in Specialists : Known(r, s, seen[q].reads[s])) /\ StoredOK(r)
  BY <1>1 DEF TypeOK, Seen, InHandOK, ReadSteps, EvidenceInv
<1>3. code \in ReadyCodes => Earned(r)
  BY <1>1, <1>2, ReadyCodeIsEarned
<1>4. /\ \A x \in Runs : decision'[x] = IF x = r THEN code ELSE decision[x]
      /\ Finish(q) /\ UNCHANGED <<results, latest, dispatch, received>>
  <2> HIDE DEF code
  <2>1. decision' = [decision EXCEPT ![r] = code]
    BY DEF Decide, code
  <2> QED BY <1>1, <2>1 DEF Decide, TypeOK, world
<1>5. Others(q) /\ pc'[q] = "idle"
  BY <1>1, <1>4, Finished
<1>6. \A x \in Runs : StoredOK(x)'
  BY <1>4 DEF EvidenceInv, StoredOK, Known, Status
<1>7. ASSUME NEW p \in Requests PROVE InHandOK(p)'
  <2>1. InHandOK(p)
    BY DEF EvidenceInv
  <2> QED BY <1>4, <1>5, <2>1 DEF Others, InHandOK, Known, ReadSteps
<1>8. \A x \in Runs : decision'[x] \in ReadyCodes => Exists(x)' /\ Earned(x)'
  <2> HIDE DEF code
  <2>1. \A x \in Runs : decision'[x] \in ReadyCodes => Exists(x) /\ Earned(x)
    BY <1>1, <1>3, <1>4 DEF EvidenceInv
  <2> QED BY <2>1, KeptEvidence
<1> QED BY <1>6, <1>7, <1>8 DEF EvidenceInv

LEMMA SurroundingsKeepEvidence ==
  ASSUME EvidenceInv, ReceiptInv', EvidenceKept,
         \/ \E i \in Intents : CreateIntent(i)
         \/ \E r \in Runs : QaProgress(r)
         \/ Crash
         \/ UNCHANGED vars
  PROVE  EvidenceInv'
<1>1. UNCHANGED <<dispatch, results, latest, decision, received>>
  BY DEF CreateIntent, QaProgress, Crash, vars, rows, world
<1>2. \A r \in Runs : StoredOK(r)'
  BY <1>1 DEF EvidenceInv, StoredOK, Known, Status
<1>3. \A q \in Requests : InHandOK(q)'
  <2>1. CASE UNCHANGED threads
    BY <1>1, <2>1 DEF EvidenceInv, InHandOK, Known, threads
  <2>2. CASE Crash
    BY <2>2 DEF Crash, InHandOK, ReadSteps
  <2> QED BY <2>1, <2>2 DEF CreateIntent, QaProgress, vars
<1>4. \A r \in Runs : decision'[r] \in ReadyCodes => Exists(r)' /\ Earned(r)'
  BY <1>1, KeptEvidence DEF EvidenceInv
<1> QED BY <1>2, <1>3, <1>4 DEF EvidenceInv

LEMMA EvidenceInvNext == EvidenceInv /\ [Next]_vars => EvidenceInv'
<1> SUFFICES ASSUME EvidenceInv, [Next]_vars PROVE EvidenceInv'
  OBVIOUS
<1>1. ReceiptInv' /\ EvidenceKept
  BY ReceiptInvNext, EvidenceIsKept DEF EvidenceInv
<1>2. ASSUME NEW q \in Requests, ServeRequest(q) PROVE EvidenceInv'
  BY <1>1, <1>2, QuietKeepsEvidence, StoreKeepsEvidence, ReadKeepsEvidence, DecideKeepsEvidence
<1> QED BY <1>1, <1>2, BeginKeepsEvidence, SurroundingsKeepEvidence DEF Next

\* A READY decision rests on evidence of every assigned specialist, however the
\* requests that gathered it interleaved and whenever the service stopped.
THEOREM ReadyMeansEarned == Spec => []ReadyIsEarned
<1>1. EvidenceInv => ReadyIsEarned
  BY DEF EvidenceInv, ReadyIsEarned, Earned
<1>2. Spec => []EvidenceInv
  BY InitEvidenceInv, EvidenceInvNext, PTL DEF Spec
<1> QED BY <1>1, <1>2, PTL

-----------------------------------------------------------------------------
(* Where an intent with a run settles *)

\* q is on its way to move intent i from ANALYZING to PLANNED.
Moving(q, i) ==
  /\ call[q].intent = i
  /\ \/ pc[q] = "refresh_intent"
     \/ pc[q] = "plan_intent" /\ seen[q].intent = "ANALYZING"

Started == {"ANALYZING", "PLANNED"}

\* An intent left at ANALYZING has a request that will move it on; one that was
\* read after RECEIVED, or that has a run, never returns to RECEIVED.
PlanningInv ==
  /\ TypeInv
  /\ \A i \in Intents : intent[i] \in {Absent, "RECEIVED"} \cup Started
  /\ \A i \in Intents : intent[i] = "ANALYZING" => \E q \in Requests : Moving(q, i)
  /\ \A r \in Runs : Exists(r) => intent[run[r].intent] \in Started
  /\ \A q \in Requests : pc[q] = "plan_intent" =>
       \/ seen[q].intent = "RECEIVED"
       \/ seen[q].intent \in Started /\ intent[call[q].intent] \in Started

LEMMA InitPlanningInv == Init => PlanningInv
BY InitTypeInv DEF Init, PlanningInv, Exists, Absent

\* A step of q that starts no run and changes no intent, with q at no step of
\* create_run before it.
LEMMA UnplannedStep ==
  ASSUME PlanningInv, TypeInv', NEW q \in Requests, Others(q), UNCHANGED intent,
         pc[q] \notin {"plan_intent", "refresh_intent"},
         pc'[q] = "plan_intent" =>
           \/ seen'[q].intent = "RECEIVED"
           \/ seen'[q].intent \in Started /\ intent[call'[q].intent] \in Started,
         \A r \in Runs : Exists(r)' => Exists(r) /\ run'[r].intent = run[r].intent
  PROVE  PlanningInv'
<1>1. ASSUME NEW i \in Intents, intent'[i] = "ANALYZING"
      PROVE  \E p \in Requests : Moving(p, i)'
  BY <1>1 DEF PlanningInv, Moving, Others
<1>2. ASSUME NEW p \in Requests, pc'[p] = "plan_intent"
      PROVE  \/ seen'[p].intent = "RECEIVED"
             \/ seen'[p].intent \in Started /\ intent'[call'[p].intent] \in Started
  BY <1>2 DEF PlanningInv, Others
<1> QED BY <1>1, <1>2 DEF PlanningInv

\* Only create_run makes a run, and no step gives a run another intent.
LEMMA RunsKeepIntent ==
  ASSUME TypeInv, NEW q \in Requests, ServeRequest(q), ~ PlanIntent(q), NEW r \in Runs, Exists(r)'
  PROVE  Exists(r) /\ run'[r].intent = run[r].intent
<1>1. TypeOK /\ NoRun \notin RunRow /\ run[r] \in RunRow \cup {NoRun}
  BY DEF TypeInv, TypeOK, NoRun, RunRow, RunStages, Absent
<1>2. CASE Advance(q)
  <2>1. call[q].run \in Runs /\ Exists(call[q].run)
    BY <1>2 DEF TypeInv, CallOK, Advance, StageSteps, Calls
  <2> QED BY <1>1, <1>2, <2>1 DEF Advance, TypeOK, RunRow, Exists
<1>3. CASE Decide(q)
  <2> DEFINE d == EvaluateReadiness(InputsOf(run[call[q].run].assigned, seen[q].reads))
  <2>1. run' = [run EXCEPT ![call[q].run] = Resolved(@, seen[q], d)]
    BY <1>3 DEF Decide
  <2>2. call[q].run \in Runs /\ Exists(call[q].run)
    BY <1>3 DEF TypeInv, CallOK, Decide, Calls
  <2> HIDE DEF d
  <2>3. Exists(r) => Resolved(run[r], seen[q], d).intent = run[r].intent
    BY <1>1 DEF Resolved, RunRow, Exists
  <2> QED BY <1>1, <2>1, <2>2, <2>3 DEF TypeOK, Exists
<1>4. CASE ~ Advance(q) /\ ~ Decide(q)
  <2>1. run' = run
    BY <1>4 DEF ServeRequest, RefreshIntent, AssertEngineering, AssertInfrastructure, PickEngineering,
     Lookup, Insert, SendAnswered, SendReplyLost, SendRefused, SendGarbled, MarkSent, MarkFailed, Mark,
     ReadStage, AnswerError, Store, ReadResults, ReadLatest, rows
  <2> QED BY <2>1 DEF Exists
<1> QED BY <1>2, <1>3, <1>4

LEMMA BeginKeepsPlanning ==
  ASSUME PlanningInv, TypeInv', NEW q \in Requests, BeginRequest(q)
  PROVE  PlanningInv'
<1>1. Others(q) /\ UNCHANGED <<rows, world>> /\ pc[q] = "idle"
  BY BeginMoves DEF PlanningInv
<1>2. ASSUME pc'[q] = "plan_intent"
      PROVE  \/ seen'[q].intent = "RECEIVED"
             \/ seen'[q].intent \in Started /\ intent[call'[q].intent] \in Started
  <2>1. TypeOK
    BY DEF PlanningInv, TypeInv
  <2>2. BeginCreateRun(q)
    BY <1>2, <2>1 DEF TypeOK, BeginRequest, Begin, BeginDispatchEngineering, BeginDispatchPm, BeginDownstream,
       ExecuteEngineering, RefreshQaResult, RefreshPmStatus, BeginResult, BeginReadiness
  <2>3. PICK i \in Intents :
          /\ intent[i] # Absent /\ call'[q].intent = i /\ seen'[q].intent = intent[i]
    BY <2>1, <2>2 DEF TypeOK, BeginCreateRun, Begin, NoCall, Nothing
  <2> QED BY <2>3 DEF PlanningInv
<1> QED BY <1>1, <1>2, UnplannedStep DEF rows, Exists

LEMMA PlanKeepsPlanning ==
  ASSUME PlanningInv, TypeInv', NEW q \in Requests, PlanIntent(q)
  PROVE  PlanningInv'
<1> DEFINE c == call[q]  st == seen[q].intent
<1>1. /\ TypeOK /\ pc[q] = "plan_intent" /\ c.intent \in Intents /\ c.run \in Runs
      /\ st \in {"RECEIVED"} \cup Started
      /\ st # "RECEIVED" => intent[c.intent] \in Started
  BY DEF PlanningInv, TypeInv, CallOK, PlanIntent, Calls, Started
<1>2. /\ \A i \in Intents : i # c.intent => intent'[i] = intent[i]
      /\ intent'[c.intent] \in Started
      /\ st = "RECEIVED" => intent'[c.intent] = "ANALYZING"
      /\ st = "ANALYZING" => intent'[c.intent] = "PLANNED"
      /\ st = "PLANNED" => intent' = intent
  BY <1>1 DEF PlanIntent, PlanStep, BusinessIntentTransitions, TypeOK, Started
<1>3. /\ Others(q)
      /\ st = "RECEIVED" => pc'[q] = "refresh_intent" /\ call'[q] = c
      /\ st # "RECEIVED" => pc'[q] = "idle"
  BY <1>1, Moved, Finished DEF PlanIntent
<1>4. \A r \in Runs : Exists(r)' => \/ Exists(r) /\ run'[r] = run[r]
                                    \/ run'[r].intent = c.intent
  BY <1>1 DEF PlanIntent, TypeOK, Exists
<1>5. \A i \in Intents : intent'[i] \in {Absent, "RECEIVED"} \cup Started
  BY <1>2 DEF PlanningInv
<1>6. ASSUME NEW i \in Intents, intent'[i] = "ANALYZING"
      PROVE  \E p \in Requests : Moving(p, i)'
  <2>1. CASE i = c.intent /\ st = "RECEIVED"
    BY <1>3, <2>1 DEF Moving
  <2>2. CASE i = c.intent /\ st # "RECEIVED"
    <3>1. st = "PLANNED" /\ intent[i] = "ANALYZING"
      BY <1>1, <1>2, <1>6, <2>2 DEF Started
    <3>2. PICK p \in Requests : Moving(p, i)
      BY <3>1 DEF PlanningInv
    <3>3. p # q
      BY <1>1, <3>1, <3>2 DEF Moving
    <3> QED BY <1>3, <3>2, <3>3 DEF Moving, Others
  <2>3. CASE i # c.intent
    <3>1. intent[i] = "ANALYZING"
      BY <1>2, <1>6, <2>3
    <3>2. PICK p \in Requests : Moving(p, i)
      BY <3>1 DEF PlanningInv
    <3>3. p # q
      BY <2>3, <3>2 DEF Moving
    <3> QED BY <1>3, <3>2, <3>3 DEF Moving, Others
  <2> QED BY <2>1, <2>2, <2>3
<1>7. ASSUME NEW r \in Runs, Exists(r)' PROVE intent'[run'[r].intent] \in Started
  <2>1. CASE run'[r].intent = c.intent
    BY <1>2, <2>1
  <2>2. CASE Exists(r) /\ run'[r] = run[r] /\ run[r].intent # c.intent
    <3>1. run[r].intent \in Intents
      BY <1>1, <2>2 DEF TypeOK, Exists, RunRow
    <3> QED BY <1>2, <2>2, <3>1 DEF PlanningInv
  <2> QED BY <1>4, <1>7, <2>1, <2>2
<1>8. ASSUME NEW p \in Requests, pc'[p] = "plan_intent"
      PROVE  \/ seen'[p].intent = "RECEIVED"
             \/ seen'[p].intent \in Started /\ intent'[call'[p].intent] \in Started
  <2>1. p # q /\ pc[p] = "plan_intent" /\ call'[p] = call[p] /\ seen'[p] = seen[p]
    BY <1>3, <1>8 DEF Others
  <2>2. call[p].intent \in Intents
    BY <2>1 DEF PlanningInv, TypeInv, CallOK
  <2> QED BY <1>2, <2>1, <2>2 DEF PlanningInv
<1> QED BY <1>5, <1>6, <1>7, <1>8 DEF PlanningInv

LEMMA RefreshKeepsPlanning ==
  ASSUME PlanningInv, TypeInv', NEW q \in Requests, RefreshIntent(q)
  PROVE  PlanningInv'
<1>1. /\ TypeOK /\ pc[q] = "refresh_intent" /\ call[q].intent \in Intents
      /\ UNCHANGED <<rows, world>>
  BY DEF PlanningInv, TypeInv, CallOK, RefreshIntent
<1>2. /\ Others(q)
      /\ \/ intent[call[q].intent] = "ANALYZING" /\ pc'[q] = "plan_intent"
            /\ call'[q] = call[q] /\ seen'[q].intent = "ANALYZING"
         \/ intent[call[q].intent] # "ANALYZING" /\ pc'[q] = "idle"
  <2>1. CASE intent[call[q].intent] = "ANALYZING"
    <3>1. Goto(q, "plan_intent") /\ seen' = [seen EXCEPT ![q].intent = "ANALYZING"]
      BY <2>1 DEF RefreshIntent
    <3>2. seen'[q].intent = "ANALYZING"
      BY <1>1, <3>1, SeenUpdated DEF TypeOK, IntentStates
    <3> QED BY <1>1, <2>1, <3>1, <3>2 DEF Goto, TypeOK, Others
  <2>2. CASE intent[call[q].intent] # "ANALYZING"
    BY <1>1, <2>2, Finished DEF RefreshIntent
  <2> QED BY <2>1, <2>2
<1>3. ASSUME NEW i \in Intents, intent'[i] = "ANALYZING"
      PROVE  \E p \in Requests : Moving(p, i)'
  <2>1. PICK p \in Requests : Moving(p, i)
    BY <1>1, <1>3 DEF PlanningInv, rows
  <2>2. CASE p = q
    BY <1>1, <1>2, <1>3, <2>1, <2>2 DEF Moving, rows
  <2>3. CASE p # q
    BY <1>2, <2>1, <2>3 DEF Moving, Others
  <2> QED BY <2>2, <2>3
<1>4. ASSUME NEW p \in Requests, pc'[p] = "plan_intent"
      PROVE  \/ seen'[p].intent = "RECEIVED"
             \/ seen'[p].intent \in Started /\ intent'[call'[p].intent] \in Started
  BY <1>1, <1>2, <1>4 DEF PlanningInv, Others, rows, Started
<1> QED BY <1>1, <1>3, <1>4 DEF PlanningInv, rows, Exists

\* The other steps leave every intent alone: a run's intent is not yet in
\* execution, so no decision may send it to review.
LEMMA OtherStepsKeepPlanning ==
  ASSUME PlanningInv, TypeInv', NEW q \in Requests, ServeRequest(q),
         ~ PlanIntent(q), ~ RefreshIntent(q)
  PROVE  PlanningInv'
<1>1. TypeInv /\ TypeOK
  BY DEF PlanningInv, TypeInv
<1>2. UNCHANGED intent
  <2>1. CASE Decide(q)
    <3>1. Exists(call[q].run) /\ call[q].run \in Runs
      BY <1>1, <2>1 DEF TypeInv, CallOK, Decide, Calls
    <3>2. "READY_FOR_REVIEW" \notin BusinessIntentTransitions(intent[run[call[q].run].intent])
      BY <3>1 DEF PlanningInv, Started, BusinessIntentTransitions
    <3> QED BY <2>1, <3>2 DEF Decide
  <2>2. CASE ~ Decide(q)
    BY <2>2 DEF ServeRequest, AssertEngineering, AssertInfrastructure, PickEngineering,
     Lookup, Insert, SendAnswered, SendReplyLost, SendRefused, SendGarbled, MarkSent, MarkFailed, Mark,
     ReadStage, Advance, AnswerError, Store, ReadResults, ReadLatest, rows
  <2> QED BY <2>1, <2>2
<1>3. Others(q)
  BY <1>1, ServeMoves
<1>4. /\ pc[q] \notin {"plan_intent", "refresh_intent"}
      /\ pc'[q] # "plan_intent"
  BY <1>1, Moved, Finished
     DEF ServeRequest, AssertEngineering, AssertInfrastructure, PickEngineering,
     Lookup, Insert, AfterInsert, SendAnswered, SendReplyLost, SendRefused, SendGarbled, MarkSent, MarkFailed,
     ReadStage, Advance, AnswerError, Store, ReadResults, ReadLatest, Decide, Goto, TypeOK, Uncaught
<1>5. \A r \in Runs : Exists(r)' => Exists(r) /\ run'[r].intent = run[r].intent
  BY <1>1, RunsKeepIntent
<1> QED BY <1>2, <1>3, <1>4, <1>5, UnplannedStep

LEMMA SurroundingsKeepPlanning ==
  ASSUME PlanningInv, TypeInv',
         \/ \E i \in Intents : CreateIntent(i)
         \/ \E r \in Runs : QaProgress(r)
         \/ UNCHANGED vars
  PROVE  PlanningInv'
<1>1. ASSUME NEW i \in Intents, CreateIntent(i) PROVE PlanningInv'
  <2>1. /\ TypeOK /\ UNCHANGED <<run, threads>>
        /\ intent[i] = Absent /\ intent' = [intent EXCEPT ![i] = "RECEIVED"]
    BY <1>1 DEF PlanningInv, TypeInv, CreateIntent
  <2>2. \A j \in Intents : intent'[j] = IF j = i THEN "RECEIVED" ELSE intent[j]
    BY <2>1 DEF TypeOK
  <2>3. \A j \in Intents : intent[j] \in Started => intent'[j] \in Started
    BY <2>1, <2>2 DEF Started, Absent
  <2>4. ASSUME NEW r \in Runs, Exists(r)' PROVE intent'[run'[r].intent] \in Started
    <3>1. Exists(r) /\ run[r].intent \in Intents
      BY <2>1, <2>4 DEF TypeOK, Exists, RunRow
    <3> QED BY <2>1, <2>3, <3>1 DEF PlanningInv
  <2>5. ASSUME NEW p \in Requests, pc'[p] = "plan_intent"
        PROVE  \/ seen'[p].intent = "RECEIVED"
               \/ seen'[p].intent \in Started /\ intent'[call'[p].intent] \in Started
    <3>1. call[p].intent \in Intents
      BY <2>1, <2>5 DEF PlanningInv, TypeInv, CallOK, threads
    <3> QED BY <2>1, <2>3, <2>5, <3>1 DEF PlanningInv, threads
  <2>6. ASSUME NEW j \in Intents, intent'[j] = "ANALYZING"
        PROVE  \E p \in Requests : Moving(p, j)'
    BY <2>1, <2>2, <2>6 DEF PlanningInv, Moving, threads
  <2> QED BY <2>2, <2>4, <2>5, <2>6 DEF PlanningInv
<1>2. ASSUME UNCHANGED <<rows, threads>> PROVE PlanningInv'
  BY <1>2 DEF PlanningInv, Moving, Exists, rows, threads
<1> QED BY <1>1, <1>2 DEF QaProgress, vars

LEMMA PlanningInvNext == PlanningInv /\ [Next]_vars /\ [~ Crash]_vars => PlanningInv'
<1> SUFFICES ASSUME PlanningInv, [Next]_vars, [~ Crash]_vars PROVE PlanningInv'
  OBVIOUS
<1>1. TypeInv'
  BY TypeInvNext DEF PlanningInv
<1>2. ASSUME NEW q \in Requests, ServeRequest(q) PROVE PlanningInv'
  BY <1>1, <1>2, PlanKeepsPlanning, RefreshKeepsPlanning, OtherStepsKeepPlanning
<1>3. CASE UNCHANGED vars
  BY <1>1, <1>3, SurroundingsKeepPlanning
<1> QED BY <1>1, <1>2, <1>3, BeginKeepsPlanning, SurroundingsKeepPlanning DEF Next

\* While the service does not stop in the middle of a request, an intent that has
\* a run is PLANNED whenever every request is answered, however many calls of
\* create_run carried it back to ANALYZING on the way.
THEOREM IntentsSettle == Spec /\ [][~ Crash]_vars => []IntentSettlesPlanned
<1>1. PlanningInv => IntentSettlesPlanned
  BY DEF PlanningInv, IntentSettlesPlanned, Moving, Started, TypeInv, TypeOK, RunRow, Exists
<1>2. Spec /\ [][~ Crash]_vars => []PlanningInv
  BY InitPlanningInv, PlanningInvNext, PTL DEF Spec
<1> QED BY <1>1, <1>2, PTL

-----------------------------------------------------------------------------
(* When the requests about one run are served one at a time *)

\* Requests about different runs, and those that share an intent, interleave
\* freely; at most one is in flight for each run.
OnePerRun ==
  \A p, q \in Requests :
    pc[p] # "idle" /\ pc[q] # "idle" /\ call[p].run = call[q].run => p = q

\* What a request has checked or read of its run is still so.
InTurn(q) ==
  LET c == call[q]  r == call[q].run IN
  /\ pc[q] \in ReadSteps => seen[q].status = run[r].status /\ seen[q].stage = run[r].stage
  /\ pc[q] = "advance" => MayAdvance(run[r].stage, SpecialistOf(c.kind))
  /\ c.kind \in Downstream =>
       /\ pc[q] \in {"assert_infrastructure", "pick_engineering", "lookup", "insert"} =>
            latest[r]["ENGINEERING"].status # "FAILED"
       /\ pc[q] \in {"lookup", "insert"} => latest[r]["ENGINEERING"].status # NoStatus
  /\ pc[q] = "send" /\ c.key = DefaultKey(SpecialistOf(c.kind), r) =>
       Status(SpecialistOf(c.kind), r) = "PENDING"

SerialInv ==
  /\ DispatchInv
  /\ \A q \in Requests : InTurn(q)
  /\ StatusIsLastDecision
  /\ \A r \in Runs : ~ Exists(r) => decision[r] = Absent

\* The code of a decision says which decision it was.
LEMMA CodeTellsDecision == \A in : DecisionOf(ReasonCode(in)) = EvaluateReadiness(in)
<1>1. \A in : ReasonCode(in) # Absent
  BY ReasonTyped DEF ReasonCodes, ReadyCodes, BlockedCodes, Absent
<1> QED BY <1>1 DEF DecisionOf, EvaluateReadiness

LEMMA InitSerialInv == Init => SerialInv
BY InitDispatchInv DEF Init, SerialInv, InTurn, ReadSteps, NoCall, Downstream, StatusIsLastDecision, Exists

\* A request writes no row of a run other than its own.
LEMMA WritesOwnRun ==
  ASSUME DispatchInv, NEW q \in Requests, ServeRequest(q), NEW r \in Runs, r # call[q].run
  PROVE  /\ run'[r] = run[r] /\ latest'[r] = latest[r] /\ decision'[r] = decision[r]
         /\ \A s \in Specialists : Status(s, r)' = Status(s, r)
<1>1. TypeOK /\ CallOK(q) /\ KeyOK(q)
  BY DEF DispatchInv, TypeInv
<1>2. \A s \in Specialists : DefaultKey(s, r) \in Keys
  BY DEF DefaultKey, Keys
<1>3. CASE PlanIntent(q)
  BY <1>1, <1>3 DEF PlanIntent, TypeOK, Status
<1>4. CASE Advance(q)
  BY <1>1, <1>4 DEF Advance, TypeOK, Status
<1>5. CASE Decide(q)
  <2> DEFINE d == EvaluateReadiness(InputsOf(run[call[q].run].assigned, seen[q].reads))
             code == ReasonCode(InputsOf(run[call[q].run].assigned, seen[q].reads))
  <2>1. /\ run' = [run EXCEPT ![call[q].run] = Resolved(@, seen[q], d)]
        /\ decision' = [decision EXCEPT ![call[q].run] = code]
        /\ UNCHANGED <<dispatch, latest>>
    BY <1>5 DEF Decide
  <2> HIDE DEF d, code
  <2> QED BY <1>1, <2>1 DEF TypeOK, Status
<1>6. CASE Store(q)
  BY <1>1, <1>6 DEF Store, TypeOK, Status
<1>7. CASE Insert(q) \/ MarkSent(q) \/ MarkFailed(q)
  <2>1. \A s \in Specialists : call[q].key # DefaultKey(s, r)
    BY <1>1, <1>7 DEF KeyOK, Insert, MarkSent, MarkFailed, DispatchSteps
  <2>2. \A k \in Keys : k # call[q].key => dispatch'[k] = dispatch[k]
    BY <1>1, <1>7 DEF Insert, MarkSent, MarkFailed, Mark, TypeOK
  <2>3. UNCHANGED <<run, latest, decision>>
    BY <1>7 DEF Insert, MarkSent, MarkFailed, Mark
  <2> QED BY <1>2, <2>1, <2>2, <2>3 DEF Status
<1>8. CASE ~ (PlanIntent(q) \/ Advance(q) \/ Decide(q) \/ Store(q)
              \/ Insert(q) \/ MarkSent(q) \/ MarkFailed(q))
  <2>1. UNCHANGED <<run, latest, decision, dispatch>>
    BY <1>8 DEF ServeRequest, RefreshIntent, AssertEngineering, AssertInfrastructure, PickEngineering,
       Lookup, SendAnswered, SendReplyLost, SendRefused, SendGarbled, ReadStage, AnswerError, ReadResults,
       ReadLatest, rows
  <2> QED BY <2>1 DEF Status
<1> QED BY <1>3, <1>4, <1>5, <1>6, <1>7, <1>8

\* So what the other requests know of their runs stays so.
LEMMA OthersInTurn ==
  ASSUME SerialInv, OnePerRun, NEW q \in Requests, ServeRequest(q), NEW p \in Requests \ {q}
  PROVE  InTurn(p)'
<1>1. /\ DispatchInv /\ TypeInv /\ InTurn(p) /\ CallOK(p)
      /\ pc'[p] = pc[p] /\ call'[p] = call[p] /\ seen'[p] = seen[p]
  BY ServeMoves DEF SerialInv, DispatchInv, TypeInv, Others
<1>2. pc[q] # "idle"
  BY DEF ServeRequest, PlanIntent, RefreshIntent, AssertEngineering, AssertInfrastructure, PickEngineering,
     Lookup, Insert, SendAnswered, SendReplyLost, SendRefused, SendGarbled, MarkSent, MarkFailed, ReadStage,
     Advance, AnswerError, Uncaught, Store, ReadResults, ReadLatest, Decide
<1>3. CASE pc[p] = "idle"
  BY <1>1, <1>3 DEF InTurn, ReadSteps, CallOK, NoCall, Downstream
<1>4. CASE pc[p] # "idle"
  <2>1. call[p].run \in Runs /\ call[p].run # call[q].run
    BY <1>1, <1>2, <1>4 DEF CallOK, Calls, OnePerRun
  <2>2. /\ run'[call[p].run] = run[call[p].run] /\ latest'[call[p].run] = latest[call[p].run]
        /\ \A s \in Specialists : Status(s, call[p].run)' = Status(s, call[p].run)
    BY <1>1, <2>1, WritesOwnRun
  <2>3. pc[p] = "send" => SpecialistOf(call[p].kind) \in Specialists
    BY <1>1, SpecialistOfKind DEF CallOK, DispatchSteps
  <2> QED BY <1>1, <2>2, <2>3 DEF InTurn
<1> QED BY <1>3, <1>4

LEMMA BeginsInTurn ==
  ASSUME SerialInv, NEW q \in Requests, BeginRequest(q)
  PROVE  InTurn(q)'
<1>1. /\ TypeInv /\ TypeOK
  BY DEF SerialInv, DispatchInv, TypeInv
<1>2. PICK label \in PCs, c \in Calls, s \in Seen : Begin(q, label, c, s) /\ Fits(label, c, s)
  BY <1>1, BeginRequestFits
<1>3. /\ UNCHANGED <<rows, world>>
      /\ pc'[q] = label /\ call'[q] = c /\ seen'[q] = s
  BY <1>1, <1>2, Begun
<1>4. label \in {"plan_intent", "lookup", "assert_engineering", "store", "read_engineering"}
  BY <1>2 DEF Fits
<1>5. ASSUME label = "lookup" PROVE c.kind \notin Downstream
  <2>1. BeginDispatchEngineering(q) \/ BeginDispatchPm(q)
    BY <1>1, <1>3, <1>5 DEF TypeOK, BeginRequest, Begin, BeginCreateRun, BeginDownstream,
       ExecuteEngineering, RefreshQaResult, RefreshPmStatus, BeginResult, BeginReadiness
  <2>2. \A kind, r, k, p : DispatchCall(kind, r, k, p).kind = kind
    BY DEF DispatchCall, NoCall
  <2>3. call'[q].kind \in {"dispatch_engineering", "dispatch_pm"}
    BY <1>1, <2>1, <2>2 DEF TypeOK, BeginDispatchEngineering, BeginDispatchPm, Begin
  <2> QED BY <1>3, <2>3 DEF Downstream
<1>6. ASSUME label = "read_engineering"
      PROVE  s.status = run[c.run].status /\ s.stage = run[c.run].stage
  <2>1. BeginReadiness(q)
    BY <1>1, <1>3, <1>6 DEF TypeOK, BeginRequest, Begin, BeginCreateRun, BeginDownstream,
       BeginDispatchEngineering, BeginDispatchPm, ExecuteEngineering, RefreshQaResult, RefreshPmStatus,
       BeginResult
  <2>2. PICK r \in Runs :
          /\ call'[q] = [NoCall EXCEPT !.kind = "compute_readiness", !.run = r]
          /\ seen'[q] = [Nothing EXCEPT !.stage = run[r].stage, !.status = run[r].status]
    BY <1>1, <2>1 DEF TypeOK, BeginReadiness, Begin
  <2> QED BY <1>3, <2>2 DEF NoCall, Nothing
<1> QED BY <1>3, <1>4, <1>5, <1>6 DEF InTurn, ReadSteps, rows

\* Each check of a request holds once it has been made.
LEMMA ChecksHold ==
  ASSUME SerialInv, NEW q \in Requests, ServeRequest(q)
  PROVE  InTurn(q)'
<1>1. /\ DispatchInv /\ TypeInv /\ TypeOK /\ InTurn(q) /\ CallOK(q) /\ KeyOK(q)
  BY DEF SerialInv, DispatchInv, TypeInv
<1>2. CASE pc'[q] \notin ReadSteps \cup {"advance", "assert_infrastructure", "pick_engineering",
                                         "lookup", "insert", "send"}
  BY <1>2 DEF InTurn
<1>3. CASE AssertEngineering(q) \/ AssertInfrastructure(q)
  BY <1>1, <1>3, Moved, Finished
     DEF AssertEngineering, AssertInfrastructure, HardFailed, InTurn, ReadSteps, rows
<1>4. CASE PickEngineering(q)
  <2>1. CASE Finish(q)
    BY <1>1, <1>2, <2>1, Finished DEF ReadSteps
  <2>2. CASE ~ Finish(q)
    <3>1. /\ pc[q] = "pick_engineering" /\ pc'[q] = "lookup" /\ call'[q] = call[q] /\ UNCHANGED rows
          /\ latest[call[q].run]["ENGINEERING"] # NoResult
      BY <1>1, <1>4, <2>2, Moved DEF PickEngineering
    <3>2. latest[call[q].run]["ENGINEERING"] \in Results
      BY <1>1, <3>1 DEF CallOK, Calls, TypeOK, Reads, Specialists
    <3>3. \A x \in Results : x.status # NoStatus
      BY DEF Results, Result, Specialists, EngineeringStatuses, InfrastructureStatuses, QualityGates,
         PmStatuses, NoStatus
    <3> QED BY <1>1, <3>1, <3>2, <3>3 DEF InTurn, ReadSteps, rows
  <2> QED BY <2>1, <2>2
<1>5. CASE Lookup(q)
  <2>1. CASE Goto(q, "insert") /\ UNCHANGED seen
    BY <1>1, <1>5, <2>1, Moved DEF Lookup, InTurn, ReadSteps, rows
  <2>2. CASE Goto(q, "send") /\ UNCHANGED seen
    <3>1. /\ pc'[q] = "send" /\ call'[q] = call[q] /\ UNCHANGED rows
      BY <1>1, <1>5, <2>2, Moved DEF Lookup
    <3>2. dispatch[call[q].key].status = "PENDING"
      BY <1>1, <1>5, <2>2, <3>1, Finished DEF Lookup, MustSend, Goto, TypeOK
    <3> QED BY <3>1, <3>2 DEF InTurn, ReadSteps, rows, Status
  <2>3. CASE Finish(q) \/ (Goto(q, "IdempotencyConflictError") /\ UNCHANGED seen)
    BY <1>1, <1>2, <2>3, Moved, Finished DEF ReadSteps
  <2> QED BY <1>5, <2>1, <2>2, <2>3 DEF Lookup
<1>6. CASE Insert(q)
  <2>1. CASE pc'[q] = "send"
    <3>1. /\ call'[q] = call[q] /\ call[q].key \in Keys
          /\ dispatch' = [dispatch EXCEPT ![call[q].key] =
                 [status |-> "PENDING", run |-> call[q].run, payload |-> call[q].payload]]
      BY <1>1, <1>6, <2>1, Moved DEF Insert, CallOK, DispatchSteps
    <3> QED BY <1>1, <2>1, <3>1 DEF InTurn, ReadSteps, Status, TypeOK
  <2>2. CASE pc'[q] # "send"
    BY <1>1, <1>2, <1>6, <2>2, Moved DEF Insert, AfterInsert, ReadSteps
  <2> QED BY <2>1, <2>2
<1>7. CASE ReadStage(q)
  <2>1. /\ pc'[q] \in {"advance", "InvalidTransitionError"} /\ call'[q] = call[q] /\ UNCHANGED rows
        /\ pc'[q] = "advance" => MayAdvance(run[call[q].run].stage, SpecialistOf(call[q].kind))
    BY <1>1, <1>7, Moved DEF ReadStage
  <2> QED BY <2>1 DEF InTurn, ReadSteps, rows
<1>8. CASE ReadResults(q)
  <2>1. PICK s \in Specialists :
          /\ pc[q] \in ReadSteps
          /\ seen' = [seen EXCEPT ![q].reads[s] = latest[call[q].run][s]]
          /\ pc'[q] \in ReadSteps /\ UNCHANGED <<call, rows>>
    BY <1>1, <1>8 DEF ReadResults, ReadLatest, Specialists, Goto, TypeOK, ReadSteps
  <2>2. seen'[q].status = seen[q].status /\ seen'[q].stage = seen[q].stage
    BY <1>1, <2>1 DEF TypeOK, Seen
  <2> QED BY <1>1, <2>1, <2>2 DEF InTurn, ReadSteps, rows
<1>9. CASE \/ PlanIntent(q) \/ RefreshIntent(q)
           \/ SendAnswered(q) \/ SendReplyLost(q) \/ SendRefused(q) \/ SendGarbled(q)
           \/ MarkSent(q) \/ MarkFailed(q) \/ Advance(q) \/ AnswerError(q) \/ Store(q) \/ Decide(q)
  <2>1. pc'[q] \notin ReadSteps \cup {"advance", "assert_infrastructure", "pick_engineering",
                                      "lookup", "insert", "send"}
    BY <1>1, <1>9, Finished
       DEF PlanIntent, RefreshIntent, SendAnswered, SendReplyLost, SendRefused, SendGarbled, MarkSent,
           MarkFailed, Advance, AnswerError, Store, Decide, Goto, TypeOK, ReadSteps
  <2> QED BY <1>2, <2>1
<1> QED BY <1>3, <1>4, <1>5, <1>6, <1>7, <1>8, <1>9 DEF ServeRequest

\* A row and its decision: what each step of a request makes of them.
LEMMA StatusFollows ==
  ASSUME SerialInv, NEW q \in Requests, ServeRequest(q)
  PROVE  /\ StatusIsLastDecision'
         /\ \A r \in Runs : ~ Exists(r)' => decision'[r] = Absent
<1>1. /\ DispatchInv /\ TypeInv /\ TypeOK /\ InTurn(q) /\ CallOK(q)
      /\ \A r \in Runs : (Exists(r) => run[r].status = DecisionOf(decision[r]))
                         /\ (~ Exists(r) => decision[r] = Absent)
  BY DEF SerialInv, DispatchInv, TypeInv, StatusIsLastDecision
<1>2. SUFFICES ASSUME NEW r \in Runs
               PROVE  /\ Exists(r)' => run'[r].status = DecisionOf(decision'[r])
                      /\ ~ Exists(r)' => decision'[r] = Absent
  BY DEF StatusIsLastDecision
<1>3. CASE PlanIntent(q)
  <2>1. /\ UNCHANGED decision
        /\ \/ run'[r] = run[r]
           \/ ~ Exists(r) /\ run'[r].status = "IN_PROGRESS" /\ run'[r].stage = "PLAN"
    BY <1>1, <1>3 DEF PlanIntent, TypeOK
  <2>2. "PLAN" # NoRun.stage
    BY DEF NoRun, Absent
  <2> QED BY <1>1, <2>1, <2>2 DEF Exists, DecisionOf, ReadyCodes, Absent
<1>4. CASE Advance(q)
  <2>1. Exists(call[q].run) /\ call[q].run \in Runs
    BY <1>1, <1>4 DEF Advance, CallOK, StageSteps, Calls
  <2>2. run'[r].status = run[r].status /\ UNCHANGED decision
    BY <1>1, <1>4 DEF Advance, TypeOK, RunRow, NoRun
  <2>3. Exists(r)' => Exists(r)
    BY <1>1, <1>4, <2>1 DEF Advance, TypeOK, Exists
  <2>4. Exists(r) => Exists(r)'
    BY <1>1, RunsKeepAssignment, <1>4 DEF Next, ServeRequest
  <2> QED BY <1>1, <2>2, <2>3, <2>4
<1>5. CASE Decide(q)
  <2> DEFINE in == InputsOf(run[call[q].run].assigned, seen[q].reads)
             d == EvaluateReadiness(in)
             code == ReasonCode(in)
  <2>1. /\ run' = [run EXCEPT ![call[q].run] = Resolved(@, seen[q], d)]
        /\ decision' = [decision EXCEPT ![call[q].run] = code]
        /\ pc[q] = "decide"
    BY <1>5 DEF Decide
  <2>2. /\ call[q].run \in Runs /\ Exists(call[q].run)
        /\ seen[q].status = run[call[q].run].status
    BY <1>1, <2>1 DEF CallOK, Calls, InTurn, ReadSteps
  <2>3. DecisionOf(code) = d
    BY CodeTellsDecision
  <2>4. Exists(r) => Exists(r)'
    BY <1>1, RunsKeepAssignment, <1>5 DEF Next, ServeRequest
  <2> HIDE DEF in, d, code
  <2>5. CASE r = call[q].run
    <3>1. run[r] \in RunRow
      BY <1>1, <2>2, <2>5 DEF TypeOK, Exists
    <3>2. run'[r] = Resolved(run[r], seen[q], d) /\ decision'[r] = code
      BY <1>1, <2>1, <2>5 DEF TypeOK
    <3>3. run'[r].status = d
      BY <2>2, <2>5, <3>1, <3>2 DEF Resolved, RunRow
    <3> QED BY <2>2, <2>3, <2>4, <2>5, <3>2, <3>3
  <2>6. CASE r # call[q].run
    <3>1. run'[r] = run[r] /\ decision'[r] = decision[r]
      BY <1>1, <2>1, <2>6 DEF TypeOK
    <3> QED BY <1>1, <3>1 DEF Exists
  <2> QED BY <2>5, <2>6
<1>6. CASE ~ PlanIntent(q) /\ ~ Advance(q) /\ ~ Decide(q)
  <2>1. UNCHANGED <<run, decision>>
    BY <1>6 DEF ServeRequest, RefreshIntent, AssertEngineering, AssertInfrastructure, PickEngineering,
       Lookup, Insert, SendAnswered, SendReplyLost, SendRefused, SendGarbled, MarkSent, MarkFailed, Mark,
       ReadStage, AnswerError, Store, ReadResults, ReadLatest, rows
  <2> QED BY <1>1, <2>1 DEF Exists
<1> QED BY <1>3, <1>4, <1>5, <1>6

LEMMA SerialInvNext == SerialInv /\ [Next]_vars /\ OnePerRun => SerialInv'
<1> SUFFICES ASSUME SerialInv, [Next]_vars, OnePerRun PROVE SerialInv'
  OBVIOUS
<1>1. DispatchInv'
  BY DispatchInvNext DEF SerialInv
<1>2. ASSUME NEW q \in Requests, ServeRequest(q) PROVE SerialInv'
  BY <1>1, <1>2, OthersInTurn, ChecksHold, StatusFollows DEF SerialInv
<1>3. ASSUME NEW q \in Requests, BeginRequest(q) PROVE SerialInv'
  <2>1. Others(q) /\ UNCHANGED rows
    BY <1>3, BeginMoves DEF SerialInv, DispatchInv
  <2>2. \A p \in Requests \ {q} : InTurn(p)'
    BY <2>1 DEF SerialInv, Others, InTurn, Status, rows
  <2> QED BY <1>1, <1>3, <2>1, <2>2, BeginsInTurn DEF SerialInv, StatusIsLastDecision, Exists, rows
<1>4. ASSUME UNCHANGED <<run, dispatch, latest, decision, threads>> PROVE SerialInv'
  BY <1>1, <1>4 DEF SerialInv, InTurn, Status, StatusIsLastDecision, Exists, threads
<1>5. CASE Crash
  BY <1>1, <1>5 DEF Crash, SerialInv, InTurn, ReadSteps, NoCall, Downstream, StatusIsLastDecision, Exists, rows
<1> QED BY <1>2, <1>3, <1>4, <1>5 DEF Next, CreateIntent, QaProgress, vars, rows, threads

LEMMA SerialInvAlways == Spec /\ []OnePerRun => []SerialInv
BY InitSerialInv, SerialInvNext, PTL DEF Spec

\* The status column agrees with the newest decision as long as the requests about
\* one run are served one at a time, whatever happens meanwhile to other runs and
\* whenever the service stops.
THEOREM StatusFollowsDecision == Spec /\ []OnePerRun => []StatusIsLastDecision
<1>1. SerialInv => StatusIsLastDecision
  BY DEF SerialInv
<1> QED BY <1>1, SerialInvAlways, PTL

LEMMA StageNeverBack ==
  ASSUME SerialInv, [Next]_vars, NEW r \in Runs
  PROVE  StageRank(run[r].stage) <= StageRank(run'[r].stage)
<1>1. /\ DispatchInv /\ TypeInv /\ TypeOK /\ run[r].stage \in RunStages \cup {Absent}
      /\ \A q \in Requests : InTurn(q) /\ CallOK(q)
  BY DEF SerialInv, DispatchInv, TypeInv, TypeOK, RunRow, NoRun
<1>2. /\ \A stage \in RunStages \cup {Absent} :
           /\ StageRank(stage) <= StageRank(stage)
           /\ StageRank(stage) <= StageRank("COMPLETE")
           /\ \A target \in RunStages : MayAdvance(stage, target) => StageRank(stage) <= StageRank(target)
      /\ StageRank(Absent) <= StageRank("PLAN")
  BY DEF StageRank, RunStages, Absent, MayAdvance, RunStageTransitions
<1>3. ASSUME NEW q \in Requests, PlanIntent(q)
      PROVE  run'[r] = run[r] \/ (run[r].stage = Absent /\ run'[r].stage = "PLAN")
  BY <1>1, <1>3 DEF PlanIntent, TypeOK, Exists, NoRun
<1>4. ASSUME NEW q \in Requests, Advance(q)
      PROVE  run'[r] = run[r] \/ (run'[r].stage \in RunStages /\ MayAdvance(run[r].stage, run'[r].stage))
  <2>1. /\ call[q].run \in Runs /\ SpecialistOf(call[q].kind) \in RunStages /\ Exists(call[q].run)
        /\ MayAdvance(run[call[q].run].stage, SpecialistOf(call[q].kind))
    BY <1>1, <1>4, SpecialistOfKind DEF CallOK, Advance, StageSteps, Calls, InTurn
  <2> QED BY <1>1, <1>4, <2>1 DEF Advance, TypeOK, Exists, RunRow
<1>5. ASSUME NEW q \in Requests, Decide(q)
      PROVE  run'[r].stage \in {run[r].stage, "COMPLETE"}
  <2> DEFINE d == EvaluateReadiness(InputsOf(run[call[q].run].assigned, seen[q].reads))
  <2>1. run' = [run EXCEPT ![call[q].run] = Resolved(@, seen[q], d)]
    BY <1>5 DEF Decide
  <2>2. call[q].run \in Runs /\ run[call[q].run] \in RunRow
    BY <1>1, <1>5 DEF CallOK, Decide, Calls, TypeOK, Exists
  <2> HIDE DEF d
  <2>3. Resolved(run[call[q].run], seen[q], d).stage \in {run[call[q].run].stage, "COMPLETE"}
    BY <2>2 DEF Resolved, RunRow
  <2> QED BY <1>1, <2>1, <2>2, <2>3 DEF TypeOK
<1>6. ASSUME NEW q \in Requests, BeginRequest(q) PROVE run' = run
  BY <1>1, <1>6, BeginMoves DEF rows
<1>7. ASSUME NEW q \in Requests, ServeRequest(q), ~ PlanIntent(q), ~ Advance(q), ~ Decide(q)
      PROVE  run' = run
  BY <1>7 DEF ServeRequest, RefreshIntent, AssertEngineering, AssertInfrastructure, PickEngineering,
     Lookup, Insert, SendAnswered, SendReplyLost, SendRefused, SendGarbled, MarkSent, MarkFailed, Mark,
     ReadStage, AnswerError, Store, ReadResults, ReadLatest, rows
<1>8. ASSUME \/ \E i \in Intents : CreateIntent(i)
             \/ \E x \in Runs : QaProgress(x)
             \/ Crash
             \/ UNCHANGED vars
      PROVE  run' = run
  BY <1>8 DEF CreateIntent, QaProgress, Crash, vars, rows
<1> QED BY <1>1, <1>2, <1>3, <1>4, <1>5, <1>6, <1>7, <1>8 DEF Next

\* The stage of a run never goes back as long as its requests are served one at a
\* time: the transition that advance_stage checked is the one it makes.
THEOREM StageMovesForward == Spec /\ []OnePerRun => StageNeverRetreats
<1>1. SerialInv /\ [Next]_vars =>
        [\A r \in Runs : StageRank(run[r].stage) <= StageRank(run'[r].stage)]_vars
  BY StageNeverBack
<1> QED BY <1>1, SerialInvAlways, PTL DEF Spec, StageNeverRetreats

\* Dispatch rows are registered by Insert alone.
LEMMA RegisteredByInsert ==
  ASSUME DispatchInv, [Next]_vars, NEW s \in Specialists, NEW r \in Runs,
         Status(s, r) = Absent, Status(s, r)' # Absent
  PROVE  \E q \in Requests : Insert(q) /\ call[q].key = DefaultKey(s, r)
<1>1. TypeInv /\ TypeOK /\ DefaultKey(s, r) \in Keys
  BY DEF DispatchInv, TypeInv, DefaultKey, Keys
<1>2. ASSUME NEW q \in Requests, MarkSent(q) \/ MarkFailed(q) PROVE FALSE
  <2>1. call[q].key \in Keys /\ dispatch[call[q].key] # NoDispatch
    BY <1>1, <1>2 DEF TypeInv, CallOK, MarkSent, MarkFailed, DispatchSteps
  <2>2. dispatch[call[q].key].status # Absent
    BY <1>1, <2>1 DEF TypeOK, DispatchRow, Absent
  <2>3. call[q].key # DefaultKey(s, r)
    BY <2>2 DEF Status
  <2> QED BY <1>1, <1>2, <2>1, <2>3 DEF MarkSent, MarkFailed, Mark, TypeOK, Status
<1>3. ASSUME NEW q \in Requests, Insert(q) PROVE call[q].key = DefaultKey(s, r)
  BY <1>1, <1>3 DEF Insert, TypeOK, Status
<1>4. ASSUME NEW q \in Requests, BeginRequest(q) PROVE FALSE
  BY <1>1, <1>4, BeginMoves DEF rows, Status
<1>5. ASSUME NEW q \in Requests, ServeRequest(q), ~ Insert(q), ~ MarkSent(q), ~ MarkFailed(q)
      PROVE  FALSE
  BY <1>5 DEF ServeRequest, PlanIntent, RefreshIntent, AssertEngineering, AssertInfrastructure,
     PickEngineering, Lookup, SendAnswered, SendReplyLost, SendRefused, SendGarbled, ReadStage, Advance,
     AnswerError, Store, ReadResults, ReadLatest, Decide, rows, Status
<1>6. ASSUME \/ \E i \in Intents : CreateIntent(i)
             \/ \E x \in Runs : QaProgress(x)
             \/ Crash
             \/ UNCHANGED vars
      PROVE  FALSE
  BY <1>6 DEF CreateIntent, QaProgress, Crash, vars, rows, Status
<1> QED BY <1>2, <1>3, <1>4, <1>5, <1>6 DEF Next

\* No downstream work is registered after an engineering failure, or before any
\* engineering report, as long as the requests of the run are served one at a time:
\* the three checks of a dispatch still hold at its insert.
THEOREM HardFailureStopsDispatch == Spec /\ []OnePerRun => NoDownstreamAfterHardFailure
<1>1. ASSUME SerialInv, [Next]_vars, NEW r \in Runs, NEW s \in {"INFRASTRUCTURE", "QA"},
             Status(s, r) = Absent, Status(s, r)' # Absent
      PROVE  latest[r]["ENGINEERING"].status \notin {"FAILED", NoStatus}
  <2>1. PICK q \in Requests : Insert(q) /\ call[q].key = DefaultKey(s, r)
    BY <1>1, RegisteredByInsert DEF SerialInv, Specialists
  <2>2. /\ pc[q] = "insert" /\ KeyOK(q) /\ InTurn(q) /\ call[q].kind \in DispatchKinds
    BY <1>1, <2>1 DEF Insert, SerialInv, DispatchInv, TypeInv, CallOK, DispatchSteps
  <2>3. SpecialistOf(call[q].kind) = s /\ call[q].run = r
    BY <2>1, <2>2 DEF KeyOK, DispatchSteps, Specialists
  <2>4. call[q].kind \in Downstream
    BY <2>2, <2>3 DEF SpecialistOf, DispatchKinds, Downstream
  <2> QED BY <2>2, <2>3, <2>4 DEF InTurn
<1>2. SerialInv /\ [Next]_vars =>
        [\A r \in Runs, s \in {"INFRASTRUCTURE", "QA"} :
           Status(s, r) = Absent /\ Status(s, r)' # Absent =>
             latest[r]["ENGINEERING"].status \notin {"FAILED", NoStatus}]_vars
  BY <1>1
<1> QED BY <1>2, SerialInvAlways, PTL DEF Spec, NoDownstreamAfterHardFailure

\* Without caller-supplied keys, the packages a specialist receives for a run are
\* sent under the run's own dispatch row.
LEMMA ReceivedWhilePending ==
  ASSUME SerialInv, [Next]_vars, CallerKeys = {}, NEW r \in Runs, NEW s \in Specialists,
         received'[s][r] # received[s][r]
  PROVE  Status(s, r) = "PENDING"
<1>1. DispatchInv /\ TypeInv /\ TypeOK
  BY DEF SerialInv, DispatchInv, TypeInv
<1>2. ASSUME NEW q \in Requests, pc[q] = "send", Accept(q) PROVE Status(s, r) = "PENDING"
  <2>1. /\ CallOK(q) /\ KeyOK(q) /\ InTurn(q)
        /\ call[q].key \in Keys /\ call[q].kind \in DispatchKinds
    BY <1>1, <1>2 DEF SerialInv, DispatchInv, TypeInv, CallOK, DispatchSteps
  <2>2. PICK t \in Specialists, x \in Runs : call[q].key = DefaultKey(t, x)
    BY <2>1 DEF Keys, DefaultKey
  <2>3. SpecialistOf(call[q].kind) = t /\ call[q].run = x
    BY <1>2, <2>1, <2>2 DEF KeyOK, DispatchSteps
  <2>4. Status(t, x) = "PENDING"
    BY <1>2, <2>1, <2>2, <2>3 DEF InTurn
  <2>5. t = s /\ x = r
    BY <1>1, <1>2, <2>3 DEF Accept, TypeOK
  <2> QED BY <2>4, <2>5
<1>3. ASSUME NEW q \in Requests, BeginRequest(q) PROVE FALSE
  BY <1>1, <1>3, BeginMoves DEF world
<1>4. ASSUME NEW q \in Requests, ServeRequest(q), ~ (pc[q] = "send" /\ Accept(q)) PROVE FALSE
  BY <1>4 DEF ServeRequest, PlanIntent, RefreshIntent, AssertEngineering, AssertInfrastructure,
     PickEngineering, Lookup, Insert, SendAnswered, SendReplyLost, SendRefused, SendGarbled, MarkSent,
     MarkFailed, Mark, ReadStage, Advance, AnswerError, Store, ReadResults, ReadLatest, Decide, world
<1>5. ASSUME \/ \E i \in Intents : CreateIntent(i)
             \/ \E x \in Runs : QaProgress(x)
             \/ Crash
             \/ UNCHANGED vars
      PROVE  FALSE
  BY <1>5 DEF CreateIntent, QaProgress, Crash, vars, world
<1> QED BY <1>2, <1>3, <1>4, <1>5 DEF Next

\* A dispatch that is settled, SENT or FAILED, is not sent again as long as the
\* requests of its run are served one at a time and callers bring no keys of their
\* own: a retry of dispatch-engineering under another key is a second package.
THEOREM SettledStaysSettled == CallerKeys = {} => (Spec /\ []OnePerRun => SettledIsNotResent)
<1> SUFFICES ASSUME CallerKeys = {} PROVE Spec /\ []OnePerRun => SettledIsNotResent
  OBVIOUS
<1>1. SerialInv /\ [Next]_vars =>
        [\A r \in Runs, s \in Specialists :
           Status(s, r) \in {"SENT", "FAILED"} => received'[s][r] = received[s][r]]_vars
  BY ReceivedWhilePending
<1> QED BY <1>1, SerialInvAlways, PTL DEF Spec, SettledIsNotResent
=============================================================================
