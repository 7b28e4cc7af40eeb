---------------------------- MODULE ReadinessWalk ----------------------------
(***************************************************************************)
(* The readiness policy driven by every order of reports: the newest report *)
(* of one specialist changes at each step, as intake_result replaces the    *)
(* row latest_result returns, and the policy is evaluated in every state.   *)
(***************************************************************************)
EXTENDS Readiness, Naturals

VARIABLE inputs

PolicyTypeOK == inputs \in ReadinessInputs

PolicyInit ==
  /\ inputs \in ReadinessInputs
  /\ inputs.eng = NoStatus /\ inputs.infra = NoStatus /\ inputs.qa = NoStatus
  /\ ~ inputs.blocking

\* An EngineeringResult arrives; conductorPolicy.blocking accompanies PARTIAL only.
ReportEngineering ==
  \E s \in EngineeringStatuses, b \in BOOLEAN :
    /\ b => s = "PARTIAL"
    /\ inputs' = [inputs EXCEPT !.eng = s, !.blocking = b]

ReportInfrastructure ==
  \E s \in InfrastructureStatuses : inputs' = [inputs EXCEPT !.infra = s]

\* Mutant: the result's "status" stored where "qualityGate" belongs.
ReportQaStatus ==
  \E g \in {"COMPLETED", "PARTIAL", "FAILED"} : inputs' = [inputs EXCEPT !.qa = g]

ReportQa ==
  \E g \in QualityGates : inputs' = [inputs EXCEPT !.qa = g]

PolicyNext == ReportEngineering \/ ReportInfrastructure \/ ReportQa

PolicySpec == PolicyInit /\ [][PolicyNext]_inputs

-----------------------------------------------------------------------------
Ready(in) == EvaluateReadiness(in) = "READY_FOR_DELIVERY"

\* No specialist, assigned or not, has reported anything that blocks.
NoBlockingReport(in) ==
  /\ in.eng # "FAILED"
  /\ ~ (in.eng = "PARTIAL" /\ in.blocking)
  /\ in.infra # "FAILED"
  /\ in.qa \notin {"REJECTED", "PENDING"}

\* What the assigned specialists must have reported.
AssignedReportsSuffice(in) ==
  /\ "engineering" \in in.assigned => in.eng # NoStatus
  /\ "infrastructure" \in in.assigned => in.infra = "SUCCESS"
  /\ "qa" \in in.assigned => in.qa = "APPROVED"

\* Both reports are PARTIAL: the caveat's comment says "Infra SUCCESS", and its code lets
\* a PARTIAL infrastructure pass (readiness.py:88-90).
CaveatInDispute(in) ==
  "infrastructure" \in in.assigned /\ in.infra = "PARTIAL" /\ in.eng = "PARTIAL"

\* The first-match policy of readiness.py:49-108 is the order-free rule: READY exactly
\* when nothing blocks and every assigned specialist's report suffices ("never an
\* accidental READY", readiness.py:106). Left out is the one case of which the comment
\* and the code of the caveat differ.
ReadyExactlyWhenEarned ==
  ~ CaveatInDispute(inputs) =>
    (Ready(inputs) <=> NoBlockingReport(inputs) /\ AssignedReportsSuffice(inputs))

\* Merit of a report: the higher, the better the news.
EngineeringMerit(in) ==
  CASE in.eng \in {"SUCCESS", "REPAIRED"}      -> 3
    [] in.eng = "PARTIAL" /\ ~ in.blocking     -> 2
    [] in.eng = "PARTIAL" /\ in.blocking       -> 1
    [] in.eng \in {"FAILED", NoStatus}         -> 0

\* A worse engineering report never turns NOT_READY into READY. The PARTIAL
\* infrastructure case is the exception the code makes: with it an engineering
\* SUCCESS is NOT_READY and an engineering PARTIAL is READY (readiness.py:89-101).
WorseEngineeringNeverUnblocks ==
  [][ /\ EngineeringMerit(inputs') < EngineeringMerit(inputs)
      /\ inputs.infra # "PARTIAL"
      /\ ~ Ready(inputs)
      => ~ Ready(inputs') ]_inputs
=============================================================================
