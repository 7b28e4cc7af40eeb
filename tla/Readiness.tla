------------------------------ MODULE Readiness ------------------------------
(***************************************************************************)
(* The Delivery Readiness policy of Conductor Again: the pure function      *)
(* evaluate_readiness of app/orchestration/readiness.py, which turns the    *)
(* newest report of each specialist into READY_FOR_DELIVERY or NOT_READY    *)
(* and a stable reason code.                                               *)
(***************************************************************************)

\* The value of an input that has not been received (None in the code).
NoStatus == "NONE"

Assignable            == {"engineering", "infrastructure", "qa"}
EngineeringStatuses   == {"SUCCESS", "PARTIAL", "FAILED", "REPAIRED"}
InfrastructureStatuses == {"SUCCESS", "PARTIAL", "FAILED"}
QualityGates          == {"APPROVED", "REJECTED", "PENDING"}

ReadyCodes == {"READY_ALL_REQUIRED_GATES_PASS",
               "READY_WITH_NON_BLOCKING_ENGINEERING_PARTIAL"}

BlockedCodes == {"BLOCKED_ENGINEERING_FAILED", "BLOCKED_ENGINEERING_PARTIAL",
                 "BLOCKED_INFRA_FAILED", "BLOCKED_QA_REJECTED",
                 "BLOCKED_MISSING_REQUIRED_RESULT"}

Decisions == {"READY_FOR_DELIVERY", "NOT_READY"}

\* What the policy reads. PM's status is carried by the code's record but the
\* policy never reads it, so it is not a field here.
ReadinessInputs ==
  [assigned : SUBSET Assignable,
   eng      : EngineeringStatuses \cup {NoStatus},
   blocking : BOOLEAN,
   infra    : InfrastructureStatuses \cup {NoStatus},
   qa       : QualityGates \cup {NoStatus}]

-----------------------------------------------------------------------------

\* A specialist is assigned and has sent nothing.
MissingResult(in) ==
  \/ "engineering" \in in.assigned /\ in.eng = NoStatus
  \/ "infrastructure" \in in.assigned /\ in.infra = NoStatus
  \/ "qa" \in in.assigned /\ in.qa = NoStatus

\* A gate holds when its specialist is not assigned or reports a status in ok.
GatePasses(in, specialist, status, ok) ==
  specialist \in in.assigned => status \in ok

\* The branch for a PARTIAL engineering result that does not block.
CaveatPasses(in) ==
  /\ in.eng = "PARTIAL"
  /\ ~ in.blocking
  /\ GatePasses(in, "infrastructure", in.infra, {"SUCCESS", "PARTIAL"})
  /\ GatePasses(in, "qa", in.qa, {"APPROVED"})

AllGatesPass(in) ==
  /\ GatePasses(in, "engineering", in.eng, {"SUCCESS", "REPAIRED"})
  /\ GatePasses(in, "infrastructure", in.infra, {"SUCCESS"})
  /\ GatePasses(in, "qa", in.qa, {"APPROVED"})

\* Mutants: a gate that is consulted for assigned specialists only.
FailedWhenAssigned(in)  == "engineering" \in in.assigned /\ in.eng = "FAILED"
PendingWhenAssigned(in) == "qa" \in in.assigned /\ in.qa = "PENDING"

\* Bad news counts even from a specialist the work package does not assign.
EngineeringFailed(in) == in.eng = "FAILED"
QaUndecided(in)       == in.qa = "PENDING"

\* The branches, in the order the code tries them.
ReasonCode(in) ==
  IF MissingResult(in)                    THEN "BLOCKED_MISSING_REQUIRED_RESULT"
  ELSE IF EngineeringFailed(in)           THEN "BLOCKED_ENGINEERING_FAILED"
  ELSE IF in.eng = "PARTIAL" /\ in.blocking THEN "BLOCKED_ENGINEERING_PARTIAL"
  ELSE IF in.infra = "FAILED"             THEN "BLOCKED_INFRA_FAILED"
  ELSE IF in.qa = "REJECTED"              THEN "BLOCKED_QA_REJECTED"
  ELSE IF QaUndecided(in)                 THEN "BLOCKED_MISSING_REQUIRED_RESULT"
  ELSE IF CaveatPasses(in)                THEN "READY_WITH_NON_BLOCKING_ENGINEERING_PARTIAL"
  ELSE IF AllGatesPass(in)                THEN "READY_ALL_REQUIRED_GATES_PASS"
  ELSE "BLOCKED_MISSING_REQUIRED_RESULT"

EvaluateReadiness(in) ==
  IF ReasonCode(in) \in ReadyCodes THEN "READY_FOR_DELIVERY" ELSE "NOT_READY"
=============================================================================
