SPECIFICATION Spec
CONSTANTS
  Intents = {i1}
  Runs = {r1}
  Requests = {q1}
  CallerKeys = {}
  Prints = {p1}
  Kinds = {"create_run", "dispatch_engineering", "execute_engineering", "dispatch_infrastructure", "dispatch_qa", "refresh_qa_result", "compute_readiness"}
  Assignments <- Everything
  Outcomes <- GoodBad
  PmReports = {"IN_PROGRESS"}
  Gates = {"PENDING", "APPROVED"}
  MayCrash = TRUE
INVARIANTS
  TypeOK
  StatusIsLastDecision
PROPERTIES
  StageNeverRetreats
  NoDownstreamAfterHardFailure
  SettledIsNotResent
