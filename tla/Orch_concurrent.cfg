SPECIFICATION Spec
CONSTANTS
  Intents = {i1}
  Runs = {r1}
  Requests = {q1, q2}
  CallerKeys = {}
  Prints = {p1}
  Kinds = {"create_run", "dispatch_engineering", "execute_engineering", "dispatch_infrastructure", "dispatch_qa", "refresh_qa_result", "compute_readiness"}
  Assignments <- Everything
  Outcomes <- Good
  PmReports = {"IN_PROGRESS"}
  Gates = {"APPROVED"}
  MayCrash = FALSE
SYMMETRY ThreadSymmetry
INVARIANTS
  ReadyIsEarned
  StageHasDispatch
  QaReceivedAtMostOnce
PROPERTIES
  DownstreamOutcomeFinal
