SPECIFICATION PollingSpec
CONSTANTS
  Intents = {i1}
  Runs = {r1}
  Requests = {q1, q2}
  CallerKeys = {}
  Prints = {p1}
  Kinds = {"create_run", "execute_engineering", "dispatch_qa", "refresh_qa_result"}
  Assignments <- Everything
  Outcomes <- Good
  PmReports = {"IN_PROGRESS"}
  Gates = {"PENDING", "APPROVED", "REJECTED"}
  MayCrash = TRUE
PROPERTIES
  QaVerdictArrives
