SPECIFICATION Spec
CONSTANTS
  Intents = {i1}
  Runs = {r1}
  Requests = {q1, q2}
  CallerKeys = {}
  Prints = {p1}
  Kinds = {"create_run", "dispatch_engineering"}
  Assignments <- Everything
  Outcomes <- GoodBad
  PmReports = {"IN_PROGRESS"}
  Gates = {"PENDING", "APPROVED"}
  MayCrash = FALSE
PROPERTIES
  SettledIsNotResent
