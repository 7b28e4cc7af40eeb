SPECIFICATION Spec
CONSTANTS
  Intents = {i1}
  Runs = {r1, r2}
  Requests = {q1, q2}
  CallerKeys = {}
  Prints = {p1}
  Kinds = {"create_run", "dispatch_pm", "refresh_pm_status"}
  Assignments <- Everything
  Outcomes <- GoodBad
  PmReports = {"IN_PROGRESS"}
  Gates = {"PENDING", "APPROVED"}
  MayCrash = FALSE
SYMMETRY ThreadSymmetry
INVARIANTS
  SentWasReceived
  IntentSettlesPlanned
