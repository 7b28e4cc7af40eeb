SPECIFICATION ServicesSpec
CONSTANTS
  Artifacts = {a1}
  Designs = {a1}
  Contents = {c1, c2}
  Editors = {e1}
  MaxRevisions = 2
  MaxDrafts = 3
  MaxBaselines = 1
  EditorsMayStop = TRUE
  Handoffs = {h1}
  Couriers = {d1, d2}
  Stamps = {s1, s2}
  MaxProjects = 2
  Uploads = {u1, u2}
  Files = {1, 2}
  Quota = 2
  MaxObjects = 2
  Cases = {k1}
  Critical = {k1}
  Reasons = {n1, n2}
  Clients = {p1}
  Runs = {r1, r2}
  Humans = {m1}
  MaxPlans = 2
  Packages = {x1}
  Tasks = {t1, t2}
  Starts = {y1, y2}
  People = {"no name", "ann", "bob"}
  UsageKeys = {i1, i2}
  Callers = {b1, b2}
  MaxUnkeyed = 1
  Clerks = {g1, g2}
  MaxRequests = 1
  MaxDocuments = 1
  Members = {q1, q2}
  Sessions = {z1, z2}
  MaxSubmissions = 2
INVARIANTS
  ServicesTypeOK
  ReadyExactlyWhenEarned
  BaselineBindsConfirmed
  OneCurrentRevision
  RequirementShowsConfirmed
  ReferenceIsReal
  MappedIsPlanned
  AcceptedWithinQuota
  RowHasObject
  PassIsReleased
  ApprovedWasExecuted
  AcceptedAsReviewed
  RefusalLasts
  VerifiedIsEarned
  UsageOncePerKey
  ScopeNeedsSignoff
  CompleteWhenAllSubmitted
PROPERTIES
  WorseEngineeringNeverUnblocks
  ConfirmedIsFrozen
  RelayAckIsFinal
  EndIsFinal
CHECK_DEADLOCK FALSE
