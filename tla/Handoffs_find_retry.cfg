SPECIFICATION HandoffSpec
CONSTANTS
  Handoffs = {h1}
  Couriers = {d1}
  Stamps = {s1, s2}
  MaxProjects = 2
INVARIANT
  RetryIsAccepted
CHECK_DEADLOCK FALSE
