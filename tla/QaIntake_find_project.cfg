SPECIFICATION Spec
CONSTANTS
  k1 = k1  k2 = k2  k3 = k3  k4 = k4
  i1 = i1  i2 = i2  i3 = i3  i4 = i4
  w1 = w1  w2 = w2  t1 = t1  t2 = t2  b1 = b1  b2 = b2
  Keys = {k1, k2, k3, k4}
  Ids = {i1, i2, i3, i4}
  WorkPackages = {w1, w2}
  Tenants = {t1, t2}
  Bases = {b1, b2}
  BaseSlug <- TwoBases
  Deliveries <- TwoPackages
  Requests = {q1}
  MaxSuffix = 1
  MaxId = 3
  MaxCycles = 2
  MaxAttempts = 1
  MayCrash = FALSE
  MayDelete = TRUE
INVARIANT OneProjectPerWorkPackage
