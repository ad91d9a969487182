\* Up to four tenants of two families, two rounds; the second may be refused.
SPECIFICATION Spec
CONSTANTS
  Families = {f1, f2}
  MinimumKs = {1, 3}
  MinSlice = 2
  MaxPerOrgFamily = 2
  OutlierCap = 1
  ClippingF = 2
  RawFailures = {1, 3}
  Epsilon = 2
  TotalEpsilon = 3
  MaxTenants = 4
  MaxRounds = 2
SYMMETRY FamilySymmetry
INVARIANTS
  TypeOK
  FamiliesAreCapped
  EveryTenantIsAccounted
  ReleaseMeetsThresholds
  PaidIsReleased
\* The bound on rounds ends every behaviour.
CHECK_DEADLOCK FALSE
