SPECIFICATION Spec
CONSTANTS
  b1 = b1
  b2 = b2
  Builds = {b1, b2}
  ParamSet <- SomeParams
SYMMETRY Symmetry
INVARIANTS
  NothingLeft
  MountsExist
  BuildSeesEdits
  OwnEntitlements
