SPECIFICATION Spec
CONSTANT ParamSet <- AllParams
INVARIANTS
  NothingLeft
  ReportedIsPushed
  MostSpecificCredentials
