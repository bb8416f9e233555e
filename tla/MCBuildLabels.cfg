SPECIFICATION LabelsSpec
CONSTANTS
  Parameters <- MCParameters
  Fields <- MCFields
  Parses <- MCParses
  Cases <- MCCases
  LabelOf <- MCLabelOf
  BaseLabels <- MCBaseLabels
INVARIANTS
  ParamsAsMeant
  LabelsDescribeImage
  UserValuesWin
