SPECIFICATION Spec
CONSTANTS
    Commits = {"c1", "c2"}
    Old = "old"
    Ancestors <- History
    ParamSet <- Clones
INVARIANTS
    ResultsDescribeCheckout
    CredentialsOnlyDuringRun
