SPECIFICATION FairSpec
CONSTANTS
  Options <- CallSites
  Patterns <- AllPatterns
  Replies <- AllReplies
  MaxFetchAttempts = 5
INVARIANTS
  BoundedWork
  BackoffSchedule
PROPERTIES
  FinalReplyIsReturned
  KeepsRetriedCallPromise
  RunReturns
