SPECIFICATION FairSpec
CONSTANTS
  Builds = {"b1", "b2"}
  Hosts = {"h1", "h2"}
  Tags = {"latest", "v1"}
  Suffixes = {"s1", "s2"}
  ParamSet <- SomeParams
INVARIANTS
  TagsNameWholeImages
  VariantsAnchored
  ResultsAgree
  LocalIndexRemoved
PROPERTIES
  ImplementsPublishedTags
  UndisturbedBuildsSucceed
