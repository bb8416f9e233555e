SPECIFICATION Spec
CONSTANTS
  Runs = {"r1", "r2"}
  Hosts = {"h1", "h2"}
  Tags = {"latest", "v1", "v2"}
  PlatformTags = {"arm"}
  PlatformImages <- SomeImages
  ParamSet <- SomeParams
INVARIANTS
  ResultsTrue
  OneManifestPerRun
  NoDanglingTags
