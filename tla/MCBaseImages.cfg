SPECIFICATION Spec
CONSTANTS
  Refs <- AllRefs
  Atoi <- Numbers
  Pullable <- CanPull
  StoredAs <- StoreName
  Archs <- RegistryArchs
  HostArch = "amd64"
  Containerfiles <- SomeContainerfiles
  ParamSet <- SomeParams
INVARIANTS
  CollectsWhatIsNeeded
  PulledAsAsked
  NoEmulation
  LabelsFromPulledBase
