SPECIFICATION Spec
CONSTANTS
  Hosts <- MCHosts
  Serials = {1, 2}
INVARIANTS
  ConfigOnlyLosesGoProxy
  RpmPackagesPrepared
  RegistrationRemoved
  OwnGitCredentials
  ProxiesAsAllowed
