SPECIFICATION Spec
CONSTANTS
  Null = Null
  Unset = Unset
  BrowserName = {"regular", "private"}
  LargestExact = 100
  Files = {}
  Real <- MCReal
  Platform <- MCPlatform
  Proc = {"new", "wide", "old", "far"}
  Build <- MCBuild
  Environments <- MCEnvironments
  Content <- MCContent
  Machine <- MCMachine
INVARIANTS
  StoreIsWhole
  ServesItsStore
PROPERTIES
  UpgradeKeepsQueue
  DoctorExplainsRefusals
