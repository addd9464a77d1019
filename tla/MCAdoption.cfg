SPECIFICATION Spec
CONSTANTS
  Proc = {p1, p2}
  Login = {login}
  Instance = {b1, b2}
  None = None
SYMMETRY Symmetries
CHECK_DEADLOCK FALSE
INVARIANTS
  StartingNamesItsLauncher
PROPERTIES
  CollisionSparesHolder
