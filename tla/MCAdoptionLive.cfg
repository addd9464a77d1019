SPECIFICATION FairSpec
CONSTANTS
  Proc = {p1, p2}
  Login = {}
  Instance = {b1, b2}
  None = None
CHECK_DEADLOCK FALSE
PROPERTIES
  LaunchSettles
  DeadSessionIsDropped
