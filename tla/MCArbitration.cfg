SPECIFICATION Spec
CONSTANTS
  Claim = {c1, c2, c3}
  Budget = 2
  LeaseSeconds = 2
  QueueSeconds = 2
  MaxTabs = 1
  Browser = {shared}
  Signable = {shared}
  Login = {p1, p2}
  SignInSeconds = 3
  MaxLaunches = 1
  NoBrowser = NoBrowser
  NoLogin = NoLogin
  NoClaim = NoClaim
SYMMETRY Symmetries
INVARIANTS
  SignInHasOneHolder
PROPERTIES
  SignInStartsAlone
  PersonKeepsSignIn
  UnansweredRequestLapses
  ImplementsLeases
