SPECIFICATION ReadersSpec
CONSTANTS
  Null = Null
  BrowserName = {}
  c1 = c1
  c2 = c2
  p1 = p1
  p2 = p2
  Caller = {p1, p2}
  Claim = {c1, c2}
  SessionOf <- MCSessionOf
  Pictures <- MCPictures
  Settings <- MCSettings
  Submissions <- MCSubmissions
  EventLines <- MCEventLines
  CaptureLines <- MCCaptureLines
  DiffLines <- MCDiffLines
  DefaultLimit = 2
  MaximumLimit = 3
  MaximumReasons = 1
  Ids = {1, 2}
  MaxUnderWay <- MCMaxUnderWay
  MaxEntries = 3
  MaxShots = 3
  LastInstant = 1
SYMMETRY Callers
INVARIANTS FollowerMissesNothing ReadingsAgree
PROPERTIES FeedbackNamesTheCall
