SPECIFICATION Spec
CONSTANTS
  s1 = s1
  t1 = t1
  Process = {s1, t1}
  Server = {s1}
  Claim = {c1}
  Page = {g1, g2, g3}
  Lines <- MCLines
  ToolCalls <- MCToolCalls
  Actions <- MCActions
  Regular <- MCRegular
  Private <- MCPrivate
  HasUploadRoot = TRUE
  HasSecretResolver = TRUE
  LeaseSeconds = 120
  MaxRows = 3
  Null = Null
SYMMETRY Symmetry
INVARIANTS OneLiveTab SeedLandsOnce VerbsAreReachable SurfacesAgree
