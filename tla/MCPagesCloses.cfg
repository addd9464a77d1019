SPECIFICATION Spec
CONSTANTS
  c1 = c1
  c2 = c2
  Claim = {c1}
  Budget = 2
  LeaseSeconds = 1
  QueueSeconds = 1
  MaxTabs = 2
  Page = {p1, p2}
  MayBeBlank = {}
  NoPage = NoPage
  NoRow = NoRow
  Worker = {w1}
  Reconciler = {r1}
PROPERTY ReconcileSparesOwnedPages
