SPECIFICATION FairSpec
CONSTANTS
  Claim = {c1,c2,c3,c4}
  Budget = 2
  LeaseSeconds = 2
  QueueSeconds = 2
  MaxTabs = 2
ACTION_CONSTRAINT
  OneClaimBrowses
INVARIANTS
  ReadsForetellDecisions
  TabIdentity
PROPERTIES
  ImplementsPool
  SweepPrecedesDecision
  CapacityIdlesOnlyAfterLapse
  QueueServed
