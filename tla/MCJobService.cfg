SPECIFICATION FairSpec
CONSTANTS
  o1 = o1
  j1 = j1
  j2 = j2
  repoA = repoA
  Orgs = {o1}
  Jobs = {j1, j2}
  OrgOf <- MCOrgOf
  TargetOf <- MCTargetOf
  Requests = {r1, r2}
  MaxConcurrentJobs = 1
  MaxAgentRunsPerHour = 1
  MaxRestarts = 1
INVARIANTS
  TypeOK
  NoSlotLeak
  CapUnlessDoubleRelease
  TellsInOrder
PROPERTIES
  StatusPromise
  SlotsDrain
CHECK_DEADLOCK FALSE
