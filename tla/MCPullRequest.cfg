\* Two attempts, one after the other or side by side, one retry of a request, two pushes
\* or closings by developers.
SPECIFICATION FairSpec
CONSTANTS
  Attempts = {a1, a2}
  BaseFiles = {code}
  BundleFiles = {shards}
  MaxRetries = 1
  MaxPushes = 2
  None = None
INVARIANTS
  TypeOK
  LostAnswersAreHarmless
PROPERTIES
  ImplementsGrowingBranch
CHECK_DEADLOCK FALSE
