\* The bounds of MCPullRequest.cfg.
SPECIFICATION Spec
CONSTANTS
  Attempts = {a1, a2}
  BaseFiles = {code}
  BundleFiles = {shards}
  MaxRetries = 1
  MaxPushes = 2
  None = None
INVARIANTS
  RetryIsSafe
CHECK_DEADLOCK FALSE
