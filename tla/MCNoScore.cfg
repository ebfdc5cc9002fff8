\* The bounds of MCJobProgress.cfg.
SPECIFICATION Spec
CONSTANTS
  job = job
  c1 = c1
  v1 = v1
  v2 = v2
  r1 = r1
  r2 = r2
  Job = job
  Skips = {c1}
  Verdicts = {v1, v2}
  Runs = {r1, r2}
  Processed = 1
  Emissions <- MCEmissions
  MaxRestarts = 1
  None = None
INVARIANT CompletedEventCompletesJob
CHECK_DEADLOCK FALSE
