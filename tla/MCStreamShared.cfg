\* Two clients watching one job; nothing is evicted or restarted.
SPECIFICATION FairSpec
CONSTANTS
  Events = {queued, started, completed}
  WorkerEvents = {started, completed}
  Outcomes = {completed}
  Connections = {c1, c2}
  MaxBuffered = 3
  MaxReplay = 3
  MaxRestarts = 0
PROPERTY OutcomeEndsEveryStream
CHECK_DEADLOCK FALSE
