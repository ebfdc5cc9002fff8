\* One event of the API, two worker events and an outcome; a client that may
\* reconnect once, or two clients; a history of two events; one row
\* replayed; one restart.
SPECIFICATION FairSpec
CONSTANTS
  Events = {queued, started, completed}
  WorkerEvents = {started, completed}
  Outcomes = {completed}
  Connections = {c1, c2}
  MaxBuffered = 2
  MaxReplay = 1
  MaxRestarts = 1
INVARIANTS
  TypeOK
  NoGapWhenAlone
  EndsOnlyOnOutcome
PROPERTIES
  OutcomeEndsStream
CHECK_DEADLOCK FALSE
