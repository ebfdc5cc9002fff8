\* One remote job that opens a pull request and the message that cancels it, two workers,
\* two deliveries: one that may be lost and the last.
SPECIFICATION FairSpec
CONSTANTS
  j1 = j1
  x1 = x1
  w1 = w1
  w2 = w2
  None = None
  Jobs = {j1}
  Cancels = {x1}
  JobOf <- MCJobOf
  Remote = {j1}
  OpensPr = {j1}
  Workers = {w1, w2}
  MaxDeliveries = 2
  AbandonOnError = FALSE
INVARIANTS
  TypeOK
  AckedAfterOutcome
  SecondOutcomeNeedsLapse
PROPERTIES
  MessagesAreSettled
  CompletedJobIsReported
CHECK_DEADLOCK FALSE
