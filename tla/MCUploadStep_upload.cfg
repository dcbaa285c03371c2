\* Files that are empty, small, and too large for the deadline when they are
\* read slowly; a job that has failed so often that a shift without a limit would
\* leave nothing of the delay.
CONSTANTS
  Sizes = {0, 2, 3}
  Chunk = 2
  ReportStep = 2
  Deadline = 4
  RetryAfters <- MCRetryAfters
  StartAttempts = {60}
  MaxAttempts = 61
  FaultKinds = {"call", "edit", "store", "crash"}
  MaxFaults = 2
SPECIFICATION FairSpec
INVARIANTS
  TypeOK
  AcceptedWhole
  RowTruthful
  QuietShowsNewest
PROPERTIES
  RetryHonest
  KeepsUploadContract
  FittingMediaSettled
