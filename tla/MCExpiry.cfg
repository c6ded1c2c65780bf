\* A booking that is extended and shortened up to its end and past it, with a
\* crash at any moment and the restart. MaxTime lets the longest window but one
\* run out.
SPECIFICATION FairClusterSpec
CONSTANTS
  MaxLeases = 1
  MaxJobs = 1
  MaxTime = 3
  MaxEnd = 5
  MaxAttempts = 2
  RenewWindow = 2
  SubmitLead = 0
  MaxRetries = 1
  RetryDelay = 0
  MinRemaining = 1
  RenewalMargin = 1
  BackoffBase = 1
  BackoffMax = 2
  FailThreshold = 1
  HealthTimeout = 1
  RenewLead = 1
  DrainTimeout = 1
  Faults = {"exit", "crash"}
  Ops = {"create_planned", "shorten", "extend"}
  Modes = {"session"}
  Durations = {1}
  MaxCrashes = 1
  HA = FALSE
PROPERTIES
  ExpiredIsFinished
  RetryingIsResolved
