\* A service deployment and its replacement; the process may die at any await,
\* and is restarted or replaced by a follower.
SPECIFICATION Spec
CONSTANTS
  MaxLeases = 2
  MaxJobs = 3
  MaxTime = 1
  MaxEnd = 3
  MaxAttempts = 2
  RenewWindow = 2
  SubmitLead = 0
  MaxRetries = 1
  RetryDelay = 0
  MinRemaining = 1
  RenewalMargin = 1
  BackoffBase = 1
  BackoffMax = 2
  FailThreshold = 1
  HealthTimeout = 1
  RenewLead = 1
  DrainTimeout = 1
  Faults = {"crash"}
  Ops = {"create_planned"}
  Modes = {"service"}
  Durations = {1}
  MaxCrashes = 1
  HA = TRUE
INVARIANTS
  TypeOK
  LeasesNeverShareAJob
PROPERTIES
  HandoverWithoutGap
