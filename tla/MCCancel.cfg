\* One booking that its owner may cancel or stop at any moment, any number of
\* times.
SPECIFICATION FairSpec
CONSTANTS
  MaxLeases = 1
  MaxJobs = 2
  MaxTime = 1
  MaxEnd = 3
  MaxAttempts = 2
  RenewWindow = 2
  SubmitLead = 0
  MaxRetries = 1
  RetryDelay = 0
  MinRemaining = 1
  RenewalMargin = 1
  BackoffBase = 1
  BackoffMax = 2
  FailThreshold = 1
  HealthTimeout = 1
  RenewLead = 1
  DrainTimeout = 1
  Faults = {"exit"}
  Ops = {"create_planned", "cancel", "stop"}
  Modes = {"session"}
  Durations = {1}
  MaxCrashes = 0
  HA = FALSE
INVARIANTS
  OnlyCanceledLeasesLoseJobs
PROPERTIES
  CanceledJobStopsRunning
