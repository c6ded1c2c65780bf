\* A booking locked and unlocked as a permanent deployment, whose leader dies
\* at any moment and restarts, or a follower takes over. The backoff is 0: at
\* the bound of the clock no delay would ever pass.
SPECIFICATION FairSpec
CONSTANTS
  MaxLeases = 1
  MaxJobs = 2
  MaxTime = 1
  MaxEnd = 3
  MaxAttempts = 2
  RenewWindow = 2
  SubmitLead = 0
  MaxRetries = 1
  RetryDelay = 0
  MinRemaining = 1
  RenewalMargin = 1
  BackoffBase = 0
  BackoffMax = 2
  FailThreshold = 1
  HealthTimeout = 1
  RenewLead = 1
  DrainTimeout = 1
  Faults = {"sbatch", "exit", "crash"}
  Ops = {"create_planned", "lock", "unlock"}
  Modes = {"session"}
  Durations = {1}
  MaxCrashes = 1
  HA = TRUE
PROPERTIES
  
  DuePlannedIsTakenUp
  LostJobIsNoticed
