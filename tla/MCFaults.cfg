\* The faults that MCCore leaves out: lost answers, failed cancellations, a
\* controller that does not answer, jobs that do not register.
SPECIFICATION Spec
CONSTANTS
  MaxLeases = 1
  MaxJobs = 2
  MaxTime = 2
  MaxEnd = 4
  MaxAttempts = 2
  RenewWindow = 2
  SubmitLead = 0
  MaxRetries = 1
  RetryDelay = 0
  MinRemaining = 1
  RenewalMargin = 1
  BackoffBase = 1
  BackoffMax = 2
  FailThreshold = 1
  HealthTimeout = 1
  RenewLead = 1
  DrainTimeout = 1
  Faults = {"reply", "scancel", "squeue", "linger", "register", "exit"}
  Ops = {"create_now"}
  Modes = {"session"}
  Durations = {1}
  MaxCrashes = 0
  HA = FALSE
INVARIANTS
  ActiveLeaseHasJob
  FailedIsStamped

  
