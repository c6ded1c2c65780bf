\* One booking, created for now or for later and moved while it is planned,
\* with refused submissions, failing probes and jobs that exit: every
\* interleaving of the six workers over a whole life and one retry.
SPECIFICATION Spec
CONSTANTS
  MaxLeases = 1
  MaxJobs = 3
  MaxTime = 2
  MaxEnd = 4
  MaxAttempts = 2
  RenewWindow = 2
  SubmitLead = 0
  MaxRetries = 1
  RetryDelay = 0
  MinRemaining = 1
  RenewalMargin = 1
  BackoffBase = 1
  BackoffMax = 2
  FailThreshold = 1
  HealthTimeout = 1
  RenewLead = 1
  DrainTimeout = 1
  Faults = {"sbatch", "probe", "exit"}
  Ops = {"create_now", "create_planned", "update"}
  Modes = {"session"}
  Durations = {1}
  MaxCrashes = 0
  HA = FALSE
INVARIANTS
  OneLiveJob
  EveryLiveJobIsKnown
  RetriesAreBounded
PROPERTIES
  EndedOnlyAfterWindow
  KeepsContract
