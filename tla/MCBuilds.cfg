SPECIFICATION MCSpec
CONSTANTS
  Callers <- MCCallers
  TokenMode = "command"
  MaxTokens = 2
  Nobody = Nobody
  Builds <- MCBuildSet
  NameOf <- MCNameOf
  Overwrite = {"b2"}
  InUse = {"vllm.sif"}
  Locally = {"b1"}
  Cancelable = {"b1"}
  Mounted = TRUE
  NoBuild = NoBuild
  MaxCrashes = 1
INVARIANTS
  TypeOK
  RetryHasNewToken
  NoNeedlessRefresh
  JudgedJobsAreGone
  FinalNameIsWhole
PROPERTIES
  PublishedBuildsEnd
CHECK_DEADLOCK FALSE
