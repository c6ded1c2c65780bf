SPECIFICATION FairSpec
CONSTANTS
  Callers <- MCCallers
  TokenMode = "command"
  MaxTokens = 1
  Nobody = Nobody
  Builds = {"b1"}
  NameOf <- MCNameOf
  Overwrite = {"b2"}
  InUse = {"vllm.sif"}
  Locally = {"b1"}
  Cancelable = {"b1"}
  Mounted = TRUE
  NoBuild = NoBuild
  MaxCrashes = 0
PROPERTIES
  WatchedBuildsEnd
CHECK_DEADLOCK FALSE
