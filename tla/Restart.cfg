SPECIFICATION HSpec
CONSTANTS
  NumInfos = 1
  AliasCount <- OneInfoTwoAliases
  File <- Alias
  CacheFile <- OwnFile
  NumAddr = 2
  Flapping = FALSE
  NormalPeriod = 1
  ErrorPeriod = 2
  ForcedPeriod = 1
  DefaultPeriod = 1
  StartupDelay = 0
  AgeCap = 2
  ExecMode = "EVENT"
  IgnoreErrors = FALSE
  FakeAddr = FALSE
  TotalIterations = 2
  ForceOnce = FALSE
  FaultPoints = {"init", "response"}
  ErrorReplies = {"AUTH_FAIL"}
  Recovers = FALSE
  CheckipFails = TRUE
  CacheWriteFails = TRUE
  ConfBreaks = TRUE
  Signals = {"RESTART"}
  MaxCrashes = 1
INVARIANT CurrentOrRetry
INVARIANT CacheWasAcked
INVARIANT IterationsCounted
PROPERTY KeepsPromise
