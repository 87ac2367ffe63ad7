SPECIFICATION Spec
CONSTANTS
  NumInfos = 1
  AliasCount <- OneInfo
  File <- Alias
  CacheFile <- OwnFile
  NumAddr = 2
  Flapping = TRUE
  NormalPeriod = 1
  ErrorPeriod = 2
  ForcedPeriod = 1
  DefaultPeriod = 1
  StartupDelay = 0
  AgeCap = 2
  ExecMode = "EVENT"
  IgnoreErrors = TRUE
  FakeAddr = FALSE
  TotalIterations = 0
  ForceOnce = FALSE
  FaultPoints = {"init", "transaction", "response"}
  ErrorReplies = {"NOTOK", "RETRY_LATER"}
  Recovers = FALSE
  CheckipFails = TRUE
  CacheWriteFails = FALSE
  ConfBreaks = FALSE
  Signals = {"STOP", "CHECK_NOW"}
  MaxCrashes = 0
PROPERTY StopNotDiscarded
