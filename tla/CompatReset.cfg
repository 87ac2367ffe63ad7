SPECIFICATION Spec
CONSTANTS
  NumInfos = 1
  AliasCount <- OneInfoTwoAliases
  File <- Alias
  CacheFile <- OwnFile
  NumAddr = 2
  Flapping = TRUE
  NormalPeriod = 1
  ErrorPeriod = 2
  ForcedPeriod = 1
  DefaultPeriod = 1
  StartupDelay = 0
  AgeCap = 2
  ExecMode = "COMPAT"
  IgnoreErrors = TRUE
  FakeAddr = FALSE
  TotalIterations = 0
  ForceOnce = FALSE
  FaultPoints = {"init", "transaction", "response"}
  ErrorReplies = {"NOTOK", "RETRY_LATER"}
  Recovers = FALSE
  CheckipFails = TRUE
  CacheWriteFails = FALSE
  ConfBreaks = FALSE
  Signals = {}
  MaxCrashes = 0
PROPERTY ResetOnlyOnSuccess
