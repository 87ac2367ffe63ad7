SPECIFICATION FairSpec
CONSTANTS
  NumInfos = 1
  AliasCount <- OneInfoTwoAliases
  File <- Alias
  CacheFile <- OwnFile
  NumAddr = 2
  Flapping = TRUE
  NormalPeriod = 1
  ErrorPeriod = 2
  ForcedPeriod = 1
  DefaultPeriod = 1
  StartupDelay = 1
  AgeCap = 4
  ExecMode = "EVENT"
  IgnoreErrors = TRUE
  FakeAddr = FALSE
  TotalIterations = 0
  ForceOnce = FALSE
  FaultPoints = {"init", "transaction", "response"}
  ErrorReplies = {"NOTOK", "RETRY_LATER"}
  Recovers = FALSE
  CheckipFails = FALSE
  CacheWriteFails = FALSE
  ConfBreaks = FALSE
  Signals = {"FORCED_UPDATE", "CHECK_NOW", "STOP"}
  MaxCrashes = 0
INVARIANT TypeOK
INVARIANT InSyncOrRetry
INVARIANT ForcedOnTime
INVARIANT SendsJustified
PROPERTY StopHonoured
