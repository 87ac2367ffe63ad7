SPECIFICATION FairSpec
CONSTANTS
  NumInfos = 1
  AliasCount <- OneInfoTwoAliases
  File <- Alias
  CacheFile <- OwnFile
  NumAddr = 2
  Flapping = FALSE
  NormalPeriod = 1
  ErrorPeriod = 2
  ForcedPeriod = 1
  DefaultPeriod = 1
  StartupDelay = 1
  AgeCap = 2
  ExecMode = "COMPAT"
  IgnoreErrors = TRUE
  FakeAddr = TRUE
  TotalIterations = 0
  ForceOnce = FALSE
  FaultPoints = {"setup", "transaction"}
  ErrorReplies = {}
  Recovers = TRUE
  CheckipFails = FALSE
  CacheWriteFails = FALSE
  ConfBreaks = FALSE
  Signals = {"RESTART"}
  MaxCrashes = 1
PROPERTY Heals
