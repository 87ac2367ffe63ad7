SPECIFICATION Spec
CONSTANTS
  Orders <- SomeOrders
  Configs <- SomeConfigs
  MaxAlias = 2
  MaxRestarts = 1
  MaxFaults = 1
  Failing <- SomeFailing
CHECK_DEADLOCK FALSE
INVARIANT TypeOK
INVARIANT NamesResolve
INVARIANT GuessIsV4
INVARIANT SystemsLive
INVARIANT AllUnregistered
INVARIANT TurnIsFresh
INVARIANT CrashExcused
INVARIANT PidfileMine
PROPERTY WildOnlyInGap
