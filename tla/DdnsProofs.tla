----------------------------- MODULE DdnsProofs -----------------------------
(***************************************************************************)
(* Theorems about Ddns that hold for every number of providers, aliases    *)
(* and addresses and for every period.                                     *)
(***************************************************************************)
EXTENDS Ddns, TLAPS

\* In write_cache_file().
Writing == pc \in {"open", "write"}

\* The cursor is at an alias while its cache file is written, and when an error
\* has just ended a provider's loop.
CursorInv == Writing \/ pc = "provider" => InAlias

\* TypeOK is not inductive by itself: the cursor invariant says that
\* address[cur] and the step to the next provider make sense.
TypeInv == TypeOK /\ CursorInv

-----------------------------------------------------------------------------
(* Facts about the helpers *)

\* A cursor inside a provider's table names an alias.
LEMMA CursorAlias == ControlType /\ InAlias => cur \in Alias
BY ConfigAssumption DEF ControlType, Cursor, InAlias, Alias, Infos

\* The special addresses, ages and cursors are of their types.
LEMMA Consts ==
  /\ Empty \in Address /\ Fake \in Address /\ Addr \subseteq Address
  /\ AgeCap \in 0..AgeCap /\ 0 \in 0..AgeCap
  /\ First \in Cursor
BY ConfigAssumption, PeriodAssumption DEF Empty, Fake, Address, Addr, First, Cursor

\* The loops of ddns.c never step beyond one past the last provider.
LEMMA CursorMoves ==
  ASSUME ControlType
  PROVE  /\ NextAlias \in Cursor
         /\ cur[1] \in Infos => NextInfo \in Cursor
         /\ ~EndOfInfos => cur[1] \in Infos
BY ConfigAssumption DEF ControlType, Cursor, NextAlias, NextInfo, Infos, EndOfInfos

\* How send_update() may end, and what follows from it.
LEMMA OutcomeFacts ==
  ASSUME NEW o \in Outcomes
  PROVE  /\ o.rc \in RC /\ o.at \in Points \cup {"done"}
         /\ o.applied \in BOOLEAN
         /\ AfterSend(o) \in {"open", "provider", "update"}
         /\ AfterSend(o) = "open" <=> o.at = "done"
         /\ o.at = "done" => o.applied
         /\ \A b \in BOOLEAN : ForceAfter(o, b) \in BOOLEAN
<1>1. o = Success \/ o \in Failure
  BY DEF Outcomes
<1>2. CASE o = Success
  BY <1>2 DEF Success, RC, AfterSend, ForceAfter
<1>3. CASE o \in Failure
  <2>1. /\ o.rc \in RC /\ o.at \in Points /\ o.applied \in BOOLEAN
    BY <1>3, OptionAssumption DEF Failure, RC, Points, Fatal, Temporary
  <2> QED BY <2>1 DEF AfterSend, ForceAfter, Points
<1> QED BY <1>1, <1>2, <1>3

\* A step that leaves the content of the cache files alone; they may grow older.
CacheKept ==
  \A f \in File : cache'[f] # NoFile =>
    cache[f] # NoFile /\ cache'[f].addr = cache[f].addr

\* A tick of the clock keeps the content of the files.
LEMMA TickKeeps == TypeOK /\ Tick => CacheKept
<1> SUFFICES ASSUME TypeOK, Tick, NEW f \in File, cache'[f] # NoFile
             PROVE  cache[f] # NoFile /\ cache'[f].addr = cache[f].addr
  BY DEF CacheKept
<1>1. cache'[f] = OlderEntry(cache[f])
  BY DEF Tick
<1>2. cache[f] # NoFile
  BY <1>1 DEF OlderEntry
<1>3. cache[f] \in CacheEntry
  BY <1>2 DEF TypeOK, EnvType
<1> QED BY <1>1, <1>2, <1>3 DEF OlderEntry, CacheEntry

-----------------------------------------------------------------------------
(* Type correctness, one lemma per action *)

LEMMA ReloadType ==
  ASSUME TypeInv, Reload PROVE TypeInv'
<1> USE DEF TypeInv, TypeOK
<1>1. ControlType'
  BY Consts, PeriodAssumption DEF ControlType, Reload, PC, Cmd, RC,
         statics
<1>2. AliasType'
  BY Consts DEF AliasType, Reload, All
<1>3. EnvType'
  BY DEF EnvType, Reload, envVars
<1>4. CursorInv'
  BY DEF CursorInv, Writing, Reload, InAlias
<1> QED BY <1>1, <1>2, <1>3, <1>4

LEMMA StartDelayType ==
  ASSUME TypeInv, StartDelay PROVE TypeInv'
<1> USE DEF TypeInv, TypeOK
<1>1. ControlType'
  BY PeriodAssumption DEF ControlType, StartDelay, PC
<1>2. AliasType'
  BY DEF AliasType, StartDelay, aliasVars
<1>3. EnvType'
  BY DEF EnvType, StartDelay, envVars
<1>4. CursorInv'
  BY DEF CursorInv, Writing, StartDelay, InAlias
<1> QED BY <1>1, <1>2, <1>3, <1>4

LEMMA InitContextType ==
  ASSUME TypeInv, InitContext PROVE TypeInv'
<1> USE DEF TypeInv, TypeOK
<1>1. ControlType'
  BY Consts DEF ControlType, InitContext, PC, statics,
         RestoredIterations
<1>2. AliasType'
  BY Consts, ConfigAssumption DEF AliasType, InitContext, All,
         ReadOne, EnvType, CacheEntry, NoFile
<1>3. EnvType'
  BY DEF EnvType, InitContext, envVars
<1>4. CursorInv'
  BY DEF CursorInv, Writing, InitContext, InAlias
<1> QED BY <1>1, <1>2, <1>3, <1>4

LEMMA GetAddressType ==
  ASSUME TypeInv, GetAddress PROVE TypeInv'
<1> USE DEF TypeInv, TypeOK
<1>1. ControlType'
  BY CursorMoves DEF ControlType, GetAddress, ctxVars, statics,
         EndOfInfos
<1>2. AliasType'
  BY Consts DEF AliasType, GetAddress, IpHasChanged, EnvType
<1>3. EnvType'
  BY DEF EnvType, GetAddress, envVars
<1>4. CursorInv'
  BY DEF CursorInv, Writing, GetAddress, InAlias
<1> QED BY <1>1, <1>2, <1>3, <1>4

LEMMA CheckAliasUpdateTableType ==
  ASSUME TypeInv, CheckAliasUpdateTable PROVE TypeInv'
<1> USE DEF TypeInv, TypeOK
<1>1. ControlType'
  BY Consts DEF ControlType, CheckAliasUpdateTable, PC, RC, ctxVars,
         statics
<1>2. AliasType'
  BY DEF AliasType, CheckAliasUpdateTable, TimeToCheck
<1>3. EnvType'
  BY DEF EnvType, CheckAliasUpdateTable, envVars
<1>4. CursorInv'
  BY DEF CursorInv, Writing, CheckAliasUpdateTable, InAlias
<1> QED BY <1>1, <1>2, <1>3, <1>4

LEMMA FakeUpdateType ==
  ASSUME TypeInv, FakeUpdate PROVE TypeInv'
<1> USE DEF TypeInv, TypeOK
<1>1. ControlType'
  BY CursorMoves DEF ControlType, FakeUpdate, ctxVars, statics,
         InAlias
<1>2. AliasType'
  BY Consts, CursorAlias, OutcomeFacts DEF AliasType, FakeUpdate,
         SendUpdate
<1>3. EnvType'
  BY Consts, CursorAlias, OutcomeFacts DEF EnvType, FakeUpdate,
         SendUpdate
<1>4. CursorInv'
  BY DEF CursorInv, Writing, FakeUpdate, InAlias
<1> QED BY <1>1, <1>2, <1>3, <1>4

LEMMA FakeSkipType ==
  ASSUME TypeInv, FakeSkip PROVE TypeInv'
<1> USE DEF TypeInv, TypeOK
<1>1. ControlType'
  BY Consts, CursorMoves DEF ControlType, FakeSkip, PC, ctxVars,
         statics, InAlias, EndOfInfo
<1>2. AliasType'
  BY DEF AliasType, FakeSkip, aliasVars
<1>3. EnvType'
  BY DEF EnvType, FakeSkip, envVars
<1>4. CursorInv'
  BY DEF CursorInv, Writing, FakeSkip, InAlias
<1> QED BY <1>1, <1>2, <1>3, <1>4

LEMMA UpdateSkipType ==
  ASSUME TypeInv, UpdateSkip PROVE TypeInv'
<1> USE DEF TypeInv, TypeOK
<1>1. ControlType'
  BY CursorMoves DEF ControlType, UpdateSkip, RC, ctxVars, statics
<1>2. AliasType'
  BY DEF AliasType, UpdateSkip, aliasVars
<1>3. EnvType'
  BY DEF EnvType, UpdateSkip, envVars
<1>4. CursorInv'
  BY DEF CursorInv, Writing, UpdateSkip, InAlias
<1> QED BY <1>1, <1>2, <1>3, <1>4

LEMMA UpdateAliasType ==
  ASSUME TypeInv, UpdateAlias PROVE TypeInv'
<1> USE DEF TypeInv, TypeOK
<1>1. ControlType'
  BY CursorMoves, OutcomeFacts DEF ControlType, UpdateAlias, PC, RC,
         ctxVars, statics
<1>2. AliasType'
  <2>1. force_addr_update' \in [Alias -> BOOLEAN]
    BY CursorAlias, OutcomeFacts DEF AliasType, UpdateAlias, SendUpdate
  <2>2. update_required' \in [Alias -> BOOLEAN] /\ age' \in [Alias -> 0..AgeCap]
    BY Consts, CursorAlias DEF AliasType, UpdateAlias
  <2> QED BY <2>1, <2>2 DEF AliasType, UpdateAlias
<1>3. EnvType'
  BY CursorAlias, OutcomeFacts DEF EnvType, UpdateAlias, SendUpdate,
         AliasType
<1>4. CursorInv'
  BY OutcomeFacts DEF CursorInv, Writing, UpdateAlias, InAlias
<1> QED BY <1>1, <1>2, <1>3, <1>4

LEMMA OpenCacheFileType ==
  ASSUME TypeInv, OpenCacheFile PROVE TypeInv'
<1> USE DEF TypeInv, TypeOK
<1>1. ControlType'
  BY CursorMoves DEF ControlType, OpenCacheFile, PC, ctxVars,
         statics
<1>2. AliasType'
  BY DEF AliasType, OpenCacheFile, aliasVars
<1>3. EnvType'
  BY Consts, ConfigAssumption, CursorAlias DEF EnvType,
         OpenCacheFile, envVars, CacheEntry, CursorInv, Writing, AliasType
<1>4. CursorInv'
  BY DEF CursorInv, Writing, OpenCacheFile, InAlias
<1> QED BY <1>1, <1>2, <1>3, <1>4

LEMMA WriteCacheFileType ==
  ASSUME TypeInv, WriteCacheFile PROVE TypeInv'
<1> USE DEF TypeInv, TypeOK
<1>1. ControlType'
  BY CursorMoves DEF ControlType, WriteCacheFile, PC, ctxVars,
         statics
<1>2. AliasType'
  BY DEF AliasType, WriteCacheFile, aliasVars
<1>3. EnvType'
  BY Consts, ConfigAssumption, CursorAlias DEF EnvType,
         WriteCacheFile, envVars, CacheEntry, CursorInv, Writing, AliasType
<1>4. CursorInv'
  BY DEF CursorInv, Writing, WriteCacheFile, InAlias
<1> QED BY <1>1, <1>2, <1>3, <1>4

LEMMA EndProviderType ==
  ASSUME TypeInv, EndProvider PROVE TypeInv'
<1> USE DEF TypeInv, TypeOK
<1>1. ControlType'
  BY CursorMoves DEF ControlType, EndProvider, PC, RC, ctxVars,
         statics, Remember, EndOfInfo, InAlias, CursorInv, Writing
<1>2. AliasType'
  BY DEF AliasType, EndProvider, aliasVars
<1>3. EnvType'
  BY DEF EnvType, EndProvider, envVars
<1>4. CursorInv'
  BY DEF CursorInv, Writing, EndProvider, InAlias
<1> QED BY <1>1, <1>2, <1>3, <1>4

LEMMA CountIterationType ==
  ASSUME TypeInv, CountIteration PROVE TypeInv'
<1> USE DEF TypeInv, TypeOK
<1>1. ControlType'
  BY Consts DEF ControlType, CountIteration, PC, RC
<1>2. AliasType'
  BY DEF AliasType, CountIteration, aliasVars
<1>3. EnvType'
  BY DEF EnvType, CountIteration, envVars
<1>4. CursorInv'
  BY DEF CursorInv, Writing, CountIteration, InAlias
<1> QED BY <1>1, <1>2, <1>3, <1>4

LEMMA TestRestartType ==
  ASSUME TypeInv, TestRestart PROVE TypeInv'
<1> USE DEF TypeInv, TypeOK
<1>1. ControlType'
  BY DEF ControlType, TestRestart, PC, ctxVars, statics
<1>2. AliasType'
  BY DEF AliasType, TestRestart, aliasVars
<1>3. EnvType'
  BY DEF EnvType, TestRestart, envVars
<1>4. CursorInv'
  BY DEF CursorInv, Writing, TestRestart, InAlias
<1> QED BY <1>1, <1>2, <1>3, <1>4

LEMMA ResetRestartType ==
  ASSUME TypeInv, ResetRestart PROVE TypeInv'
<1> USE DEF TypeInv, TypeOK
<1>1. ControlType'
  BY DEF ControlType, ResetRestart, PC, Cmd, RC, ctxVars
<1>2. AliasType'
  BY DEF AliasType, ResetRestart, aliasVars
<1>3. EnvType'
  BY DEF EnvType, ResetRestart, envVars
<1>4. CursorInv'
  BY DEF CursorInv, Writing, ResetRestart, InAlias
<1> QED BY <1>1, <1>2, <1>3, <1>4

LEMMA CheckErrorType ==
  ASSUME TypeInv, CheckError PROVE TypeInv'
<1> USE DEF TypeInv, TypeOK
<1>1. ControlType'
  BY PeriodAssumption DEF ControlType, CheckError, PC
<1>2. AliasType'
  BY DEF AliasType, CheckError, aliasVars
<1>3. EnvType'
  BY DEF EnvType, CheckError, envVars
<1>4. CursorInv'
  BY DEF CursorInv, Writing, CheckError, InAlias
<1> QED BY <1>1, <1>2, <1>3, <1>4

LEMMA WaitTickType ==
  ASSUME TypeInv, WaitTick PROVE TypeInv'
<1> USE DEF TypeInv, TypeOK
<1>1. ControlType'
  BY DEF ControlType, WaitTick, statics
<1>2. AliasType'
  BY PeriodAssumption DEF AliasType, WaitTick, Tick, Older
<1>3. EnvType'
  BY PeriodAssumption DEF EnvType, WaitTick, envVars, Tick,
         OlderEntry, Older, CacheEntry, NoFile
<1>4. CursorInv'
  BY DEF CursorInv, Writing, WaitTick, InAlias
<1> QED BY <1>1, <1>2, <1>3, <1>4

LEMMA WaitDoneType ==
  ASSUME TypeInv, WaitDone PROVE TypeInv'
<1> USE DEF TypeInv, TypeOK
<1>1. ControlType'
  BY DEF ControlType, WaitDone, PC, RC, statics
<1>2. AliasType'
  BY DEF AliasType, WaitDone, aliasVars
<1>3. EnvType'
  BY DEF EnvType, WaitDone, envVars
<1>4. CursorInv'
  BY DEF CursorInv, Writing, WaitDone, InAlias
<1> QED BY <1>1, <1>2, <1>3, <1>4

LEMMA TestStopType ==
  ASSUME TypeInv, TestStop PROVE TypeInv'
<1> USE DEF TypeInv, TypeOK
<1>1. ControlType'
  BY DEF ControlType, TestStop, PC, RC, ctxVars, StopRequested
<1>2. AliasType'
  BY DEF AliasType, TestStop, aliasVars
<1>3. EnvType'
  BY DEF EnvType, TestStop, envVars
<1>4. CursorInv'
  BY DEF CursorInv, Writing, TestStop, InAlias
<1> QED BY <1>1, <1>2, <1>3, <1>4

LEMMA TestRestartAgainType ==
  ASSUME TypeInv, TestRestartAgain PROVE TypeInv'
<1> USE DEF TypeInv, TypeOK
<1>1. ControlType'
  BY DEF ControlType, TestRestartAgain, PC, RC, ctxVars
<1>2. AliasType'
  BY DEF AliasType, TestRestartAgain, aliasVars
<1>3. EnvType'
  BY DEF EnvType, TestRestartAgain, envVars
<1>4. CursorInv'
  BY DEF CursorInv, Writing, TestRestartAgain, InAlias
<1> QED BY <1>1, <1>2, <1>3, <1>4

LEMMA TestForcedType ==
  ASSUME TypeInv, TestForced PROVE TypeInv'
<1> USE DEF TypeInv, TypeOK
<1>1. ControlType'
  BY DEF ControlType, TestForced, PC, ctxVars, statics
<1>2. AliasType'
  BY DEF AliasType, TestForced, All
<1>3. EnvType'
  BY DEF EnvType, TestForced, envVars
<1>4. CursorInv'
  BY DEF CursorInv, Writing, TestForced, InAlias
<1> QED BY <1>1, <1>2, <1>3, <1>4

LEMMA TestCheckNowType ==
  ASSUME TypeInv, TestCheckNow PROVE TypeInv'
<1> USE DEF TypeInv, TypeOK
<1>1. ControlType'
  BY DEF ControlType, TestCheckNow, PC, ctxVars, statics, NextRound
<1>2. AliasType'
  BY DEF AliasType, TestCheckNow, aliasVars
<1>3. EnvType'
  BY DEF EnvType, TestCheckNow, envVars
<1>4. CursorInv'
  BY DEF CursorInv, Writing, TestCheckNow, InAlias, NextRound
<1> QED BY <1>1, <1>2, <1>3, <1>4

LEMMA ClearCmdType ==
  ASSUME TypeInv, ClearCmd PROVE TypeInv'
<1> USE DEF TypeInv, TypeOK
<1>1. ControlType'
  BY DEF ControlType, ClearCmd, PC, Cmd, ctxVars, statics, NextRound
<1>2. AliasType'
  BY DEF AliasType, ClearCmd, aliasVars
<1>3. EnvType'
  BY DEF EnvType, ClearCmd, envVars
<1>4. CursorInv'
  BY DEF CursorInv, Writing, ClearCmd, InAlias, NextRound
<1> QED BY <1>1, <1>2, <1>3, <1>4

LEMMA SignalType ==
  ASSUME NEW s \in Signals, TypeInv, Signal(s) PROVE TypeInv'
<1> USE DEF TypeInv, TypeOK
<1>1. ControlType'
  BY OptionAssumption DEF ControlType, Signal, Cmd, ctxVars, statics
<1>2. AliasType'
  BY DEF AliasType, Signal, aliasVars
<1>3. EnvType'
  BY DEF EnvType, Signal, envVars
<1>4. CursorInv'
  BY DEF CursorInv, Writing, Signal, InAlias
<1> QED BY <1>1, <1>2, <1>3, <1>4

LEMMA WanChangeType ==
  ASSUME TypeInv, WanChange PROVE TypeInv'
<1> USE DEF TypeInv, TypeOK
<1>1. ControlType'
  BY DEF ControlType, WanChange, ctxVars, statics
<1>2. AliasType'
  BY DEF AliasType, WanChange, aliasVars
<1>3. EnvType'
  BY DEF EnvType, WanChange
<1>4. CursorInv'
  BY DEF CursorInv, Writing, WanChange, InAlias
<1> QED BY <1>1, <1>2, <1>3, <1>4

LEMMA RecoverType ==
  ASSUME TypeInv, Recover PROVE TypeInv'
<1> USE DEF TypeInv, TypeOK
<1>1. ControlType'
  BY DEF ControlType, Recover, ctxVars, statics
<1>2. AliasType'
  BY DEF AliasType, Recover, aliasVars
<1>3. EnvType'
  BY DEF EnvType, Recover
<1>4. CursorInv'
  BY DEF CursorInv, Writing, Recover, InAlias
<1> QED BY <1>1, <1>2, <1>3, <1>4

LEMMA CrashType ==
  ASSUME TypeInv, Crash PROVE TypeInv'
<1> USE DEF TypeInv, TypeOK
<1>1. ControlType'
  BY Consts, PeriodAssumption DEF ControlType, Crash, PC, Cmd, RC
<1>2. AliasType'
  BY Consts DEF AliasType, Crash, All
<1>3. EnvType'
  BY DEF EnvType, Crash
<1>4. CursorInv'
  BY DEF CursorInv, Writing, Crash, InAlias
<1> QED BY <1>1, <1>2, <1>3, <1>4

LEMMA DownTickType ==
  ASSUME TypeInv, DownTick PROVE TypeInv'
<1> USE DEF TypeInv, TypeOK
<1>1. ControlType'
  BY DEF ControlType, DownTick, ctxVars, statics
<1>2. AliasType'
  BY PeriodAssumption DEF AliasType, DownTick, Tick, Older
<1>3. EnvType'
  BY PeriodAssumption DEF EnvType, DownTick, envVars, Tick,
         OlderEntry, Older, CacheEntry, NoFile
<1>4. CursorInv'
  BY DEF CursorInv, Writing, DownTick, InAlias
<1> QED BY <1>1, <1>2, <1>3, <1>4

LEMMA BootType ==
  ASSUME TypeInv, Boot PROVE TypeInv'
<1> USE DEF TypeInv, TypeOK
<1>1. ControlType'
  BY DEF ControlType, Boot, PC, ctxVars, statics
<1>2. AliasType'
  BY DEF AliasType, Boot, aliasVars
<1>3. EnvType'
  BY DEF EnvType, Boot, envVars
<1>4. CursorInv'
  BY DEF CursorInv, Writing, Boot, InAlias
<1> QED BY <1>1, <1>2, <1>3, <1>4

\* The initial states are of their types.
LEMMA InitType == Init => TypeInv
<1> SUFFICES ASSUME Init PROVE TypeInv
  OBVIOUS
<1>1. ControlType
  BY Consts, PeriodAssumption DEF Init, ControlType, PC, Cmd, RC
<1>2. AliasType
  BY Consts DEF Init, AliasType, All
<1>3. EnvType
  <2>1. 1 \in Addr
    BY ConfigAssumption DEF Addr
  <2>2. [addr |-> 1, age |-> 0] \in CacheEntry
    BY <2>1, Consts DEF CacheEntry
  <2>3. cache \in [File -> CacheEntry \cup {NoFile}]
    BY <2>2 DEF Init
  <2>4. server \in [Alias -> Address]
    BY <2>1, Consts DEF Init
  <2> QED BY <2>1, <2>3, <2>4 DEF Init, EnvType
<1> QED BY <1>1, <1>2, <1>3 DEF TypeInv, TypeOK, CursorInv, Writing, Init

\* Every step of the daemon and of its environment keeps them.
LEMMA NextType == TypeInv /\ [Next]_vars => TypeInv'
<1> SUFFICES ASSUME TypeInv, [Next]_vars PROVE TypeInv'
  OBVIOUS
<1>1. CASE UNCHANGED vars
  BY <1>1 DEF vars, ctxVars, statics, aliasVars, envVars, TypeInv, TypeOK,
     ControlType, AliasType, EnvType, CursorInv, Writing, InAlias
<1>2. CASE Process
  BY <1>2, ReloadType, StartDelayType, InitContextType, GetAddressType,
     CheckAliasUpdateTableType, FakeUpdateType, FakeSkipType, UpdateSkipType,
     UpdateAliasType, OpenCacheFileType, WriteCacheFileType, EndProviderType,
     CountIterationType, TestRestartType, ResetRestartType, CheckErrorType, WaitTickType,
     WaitDoneType, TestStopType, TestRestartAgainType, TestForcedType, TestCheckNowType,
     ClearCmdType
     DEF Process
<1>3. CASE Environment
  BY <1>3, SignalType, WanChangeType, RecoverType, CrashType, DownTickType, BootType
     DEF Environment
<1> QED BY <1>1, <1>2, <1>3 DEF Next, Terminated

\* TypeOK is an invariant of the update cycle for every configuration.
THEOREM TypeCorrect == Spec => []TypeOK
<1>1. TypeInv => TypeOK
  BY DEF TypeInv
<1> QED BY <1>1, InitType, NextType, PTL DEF Spec

-----------------------------------------------------------------------------
(***************************************************************************)
(* Ddns implements DdnsPromise, for every configuration: with failing      *)
(* sends, fake updates, lost cache writes, SIGHUPs and crashes.            *)
(***************************************************************************)

\* What is written to a cache file is what the server holds.
SavedInv == Writing => server[cur] = address[cur]

\* Nothing is believed before the cache files are read.
StartInv ==
  /\ delaying => pc \in {"reload", "wait", "stop?", "restart?", "forced?", "check?", "clear", "exit"}
  /\ pc \in {"startup", "init"} \/ delaying => address = All(Empty)

\* The fake half of update_alias_table() is entered only when configured.
FakeInv == pc = "fake" => FakeAddr

PromiseInv == TypeInv /\ SavedInv /\ StartInv /\ FakeInv

\* The content of the cache files, the abstract disk.
Disk == [f \in File |-> cache[f].addr]
Stutter == UNCHANGED <<wan, address, server, Disk>>

-----------------------------------------------------------------------------
(* The inductive invariant *)

LEMMA SavedStep == ASSUME PromiseInv, [Next]_vars PROVE SavedInv'
<1> USE DEF PromiseInv, TypeInv, Writing
<1> SUFFICES ASSUME Writing' PROVE server'[cur'] = address'[cur']
  BY DEF SavedInv
<1>1. CASE UpdateAlias
  <2>1. cur \in Alias
    BY <1>1, CursorAlias DEF UpdateAlias, TypeOK
  <2>2. PICK o \in Outcomes :
          /\ SendUpdate(cur, address[cur], o) /\ pc' = AfterSend(o)
          /\ cur' = IF pc' = "update" THEN NextAlias ELSE cur
    BY <1>1 DEF UpdateAlias
  <2>3. o.applied /\ cur' = cur
    BY <2>2, OutcomeFacts
  <2> QED BY <1>1, <2>1, <2>2, <2>3 DEF UpdateAlias, SendUpdate, TypeOK, EnvType
<1>2. CASE Environment
  BY <1>2 DEF Environment, Signal, WanChange, Recover, Crash, DownTick, Boot, aliasVars,
     envVars, SavedInv
<1>3. CASE Process /\ ~UpdateAlias
  BY <1>3 DEF Process, Reload, StartDelay, InitContext, GetAddress, CheckAliasUpdateTable,
     FakeUpdate, FakeSkip, UpdateSkip, OpenCacheFile, WriteCacheFile, EndProvider, CountIteration,
     TestRestart, ResetRestart, CheckError, WaitTick, WaitDone, TestStop,
     TestRestartAgain, TestForced, TestCheckNow, ClearCmd, NextRound, aliasVars, envVars, SavedInv
<1>4. CASE UNCHANGED vars
  BY <1>4 DEF vars, aliasVars, envVars, SavedInv
<1> QED BY <1>1, <1>2, <1>3, <1>4 DEF Next, Terminated

LEMMA StartStep == ASSUME PromiseInv, [Next]_vars PROVE StartInv' /\ FakeInv'
<1> USE DEF PromiseInv, All
<1>1. CASE Reload \/ StartDelay \/ InitContext \/ GetAddress \/ CheckAliasUpdateTable
  BY <1>1 DEF Reload, StartDelay, InitContext, GetAddress, CheckAliasUpdateTable, StartInv,
     FakeInv, aliasVars
<1>2. CASE FakeUpdate \/ FakeSkip \/ UpdateSkip \/ OpenCacheFile \/ WriteCacheFile \/ EndProvider
  BY <1>2 DEF FakeUpdate, FakeSkip, UpdateSkip, OpenCacheFile, WriteCacheFile, EndProvider, StartInv,
     FakeInv, aliasVars
<1>3. CASE UpdateAlias
  <2>1. pc' \in {"open", "provider", "update"} /\ ~delaying'
    BY <1>3, OutcomeFacts DEF UpdateAlias, StartInv
  <2> QED BY <2>1 DEF StartInv, FakeInv
<1>4. CASE CountIteration \/ TestRestart \/ ResetRestart \/ CheckError \/ WaitTick \/ WaitDone
  BY <1>4 DEF CountIteration, TestRestart, ResetRestart, CheckError, WaitTick, WaitDone,
     StartInv, FakeInv, aliasVars
<1>5. CASE TestStop \/ TestRestartAgain \/ TestForced
  BY <1>5 DEF TestStop, TestRestartAgain, TestForced, StartInv, FakeInv, aliasVars
<1>6. CASE TestCheckNow \/ ClearCmd
  BY <1>6 DEF TestCheckNow, ClearCmd, NextRound, StartInv, FakeInv, aliasVars, TypeInv,
     TypeOK, ControlType
<1>7. CASE Environment
  BY <1>7 DEF Environment, Signal, WanChange, Recover, Crash, DownTick, Boot, aliasVars,
     StartInv, FakeInv
<1>8. CASE UNCHANGED vars
  BY <1>8 DEF vars, aliasVars, StartInv, FakeInv
<1> QED BY <1>1, <1>2, <1>3, <1>4, <1>5, <1>6, <1>7, <1>8 DEF Next, Process, Terminated

-----------------------------------------------------------------------------
(* Each step is one of the promise, or leaves its variables alone *)

\* A tick of the clock does not touch the content of the files.
LEMMA TickDisk == ASSUME TypeOK, Tick PROVE Disk' = Disk
<1> SUFFICES ASSUME NEW f \in File PROVE cache'[f].addr = cache[f].addr
  BY DEF Disk
<1>1. cache'[f] = OlderEntry(cache[f])
  BY DEF Tick
<1>2. CASE cache[f] = NoFile
  BY <1>1, <1>2 DEF OlderEntry
<1>3. CASE cache[f] # NoFile
  BY <1>1, <1>3 DEF OlderEntry, CacheEntry, TypeOK, EnvType
<1> QED BY <1>2, <1>3

LEMMA ForgetStep == ASSUME Reload \/ Crash PROVE Promise!Forget
BY DEF Reload, Crash, Promise!Forget, All, envVars

LEMMA RecallStep == ASSUME PromiseInv, InitContext, TypeInv' PROVE Promise!Recall
<1>1. \A a \in Alias : address[a] = Empty
  BY DEF PromiseInv, StartInv, InitContext, All
<1>2. address' \in [Alias -> Addr \cup {Empty, Fake}]
  <2>1. Address = Addr \cup {Empty, Fake}
    BY ConfigAssumption DEF Address, Addr, Empty, Fake
  <2> QED BY <2>1 DEF TypeInv, TypeOK, AliasType
<1>3. ASSUME NEW a \in Alias
      PROVE  IF Disk[CacheFile[a]] # NoFile.addr THEN address'[a] = Disk[CacheFile[a]]
             ELSE address'[a] \in {server[a], Empty}
  <2>1. CacheFile[a] \in File
    BY ConfigAssumption
  <2>2. PICK dns \in [Alias -> Address] :
          /\ dns[a] \in IF cache[CacheFile[a]] = NoFile THEN Resolves(a) ELSE {Empty}
          /\ address'[a] = ReadOne(a, cache[CacheFile[a]], dns[a]).addr
    BY DEF InitContext
  <2>3. cache[CacheFile[a]] = NoFile <=> Disk[CacheFile[a]] = NoFile.addr
    BY <2>1, ConfigAssumption
       DEF Disk, PromiseInv, TypeInv, TypeOK, EnvType, CacheEntry, NoFile, Address
  <2> QED BY <2>1, <2>2, <2>3 DEF ReadOne, Resolves, Disk
<1>4. UNCHANGED <<wan, server, Disk>>
  BY DEF InitContext, envVars, Disk
<1> QED BY <1>1, <1>2, <1>3, <1>4 DEF Promise!Recall, Disk

LEMMA ObserveStep ==
  ASSUME PromiseInv, GetAddress
  PROVE  Stutter \/ \E a \in Alias : Promise!Observe([b \in Alias |-> b[1]][a])
<1>1. cur[1] \in Infos /\ <<cur[1], 1>> \in Alias
  BY ConfigAssumption, CursorMoves
     DEF GetAddress, PromiseInv, TypeInv, TypeOK, Alias, Infos
<1>2. CASE UNCHANGED address
  BY <1>2 DEF GetAddress, Stutter, envVars, Disk
<1>3. CASE ~UNCHANGED address
  <2>1. Promise!Observe(cur[1])
    BY <1>3 DEF GetAddress, Promise!Observe, envVars
  <2>2. [b \in Alias |-> b[1]][<<cur[1], 1>>] = cur[1]
    BY <1>1
  <2> QED BY <1>1, <2>1, <2>2
<1> QED BY <1>2, <1>3

LEMMA PublishStep ==
  ASSUME PromiseInv, UpdateAlias PROVE Stutter \/ \E a \in Alias : Promise!Publish(a)
<1>1. cur \in Alias
  BY CursorAlias DEF UpdateAlias, PromiseInv, TypeInv, TypeOK
<1>2. UNCHANGED <<wan, address, cache>>
  BY DEF UpdateAlias
<1>3. UNCHANGED server \/ server' = [server EXCEPT ![cur] = address[cur]]
  BY DEF UpdateAlias, SendUpdate
<1> QED BY <1>1, <1>2, <1>3 DEF Stutter, Disk, Promise!Publish

LEMMA PublishFakeStep ==
  ASSUME PromiseInv, FakeUpdate PROVE \E a \in Alias : Promise!PublishFake(a)
<1>1. cur \in Alias /\ FakeAddr
  BY CursorAlias DEF FakeUpdate, PromiseInv, TypeInv, TypeOK, FakeInv
<1>2. UNCHANGED <<wan, cache>>
  BY DEF FakeUpdate
<1>3. server' \in {server, [server EXCEPT ![cur] = Fake]}
      /\ address' \in {address, [address EXCEPT ![cur] = Fake]}
  BY DEF FakeUpdate, SendUpdate
<1> QED BY <1>1, <1>2, <1>3 DEF Promise!PublishFake

LEMMA SaveStep ==
  ASSUME PromiseInv, OpenCacheFile \/ WriteCacheFile
  PROVE  Stutter \/ \E a \in Alias : Promise!Save(a)
<1>1. cur \in Alias /\ server[cur] = address[cur]
  BY CursorAlias
     DEF OpenCacheFile, WriteCacheFile, Writing, PromiseInv, SavedInv, TypeInv, CursorInv, TypeOK
<1>2. UNCHANGED <<wan, address, server>>
  BY DEF OpenCacheFile, WriteCacheFile, aliasVars, envVars
<1>3. CASE UNCHANGED cache
  BY <1>2, <1>3 DEF Stutter, Disk
<1>4. CASE \E v \in {address[cur], Empty} :
             cache' = [cache EXCEPT ![CacheFile[cur]] = [addr |-> v, age |-> 0]]
  <2>1. PICK v \in {address[cur], Empty} :
          cache' = [cache EXCEPT ![CacheFile[cur]] = [addr |-> v, age |-> 0]]
    BY <1>4
  <2>2. Disk' = [Disk EXCEPT ![CacheFile[cur]] = v]
    BY <1>1, <2>1, ConfigAssumption DEF Disk, PromiseInv, TypeInv, TypeOK, EnvType
  <2>3. Disk' \in {[Disk EXCEPT ![CacheFile[cur]] = u] : u \in {address[cur], Empty}}
    BY <2>2
  <2> QED BY <1>1, <1>2, <2>3 DEF Promise!Save, Disk
<1>5. \/ UNCHANGED cache
      \/ \E v \in {address[cur], Empty} :
           cache' = [cache EXCEPT ![CacheFile[cur]] = [addr |-> v, age |-> 0]]
  <2>1. CASE OpenCacheFile
    BY <2>1 DEF OpenCacheFile
  <2>2. CASE WriteCacheFile
    BY <2>2 DEF WriteCacheFile
  <2> QED BY <2>1, <2>2
<1> QED BY <1>3, <1>4, <1>5

LEMMA MoveStep == ASSUME WanChange PROVE Promise!Move
BY DEF WanChange, Promise!Move, aliasVars

\* The remaining steps are hidden from the owner of the records.
LEMMA HiddenStep ==
  ASSUME PromiseInv,
         \/ StartDelay \/ CheckAliasUpdateTable \/ FakeSkip \/ UpdateSkip \/ EndProvider
         \/ CountIteration \/ TestRestart \/ ResetRestart \/ CheckError \/ WaitTick
         \/ WaitDone \/ TestStop \/ TestRestartAgain \/ TestForced \/ TestCheckNow
         \/ ClearCmd \/ Recover \/ DownTick \/ Boot \/ \E s \in Signals : Signal(s)
  PROVE  Stutter
<1>1. UNCHANGED <<wan, address, server>> /\ (UNCHANGED cache \/ Tick)
  BY DEF StartDelay, CheckAliasUpdateTable, FakeSkip, UpdateSkip, EndProvider,
     CountIteration, TestRestart, ResetRestart, CheckError, WaitTick, WaitDone, TestStop,
     TestRestartAgain, TestForced, TestCheckNow, ClearCmd, Recover, DownTick, Boot,
     Signal, envVars, aliasVars
<1> QED BY <1>1, TickDisk DEF Stutter, Disk, PromiseInv, TypeInv

LEMMA NextPromise ==
  ASSUME PromiseInv, [Next]_vars, TypeInv' PROVE [Promise!Next]_(Promise!pvars)
<1>1. Stutter \/ Promise!Next
  <2>1. CASE UNCHANGED vars
    BY <2>1 DEF vars, aliasVars, envVars, Stutter, Disk
  <2>2. CASE Reload \/ Crash \/ InitContext \/ WanChange
    BY <2>2, ForgetStep, RecallStep, MoveStep DEF Promise!Next
  <2>3. CASE GetAddress
    BY <2>3, ObserveStep DEF Promise!Next
  <2>4. CASE UpdateAlias \/ FakeUpdate \/ OpenCacheFile \/ WriteCacheFile
    BY <2>4, PublishStep, PublishFakeStep, SaveStep DEF Promise!Next
  <2> QED BY <2>1, <2>2, <2>3, <2>4, HiddenStep DEF Next, Process, Environment, Terminated
<1> QED BY <1>1 DEF Stutter, Disk, Promise!pvars

-----------------------------------------------------------------------------

\* The update cycle keeps its promise: however it is interleaved with failures,
\* signals and crashes, a record is set only to an address the daemon believes
\* in, and a cache file is emptied or set to what the record holds.
THEOREM Implements == Spec => KeepsPromise
<1>1. Init => PromiseInv
  BY InitType DEF Init, PromiseInv, SavedInv, Writing, StartInv, FakeInv, All
<1>2. Init => Promise!Init
  <2> SUFFICES ASSUME Init PROVE Promise!Init
    OBVIOUS
  <2>1. wan \in Addr /\ address = [a \in Alias |-> Empty]
    BY InitType DEF Init, All, TypeInv, TypeOK, EnvType
  <2>2. ASSUME NEW a \in Alias, Disk[CacheFile[a]] # NoFile.addr
        PROVE  Disk[CacheFile[a]] = server[a]
    BY <2>2, ConfigAssumption DEF Init, Disk
  <2> QED BY <2>1, <2>2 DEF Promise!Init, Disk
<1>3. PromiseInv /\ [Next]_vars => PromiseInv'
  BY NextType, SavedStep, StartStep DEF PromiseInv
<1>4. PromiseInv /\ PromiseInv' /\ [Next]_vars => [Promise!Next]_(Promise!pvars)
  BY NextPromise DEF PromiseInv
<1> QED BY <1>1, <1>2, <1>3, <1>4, PTL DEF Spec, KeepsPromise, Promise!Spec
=============================================================================
