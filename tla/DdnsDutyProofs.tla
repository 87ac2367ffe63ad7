--------------------------- MODULE DdnsDutyProofs ---------------------------
(***************************************************************************)
(* What the daemon owes to a provider and to its user over many cycles: no *)
(* update without a reason, no alias left without one for longer than the  *)
(* forced-update period, and no address believed to be published that is   *)
(* not, across restarts, crashes and lost cache files.                     *)
(***************************************************************************)
EXTENDS DdnsProofs

-----------------------------------------------------------------------------
(***************************************************************************)
(* No update is lost: in event mode, for providers without a setup() step  *)
(* and while the process lives, an alias whose record differs from what    *)
(* the daemon believes is always marked for another try.  The assumptions  *)
(* are the ones that matter: compat mode, a failing setup(), and a fake    *)
(* update or a pending one that a restart forgets each break the property. *)
(***************************************************************************)

\* In event mode, with providers that have no setup() to fail, every alias that
\* is due is sent and every failure is marked.
FailuresMarked == ExecMode = "EVENT" /\ FaultPoints \cap {"setup", "request"} = {}

\* The configurations the theorem is about.
SyncConfig ==
  /\ FailuresMarked /\ FakeAddr = FALSE
  /\ "RESTART" \notin Signals /\ MaxCrashes = 0

\* The record is right, or it will be sent again.
Synced(a) == server[a] = address[a] \/ force_addr_update[a]

\* It is right, will be sent again, or its update is overdue.
Known(a) == Synced(a) \/ age[a] > ForcedPeriod

\* The loop of update_alias_table() has passed alias a.
Passed(a) == a[1] < cur[1] \/ (a[1] = cur[1] /\ a[2] < cur[2])

\* The cache files have not been read yet.
Starting == pc \in {"reload", "startup", "init"} \/ delaying

\* What the configuration rules out.
ReachInv ==
  /\ cmd # "RESTART" /\ pc \notin {"fake", "provider", "reset", "down"}
  /\ crashes = 0
  /\ delaying => pc \in {"wait", "stop?", "restart?", "forced?", "check?", "clear", "exit"}

\* What an earlier run left on disk is what the servers hold.
DiskInv ==
  Starting => \A a \in Alias :
    cache[CacheFile[a]] # NoFile => server[a] = cache[CacheFile[a]].addr

\* What get_address() has done so far: an alias whose address it replaced is
\* marked as changed.
CheckipInv ==
  pc = "checkip" => \A a \in Alias : Known(a) \/ (a[1] < cur[1] /\ ip_has_changed[a])

\* An alias that is not synced is one the update loop has yet to reach.
UpdateInv ==
  pc = "update" => \A a \in Alias : Synced(a) \/ (~Passed(a) /\ update_required[a])

WriteSyncInv ==
  Writing => \A a \in Alias :
    Synced(a) \/ (~Passed(a) /\ a # cur /\ update_required[a])

\* Between two checks every alias is synced.
IdleInv ==
  pc \in {"restart", "error", "wait", "stop?", "restart?", "forced?", "check?", "clear"}
    /\ ~delaying => \A a \in Alias : Synced(a)

SyncInv ==
  TypeInv /\ ReachInv /\ DiskInv /\ CheckipInv /\ UpdateInv /\ WriteSyncInv /\ IdleInv

Rest == ReachInv /\ DiskInv /\ CheckipInv /\ UpdateInv /\ WriteSyncInv /\ IdleInv

-----------------------------------------------------------------------------
(* Facts about aliases and the cursor *)

LEMMA AliasParts ==
  ASSUME NEW a \in Alias
  PROVE  a[1] \in Infos /\ a[1] \in Nat /\ a[2] \in Nat
         /\ 1 <= a[1] /\ 1 <= a[2] /\ a[1] <= NumInfos /\ a[2] <= AliasCount[a[1]]
         /\ AliasCount[a[1]] \in Nat /\ a = <<a[1], a[2]>>
BY ConfigAssumption DEF Alias, Infos

\* The loop starts before every alias,
LEMMA NonePassed ==
  ASSUME NEW a \in Alias, cur' = First PROVE ~Passed(a)'
BY AliasParts DEF Passed, First

\* passes one at a time,
LEMMA PassOne ==
  ASSUME ControlType, NEW a \in Alias, cur' = NextAlias, InAlias
  PROVE  Passed(a)' <=> Passed(a) \/ a = cur
<1>1. cur \in Alias
  BY CursorAlias
<1> QED BY <1>1, AliasParts DEF Passed, NextAlias

\* passes no further one when it leaves a provider's table,
LEMMA PassInfo ==
  ASSUME ControlType, NEW a \in Alias, cur' = NextInfo, EndOfInfo
  PROVE  Passed(a)' <=> Passed(a)
<1>1. cur[1] \in Nat /\ cur[2] \in Nat
  BY ConfigAssumption DEF ControlType, Cursor
<1> QED BY <1>1, AliasParts DEF Passed, NextInfo, EndOfInfo

\* and has passed all of them at its end.
LEMMA AllPassed ==
  ASSUME ControlType, NEW a \in Alias, EndOfInfos PROVE Passed(a) /\ a[1] < cur[1]
<1>1. cur[1] \in Nat
  BY ConfigAssumption DEF ControlType, Cursor
<1> QED BY <1>1, AliasParts, ConfigAssumption DEF Passed, EndOfInfos

\* In these configurations a send_update() that fails marks the alias.
LEMMA FailureMarks ==
  ASSUME FailuresMarked, NEW o \in Outcomes, NEW b \in BOOLEAN, o.at # "done"
  PROVE  ForceAfter(o, b) = TRUE /\ AfterSend(o) = "update"
<1>1. o \in Failure
  BY DEF Outcomes, Success
<1>2. o.at \in FaultPoints
  BY <1>1 DEF Failure
<1> QED BY <1>2, OptionAssumption DEF FailuresMarked, ForceAfter, AfterSend, Points

-----------------------------------------------------------------------------
(* The inductive step, action by action *)

LEMMA ReloadSync == ASSUME SyncConfig, SyncInv, Reload PROVE Rest'
BY DEF SyncInv, Rest, ReachInv, DiskInv, CheckipInv, UpdateInv, WriteSyncInv, Writing,
   IdleInv, Starting, Reload, envVars

LEMMA InitContextSync == ASSUME SyncConfig, SyncInv, InitContext PROVE Rest'
<1> USE DEF SyncInv, Rest
<1>1. ReachInv' /\ UpdateInv' /\ WriteSyncInv' /\ IdleInv'
  BY DEF ReachInv, UpdateInv, WriteSyncInv, Writing, IdleInv, InitContext, envVars
<1>2. DiskInv'
  BY DEF DiskInv, Starting, InitContext, ReachInv
<1>3. CheckipInv'
  <2> SUFFICES ASSUME NEW a \in Alias PROVE Known(a)'
    BY DEF CheckipInv
  <2>1. CASE cache[CacheFile[a]] = NoFile
    <3>1. age'[a] = AgeCap
      BY <2>1 DEF InitContext, ReadOne
    <3> QED BY <3>1, PeriodAssumption DEF Known
  <2>2. CASE cache[CacheFile[a]] # NoFile
    <3>1. address'[a] = cache[CacheFile[a]].addr /\ server' = server
      BY <2>2 DEF InitContext, ReadOne, envVars
    <3> QED BY <2>2, <3>1 DEF Known, Synced, DiskInv, Starting, InitContext
  <2> QED BY <2>1, <2>2
<1> QED BY <1>1, <1>2, <1>3

LEMMA GetAddressSync == ASSUME SyncConfig, SyncInv, GetAddress PROVE Rest'
<1> USE DEF SyncInv, Rest
<1>1. ReachInv' /\ UpdateInv' /\ WriteSyncInv' /\ IdleInv' /\ DiskInv'
  BY DEF ReachInv, UpdateInv, WriteSyncInv, Writing, IdleInv, DiskInv, Starting, GetAddress, envVars
<1>2. CheckipInv'
  <2> SUFFICES ASSUME NEW a \in Alias
               PROVE  Known(a)' \/ (a[1] < cur'[1] /\ ip_has_changed'[a])
    BY DEF CheckipInv
  <2>1. /\ a[1] \in Nat /\ cur[1] \in Nat /\ cur'[1] = cur[1] + 1
        /\ Known(a) \/ (a[1] < cur[1] /\ ip_has_changed[a])
    BY AliasParts, ConfigAssumption
       DEF GetAddress, NextInfo, TypeInv, TypeOK, ControlType, Cursor, CheckipInv
  <2>2. UNCHANGED <<server, force_addr_update, age>>
    BY DEF GetAddress, envVars
  <2>3. CASE UNCHANGED <<address, ip_has_changed>>
    BY <2>1, <2>2, <2>3 DEF Known, Synced
  <2>4. CASE a[1] # cur[1]
    <3>1. address'[a] = address[a] /\ ip_has_changed'[a] = ip_has_changed[a]
      BY <2>3, <2>4 DEF GetAddress
    <3> QED BY <2>1, <2>2, <3>1 DEF Known, Synced
  <2>5. CASE a[1] = cur[1] /\ ~UNCHANGED <<address, ip_has_changed>>
    <3>1. address'[a] = wan /\ (ip_has_changed'[a] <=> address[a] # wan)
      BY <2>5 DEF GetAddress, IpHasChanged
    <3> QED BY <2>1, <2>2, <2>5, <3>1 DEF Known, Synced
  <2> QED BY <2>3, <2>4, <2>5
<1> QED BY <1>1, <1>2

LEMMA CheckAliasUpdateTableSync ==
  ASSUME SyncConfig, SyncInv, CheckAliasUpdateTable PROVE Rest'
<1> USE DEF SyncInv, Rest
<1>1. ReachInv' /\ WriteSyncInv' /\ IdleInv' /\ DiskInv' /\ CheckipInv'
  BY DEF SyncConfig, ReachInv, CheckipInv, WriteSyncInv, Writing, IdleInv, DiskInv, Starting,
     CheckAliasUpdateTable, envVars
<1>2. UpdateInv'
  <2> SUFFICES ASSUME NEW a \in Alias
               PROVE  Synced(a)' \/ (~Passed(a)' /\ update_required'[a])
    BY DEF UpdateInv
  <2>1. ~Passed(a)'
    BY NonePassed DEF CheckAliasUpdateTable
  <2>2. Known(a) \/ ip_has_changed[a]
    BY DEF CheckipInv, CheckAliasUpdateTable
  <2> QED BY <2>1, <2>2 DEF Known, Synced, CheckAliasUpdateTable, TimeToCheck, envVars
<1> QED BY <1>1, <1>2

LEMMA UpdateSkipSync == ASSUME SyncConfig, SyncInv, UpdateSkip PROVE Rest'
<1> USE DEF SyncInv, Rest
<1>1. ReachInv' /\ WriteSyncInv' /\ IdleInv' /\ DiskInv' /\ CheckipInv'
  BY DEF ReachInv, CheckipInv, WriteSyncInv, Writing, IdleInv, DiskInv, Starting, UpdateSkip, envVars
<1>2. UpdateInv'
  BY PassOne DEF UpdateInv, UpdateSkip, Synced, aliasVars, envVars, TypeInv, TypeOK
<1> QED BY <1>1, <1>2

LEMMA UpdateAliasSync == ASSUME SyncConfig, SyncInv, UpdateAlias PROVE Rest'
<1> USE DEF SyncInv, Rest
<1>1. cur \in Alias /\ ControlType
  BY CursorAlias DEF UpdateAlias, TypeInv, TypeOK
<1>2. PICK o \in Outcomes :
        /\ SendUpdate(cur, address[cur], o)
        /\ pc' = AfterSend(o)
        /\ cur' = IF pc' = "update" THEN NextAlias ELSE cur
        /\ o.at # "done" => update_required' = update_required
        /\ o.at = "done" => update_required' = [update_required EXCEPT ![cur] = FALSE]
  BY DEF UpdateAlias
<1>3. pc' \in {"open", "update"} /\ (pc' = "open" <=> o.at = "done")
  BY <1>2, OutcomeFacts, FailureMarks DEF SyncConfig
<1>4. ReachInv' /\ IdleInv' /\ DiskInv' /\ CheckipInv'
  BY <1>3 DEF ReachInv, CheckipInv, IdleInv, DiskInv, Starting, UpdateAlias
<1>5. /\ address' = address
      /\ \A a \in Alias : a = cur => Synced(a)'
  <2>1. CASE o.at = "done"
    BY <1>1, <1>2, <2>1, OutcomeFacts
       DEF SendUpdate, Synced, UpdateAlias, TypeInv, TypeOK, EnvType
  <2>2. CASE o.at # "done"
    BY <1>1, <1>2, <2>2, FailureMarks
       DEF SyncConfig, SendUpdate, Synced, UpdateAlias, TypeInv, TypeOK, AliasType
  <2> QED BY <2>1, <2>2 DEF UpdateAlias
<1>6. \A a \in Alias : a # cur =>
        (Synced(a)' <=> Synced(a)) /\ update_required'[a] = update_required[a]
  BY <1>1, <1>2, <1>5 DEF SendUpdate, Synced, TypeInv, TypeOK, AliasType, EnvType
<1>7. \A a \in Alias : Synced(a) \/ (~Passed(a) /\ update_required[a])
  BY DEF UpdateInv, UpdateAlias
<1>8. WriteSyncInv'
  BY <1>1, <1>2, <1>5, <1>6, <1>7 DEF WriteSyncInv, Writing, Passed
<1>9. UpdateInv'
  <2> SUFFICES ASSUME pc' = "update", NEW a \in Alias
               PROVE  Synced(a)' \/ (~Passed(a)' /\ update_required'[a])
    BY DEF UpdateInv
  <2>1. Passed(a)' <=> Passed(a) \/ a = cur
    BY <1>1, <1>2, PassOne DEF UpdateAlias
  <2> QED BY <1>5, <1>6, <1>7, <2>1
<1> QED BY <1>4, <1>8, <1>9

LEMMA OpenCacheFileSync == ASSUME SyncConfig, SyncInv, OpenCacheFile PROVE Rest'
<1> USE DEF SyncInv, Rest
<1>1. ReachInv' /\ IdleInv' /\ DiskInv' /\ CheckipInv'
  BY DEF ReachInv, CheckipInv, IdleInv, DiskInv, Starting, OpenCacheFile, envVars
<1>2. WriteSyncInv'
  BY DEF WriteSyncInv, Writing, OpenCacheFile, Synced, Passed, aliasVars, envVars
<1>3. UpdateInv'
  <2> SUFFICES ASSUME cur' = NextAlias, NEW a \in Alias
               PROVE  Synced(a)' \/ (~Passed(a)' /\ update_required'[a])
    BY DEF UpdateInv, OpenCacheFile
  <2>1. Passed(a)' <=> Passed(a) \/ a = cur
    BY PassOne DEF OpenCacheFile, TypeInv, TypeOK, CursorInv, Writing
  <2>2. Synced(a) \/ (~Passed(a) /\ a # cur /\ update_required[a])
    BY DEF WriteSyncInv, Writing, OpenCacheFile
  <2> QED BY <2>1, <2>2 DEF Synced, OpenCacheFile, aliasVars, envVars
<1> QED BY <1>1, <1>2, <1>3

LEMMA WriteCacheFileSync == ASSUME SyncConfig, SyncInv, WriteCacheFile PROVE Rest'
<1> USE DEF SyncInv, Rest
<1>1. ReachInv' /\ WriteSyncInv' /\ IdleInv' /\ DiskInv' /\ CheckipInv'
  BY DEF ReachInv, CheckipInv, WriteSyncInv, Writing, IdleInv, DiskInv, Starting, WriteCacheFile, envVars
<1>2. UpdateInv'
  <2> SUFFICES ASSUME NEW a \in Alias
               PROVE  Synced(a)' \/ (~Passed(a)' /\ update_required'[a])
    BY DEF UpdateInv
  <2>1. Passed(a)' <=> Passed(a) \/ a = cur
    BY PassOne DEF Writing, WriteCacheFile, TypeInv, TypeOK, CursorInv
  <2>2. Synced(a) \/ (~Passed(a) /\ a # cur /\ update_required[a])
    BY DEF WriteSyncInv, Writing, WriteCacheFile
  <2> QED BY <2>1, <2>2 DEF Synced, WriteCacheFile, aliasVars, envVars
<1> QED BY <1>1, <1>2

LEMMA EndProviderSync == ASSUME SyncConfig, SyncInv, EndProvider PROVE Rest'
<1> USE DEF SyncInv, Rest
<1>1. ReachInv' /\ WriteSyncInv' /\ IdleInv' /\ DiskInv' /\ CheckipInv'
  BY DEF ReachInv, CheckipInv, WriteSyncInv, Writing, IdleInv, DiskInv, Starting, EndProvider, envVars
<1>2. UpdateInv'
  BY PassInfo DEF UpdateInv, EndProvider, Synced, aliasVars, envVars, TypeInv, TypeOK, ReachInv
<1> QED BY <1>1, <1>2

LEMMA CountIterationSync == ASSUME SyncConfig, SyncInv, CountIteration PROVE Rest'
<1> USE DEF SyncInv, Rest
<1>1. ReachInv' /\ WriteSyncInv' /\ UpdateInv' /\ DiskInv' /\ CheckipInv'
  BY DEF ReachInv, CheckipInv, WriteSyncInv, Writing, UpdateInv, DiskInv, Starting, CountIteration, envVars
<1>2. IdleInv'
  BY AllPassed DEF IdleInv, UpdateInv, CountIteration, Synced, aliasVars, envVars, TypeInv, TypeOK
<1> QED BY <1>1, <1>2

LEMMA WaitTickSync == ASSUME SyncConfig, SyncInv, WaitTick PROVE Rest'
<1> USE DEF SyncInv, Rest
<1>1. ReachInv' /\ WriteSyncInv' /\ UpdateInv' /\ CheckipInv' /\ IdleInv'
  BY DEF ReachInv, CheckipInv, WriteSyncInv, Writing, UpdateInv, IdleInv, WaitTick, Synced, envVars
<1>2. CacheKept
  BY TickKeeps DEF WaitTick, TypeInv
<1>3. DiskInv'
  BY <1>2, ConfigAssumption DEF DiskInv, Starting, WaitTick, CacheKept, envVars
<1> QED BY <1>1, <1>3

\* The other steps of the process move no address, no record and no file.
LEMMA ControlSync ==
  ASSUME SyncConfig, SyncInv,
         \/ StartDelay \/ TestRestart \/ CheckError \/ WaitDone \/ TestStop
         \/ TestRestartAgain \/ TestForced \/ TestCheckNow \/ ClearCmd
  PROVE  Rest'
<1> USE DEF SyncInv, Rest
<1>1. UNCHANGED <<server, address, cache, age, crashes>>
      /\ \A a \in Alias : Synced(a) => Synced(a)'
  BY DEF StartDelay, TestRestart, CheckError, WaitDone, TestStop, TestRestartAgain,
     TestForced, TestCheckNow, ClearCmd, envVars, aliasVars, All, Synced
<1>2. ReachInv'
  <2>1. CASE StartDelay \/ TestRestart \/ CheckError \/ WaitDone
    BY <1>1, <2>1 DEF ReachInv, StartDelay, TestRestart, CheckError, WaitDone
  <2>2. CASE TestStop \/ TestRestartAgain \/ TestForced
    BY <1>1, <2>2 DEF ReachInv, TestStop, TestRestartAgain, TestForced
  <2>3. CASE TestCheckNow \/ ClearCmd
    BY <1>1, <2>3 DEF ReachInv, TestCheckNow, ClearCmd, NextRound, TypeInv, TypeOK, ControlType
  <2> QED BY <2>1, <2>2, <2>3
<1>3. UpdateInv' /\ WriteSyncInv'
  BY DEF UpdateInv, WriteSyncInv, Writing, StartDelay, TestRestart, CheckError, WaitDone, TestStop,
     TestRestartAgain, TestForced, TestCheckNow, ClearCmd, NextRound
<1>4. Starting' => Starting
  BY DEF Starting, ReachInv, StartDelay, TestRestart, CheckError, WaitDone, TestStop,
     TestRestartAgain, TestForced, TestCheckNow, ClearCmd, NextRound
<1>5. DiskInv'
  BY <1>1, <1>4 DEF DiskInv
<1>6. CheckipInv'
  BY <1>1 DEF CheckipInv, Known, IdleInv, StartDelay, TestRestart, CheckError, WaitDone,
     TestStop, TestRestartAgain, TestForced, TestCheckNow, ClearCmd, NextRound
<1>7. IdleInv'
  BY <1>1 DEF IdleInv, ReachInv, StartDelay, TestRestart, CheckError, WaitDone,
     TestStop, TestRestartAgain, TestForced, TestCheckNow, ClearCmd, NextRound
<1> QED BY <1>2, <1>3, <1>5, <1>6, <1>7

\* The environment disturbs none of it.
LEMMA EnvironmentSync == ASSUME SyncConfig, SyncInv, Environment PROVE Rest'
<1> USE DEF SyncInv, Rest
<1>1. UNCHANGED <<pc, cur, delaying, cache, server, aliasVars, crashes>> /\ cmd' # "RESTART"
  BY DEF Environment, Signal, WanChange, Recover, Crash, DownTick, Boot, envVars,
     SyncConfig, ReachInv
<1> QED BY <1>1 DEF ReachInv, DiskInv, CheckipInv, UpdateInv, WriteSyncInv, Writing, IdleInv,
     Starting, Known, Synced, Passed, aliasVars

LEMMA NextSync == ASSUME SyncConfig, SyncInv, [Next]_vars PROVE SyncInv'
<1>1. TypeInv'
  BY NextType DEF SyncInv
<1>2. Rest'
  <2>1. CASE UNCHANGED vars
    BY <2>1 DEF SyncInv, Rest, vars, aliasVars, envVars, ReachInv, DiskInv, CheckipInv,
       UpdateInv, WriteSyncInv, Writing, IdleInv, Starting, Known, Synced, Passed
  <2>2. CASE FakeUpdate \/ FakeSkip \/ ResetRestart
    BY <2>2 DEF SyncInv, ReachInv, FakeUpdate, FakeSkip, ResetRestart
  <2>3. CASE Process
    BY <2>2, <2>3, ReloadSync, InitContextSync, GetAddressSync, CheckAliasUpdateTableSync,
       UpdateSkipSync, UpdateAliasSync, OpenCacheFileSync, WriteCacheFileSync, EndProviderSync,
       CountIterationSync, WaitTickSync, ControlSync DEF Process
  <2> QED BY <2>1, <2>3, EnvironmentSync DEF Next, Terminated
<1> QED BY <1>1, <1>2 DEF SyncInv, Rest

\* While the daemon sleeps, every record is the one it believes in, or is
\* marked for another try: no failure of the network or of a server loses an
\* update.
THEOREM NoLostUpdate == ASSUME SyncConfig PROVE Spec => []InSyncOrRetry
<1>1. Init => SyncInv
  BY InitType DEF Init, SyncInv, ReachInv, DiskInv, CheckipInv, UpdateInv, WriteSyncInv, Writing, IdleInv
<1>2. SyncInv /\ [Next]_vars => SyncInv'
  BY NextSync
<1>3. SyncInv => InSyncOrRetry
  BY DEF SyncInv, IdleInv, InSyncOrRetry, Synced
<1> QED BY <1>1, <1>2, <1>3, PTL DEF Spec

-----------------------------------------------------------------------------
(* Every update has a reason *)

\* The reasons for an update.
Justified(a) == server[a] # address[a] \/ TimeToCheck(a)

\* A change get_address() has seen is a change of the record.
ChangeInv ==
  pc = "checkip" => \A a \in Alias : a[1] < cur[1] /\ ip_has_changed[a] => Justified(a)

\* The updates update_alias_table() has yet to send have a reason.
SendInv ==
  /\ pc = "update" => \A a \in Alias : ~Passed(a) /\ update_required[a] => Justified(a)
  /\ Writing => \A a \in Alias : ~Passed(a) /\ a # cur /\ update_required[a] => Justified(a)

\* Outside the loops the cursor is back at the first alias.
HomeInv == pc \notin {"checkip", "fake", "update", "open", "write", "provider"} => cur = First

JustInv == HomeInv /\ ChangeInv /\ SendInv

\* Every loop leaves its cursor there for the next one.
LEMMA NextHome == ASSUME TypeInv, HomeInv, [Next]_vars PROVE HomeInv'
<1>1. CASE UNCHANGED <<pc, cur>>
  BY <1>1 DEF HomeInv
<1>2. CASE Reload \/ InitContext \/ CountIteration \/ Crash
  BY <1>2 DEF HomeInv, Reload, InitContext, CountIteration, Crash
<1>3. CASE GetAddress \/ CheckAliasUpdateTable \/ FakeUpdate \/ FakeSkip \/ UpdateSkip
           \/ OpenCacheFile \/ WriteCacheFile \/ EndProvider
  BY <1>3 DEF HomeInv, GetAddress, CheckAliasUpdateTable, FakeUpdate, FakeSkip, UpdateSkip,
     OpenCacheFile, WriteCacheFile, EndProvider
<1>4. CASE UpdateAlias
  BY <1>4, OutcomeFacts DEF HomeInv, UpdateAlias
<1>5. CASE StartDelay \/ TestRestart \/ ResetRestart \/ CheckError \/ WaitTick \/ WaitDone
           \/ TestStop \/ TestRestartAgain \/ TestForced \/ TestCheckNow \/ ClearCmd \/ Boot
  BY <1>5 DEF HomeInv, StartDelay, TestRestart, ResetRestart, CheckError, WaitTick, WaitDone,
     TestStop, TestRestartAgain, TestForced, TestCheckNow, ClearCmd, NextRound, Boot
<1>6. CASE (\E s \in Signals : Signal(s)) \/ WanChange \/ Recover \/ DownTick \/ Terminated
           \/ UNCHANGED vars
  BY <1>1, <1>6 DEF Signal, WanChange, Recover, DownTick, Terminated, vars
<1> QED BY <1>2, <1>3, <1>4, <1>5, <1>6 DEF Next, Process, Environment

\* What makes a change of the address one of the record: before the look the
\* record is the believed one, or an update is due anyway.
LEMMA GetAddressJust ==
  ASSUME SyncInv, JustInv, CheckipFails = FALSE, GetAddress PROVE ChangeInv' /\ SendInv'
<1>1. SendInv'
  BY DEF SendInv, Writing, GetAddress
<1>2. ChangeInv'
  <2> SUFFICES ASSUME NEW a \in Alias, a[1] < cur'[1], ip_has_changed'[a]
               PROVE  Justified(a)'
    BY DEF ChangeInv
  <2>1. /\ a[1] \in Nat /\ cur[1] \in Nat /\ cur'[1] = cur[1] + 1
        /\ UNCHANGED <<server, force_addr_update, age>>
    BY AliasParts, ConfigAssumption
       DEF GetAddress, NextInfo, SyncInv, TypeInv, TypeOK, ControlType, Cursor, envVars
  <2>2. CASE a[1] = cur[1]
    <3>1. address'[a] = wan /\ address[a] # wan
      BY <2>2 DEF GetAddress, IpHasChanged
    <3>2. Known(a)
      BY <2>1, <2>2 DEF SyncInv, CheckipInv, GetAddress
    <3> QED BY <2>1, <3>1, <3>2 DEF Known, Synced, Justified, TimeToCheck
  <2>3. CASE a[1] # cur[1]
    <3>1. address'[a] = address[a] /\ ip_has_changed'[a] = ip_has_changed[a]
      BY <2>3 DEF GetAddress
    <3> QED BY <2>1, <2>3, <3>1 DEF JustInv, ChangeInv, GetAddress, Justified, TimeToCheck
  <2> QED BY <2>2, <2>3
<1> QED BY <1>1, <1>2

\* An update is required of an alias that changed, or whose time has come.
LEMMA CheckAliasUpdateTableJust ==
  ASSUME SyncInv, JustInv, CheckAliasUpdateTable PROVE ChangeInv' /\ SendInv'
<1>1. ChangeInv' /\ ~Writing'
  BY DEF Writing, ChangeInv, CheckAliasUpdateTable
<1>2. ASSUME NEW a \in Alias, update_required'[a] PROVE Justified(a)'
  <2>1. a[1] < cur[1]
    BY AllPassed DEF CheckAliasUpdateTable, SyncInv, TypeInv, TypeOK
  <2>2. Justified(a)
    BY <1>2, <2>1 DEF JustInv, ChangeInv, CheckAliasUpdateTable, Justified
  <2> QED BY <2>2 DEF Justified, TimeToCheck, CheckAliasUpdateTable, envVars
<1> QED BY <1>1, <1>2 DEF JustInv, SendInv, Writing

\* An update changes no other alias.
LEMMA UpdateAliasJust ==
  ASSUME SyncConfig, SyncInv, JustInv, UpdateAlias PROVE ChangeInv' /\ SendInv'
<1>1. cur \in Alias /\ ControlType
  BY CursorAlias DEF UpdateAlias, SyncInv, TypeInv, TypeOK
<1>2. PICK o \in Outcomes :
        /\ SendUpdate(cur, address[cur], o)
        /\ pc' = AfterSend(o)
        /\ cur' = IF pc' = "update" THEN NextAlias ELSE cur
        /\ o.at # "done" => UNCHANGED <<update_required, age>>
        /\ o.at = "done" => /\ update_required' = [update_required EXCEPT ![cur] = FALSE]
                            /\ age' = [age EXCEPT ![cur] = 0]
  BY DEF UpdateAlias
<1>3. pc' \in {"open", "update"}
  BY <1>2, OutcomeFacts, FailureMarks DEF SyncConfig
<1>4. address' = address
  BY DEF UpdateAlias
<1>5. ASSUME NEW a \in Alias, a # cur
      PROVE  (Justified(a)' <=> Justified(a)) /\ update_required'[a] = update_required[a]
  BY <1>1, <1>2, <1>4, <1>5
     DEF SendUpdate, Justified, TimeToCheck, SyncInv, TypeInv, TypeOK, AliasType, EnvType
<1>6. \A a \in Alias : ~Passed(a) /\ update_required[a] => Justified(a)
  BY DEF JustInv, SendInv, Writing, UpdateAlias
<1>7. Writing' => \A a \in Alias : ~Passed(a)' /\ a # cur' /\ update_required'[a] => Justified(a)'
  BY <1>2, <1>5, <1>6 DEF Writing, Passed
<1>8. ASSUME pc' = "update", NEW a \in Alias, ~Passed(a)', update_required'[a]
      PROVE  Justified(a)'
  <2>1. Passed(a)' <=> Passed(a) \/ a = cur
    BY <1>1, <1>2, <1>8, PassOne DEF UpdateAlias
  <2> QED BY <1>5, <1>6, <1>8, <2>1
<1> QED BY <1>3, <1>7, <1>8 DEF JustInv, SendInv, Writing, ChangeInv

\* The steps that only move the cursor of update_alias_table().
LEMMA CursorJust ==
  ASSUME SyncInv, JustInv, UpdateSkip \/ OpenCacheFile \/ WriteCacheFile \/ EndProvider PROVE ChangeInv' /\ SendInv'
<1>1. /\ ControlType /\ UNCHANGED <<aliasVars, server>>
      /\ pc' = "update" \/ (OpenCacheFile /\ pc' = "write" /\ cur' = cur)
  BY DEF UpdateSkip, OpenCacheFile, WriteCacheFile, EndProvider, SyncInv, TypeInv, TypeOK, envVars
<1>2. ASSUME NEW a \in Alias, pc' = "update", ~Passed(a)', update_required'[a]
      PROVE  Justified(a)'
  <2>1. ~Passed(a) /\ (Writing => a # cur) /\ update_required[a]
    <3>1. CASE UpdateSkip \/ OpenCacheFile \/ WriteCacheFile
      BY <1>1, <1>2, <3>1, PassOne
         DEF UpdateSkip, OpenCacheFile, WriteCacheFile, SyncInv, TypeInv, CursorInv, Writing, aliasVars
    <3>2. CASE EndProvider
      BY <1>1, <1>2, <3>2, PassInfo DEF Writing, EndProvider, SyncInv, ReachInv, aliasVars
    <3> QED BY <3>1, <3>2
  <2>2. Justified(a)
    BY <2>1 DEF JustInv, SendInv, Writing, UpdateSkip, OpenCacheFile, WriteCacheFile, EndProvider, SyncInv, ReachInv
  <2> QED BY <1>1, <2>2 DEF Justified, TimeToCheck, aliasVars
<1>3. CASE pc' = "write"
  BY <1>1, <1>3
     DEF OpenCacheFile, JustInv, ChangeInv, SendInv, Writing, Justified, TimeToCheck, Passed, aliasVars
<1> QED BY <1>1, <1>2, <1>3 DEF JustInv, ChangeInv, SendInv, Writing

\* A new round starts with nothing looked at.
LEMMA OtherJust ==
  ASSUME SyncInv, JustInv,
         \/ Reload \/ StartDelay \/ InitContext \/ CountIteration \/ TestRestart
         \/ CheckError \/ WaitTick \/ WaitDone \/ TestStop \/ TestRestartAgain
         \/ TestForced \/ TestCheckNow \/ ClearCmd
  PROVE  ChangeInv' /\ SendInv'
<1>1. pc' # "update" /\ ~Writing' /\ (pc' = "checkip" => cur' = First)
  <2>1. CASE Reload \/ StartDelay \/ InitContext \/ CountIteration
    BY <2>1 DEF Writing, Reload, StartDelay, InitContext, CountIteration
  <2>2. CASE TestRestart \/ CheckError \/ WaitTick \/ WaitDone \/ TestStop \/ TestRestartAgain
    BY <2>2 DEF Writing, TestRestart, CheckError, WaitTick, WaitDone, TestStop, TestRestartAgain
  <2>3. CASE TestForced \/ TestCheckNow \/ ClearCmd
    BY <2>3 DEF Writing, TestForced, TestCheckNow, ClearCmd, NextRound, JustInv, HomeInv
  <2> QED BY <2>1, <2>2, <2>3
<1>2. ASSUME NEW a \in Alias, cur' = First PROVE ~(a[1] < cur'[1])
  BY <1>2, AliasParts DEF First
<1> QED BY <1>1, <1>2 DEF ChangeInv, SendInv, Writing

\* The environment changes neither records nor beliefs.
LEMMA EnvironmentJust ==
  ASSUME SyncConfig, SyncInv, JustInv, Environment PROVE ChangeInv' /\ SendInv'
<1>1. UNCHANGED <<pc, cur, server, aliasVars>>
  BY DEF Environment, Signal, WanChange, Recover, Crash, DownTick, Boot, envVars,
     SyncConfig, SyncInv, ReachInv
<1> QED BY <1>1 DEF JustInv, ChangeInv, SendInv, Writing, Justified, TimeToCheck, Passed, aliasVars

LEMMA NextJust ==
  ASSUME SyncConfig, CheckipFails = FALSE, SyncInv, JustInv, [Next]_vars PROVE JustInv'
<1>1. HomeInv'
  BY NextHome DEF SyncInv, JustInv
<1>2. CASE UNCHANGED vars
  BY <1>1, <1>2 DEF JustInv, ChangeInv, SendInv, Writing, Justified, TimeToCheck, Passed, vars,
     aliasVars, envVars
<1>3. CASE FakeUpdate \/ FakeSkip \/ ResetRestart
  BY <1>3 DEF SyncInv, ReachInv, FakeUpdate, FakeSkip, ResetRestart
<1>4. CASE Process
  BY <1>1, <1>3, <1>4, GetAddressJust, CheckAliasUpdateTableJust, UpdateAliasJust, CursorJust,
     OtherJust DEF Process, JustInv
<1> QED BY <1>1, <1>2, <1>4, EnvironmentJust DEF Next, Terminated, JustInv

\* An update is sent only when it changes the record, was asked for or failed
\* before, or is due by the forced-update period, as long as every look at the
\* address succeeds: get_address() leaves an old ip_has_changed behind when one
\* fails.
THEOREM SendsHaveReason ==
  ASSUME SyncConfig, CheckipFails = FALSE PROVE Spec => []SendsJustified
<1>1. Init => SyncInv /\ JustInv
  BY InitType DEF Init, SyncInv, ReachInv, DiskInv, CheckipInv, UpdateInv, WriteSyncInv, Writing,
     IdleInv, JustInv, HomeInv, ChangeInv, SendInv
<1>2. SyncInv /\ JustInv /\ [Next]_vars => SyncInv' /\ JustInv'
  BY NextSync, NextJust
<1>3. SyncInv /\ JustInv => SendsJustified
  <2> SUFFICES ASSUME SyncInv, JustInv, pc = "update", InAlias, update_required[cur]
               PROVE  Justified(cur)
    BY DEF SendsJustified, Justified
  <2>1. cur \in Alias
    BY CursorAlias DEF SyncInv, TypeInv, TypeOK
  <2> QED BY <2>1, AliasParts DEF JustInv, SendInv, Writing, Passed
<1> QED BY <1>1, <1>2, <1>3, PTL DEF Spec

-----------------------------------------------------------------------------
(* Where the startup delay and the errors of event mode lead *)

\* In event mode no error ends a provider's loop, and only wait_for_cmd() runs in
\* the startup delay.
DelayInv ==
  /\ pc # "provider"
  /\ delaying => pc \in {"wait", "stop?", "restart?", "forced?", "check?", "clear", "exit", "reload"}

\* Only the startup delay sets its flag, and every way out of it resets it.
LEMMA NextDelay == ASSUME FailuresMarked, TypeInv, DelayInv, [Next]_vars PROVE DelayInv'
<1>1. CASE UNCHANGED <<pc, delaying>>
  BY <1>1 DEF DelayInv
<1>2. CASE Reload \/ StartDelay \/ Crash
  BY <1>2 DEF DelayInv, Reload, StartDelay, Crash
<1>3. CASE CheckAliasUpdateTable \/ FakeUpdate \/ FakeSkip \/ UpdateSkip \/ UpdateAlias
           \/ OpenCacheFile \/ WriteCacheFile \/ EndProvider \/ CountIteration \/ CheckError
  <2>1. delaying' = delaying /\ pc \in {"checkip", "fake", "update", "open", "write", "error"}
    BY <1>3 DEF DelayInv, CheckAliasUpdateTable, FakeUpdate, FakeSkip, UpdateSkip, UpdateAlias,
       OpenCacheFile, WriteCacheFile, EndProvider, CountIteration, CheckError
  <2>2. pc' # "provider"
    <3>1. CASE UpdateAlias
      BY <3>1, OutcomeFacts, FailureMarks DEF UpdateAlias
    <3>2. CASE ~UpdateAlias
      BY <1>3, <2>1, <3>2 DEF CheckAliasUpdateTable, FakeUpdate, FakeSkip, UpdateSkip,
         OpenCacheFile, WriteCacheFile, EndProvider, CountIteration, CheckError
    <3> QED BY <3>1, <3>2
  <2> QED BY <2>1, <2>2 DEF DelayInv
<1>4. CASE InitContext \/ GetAddress \/ TestRestart \/ DownTick
  <2>1. delaying' = delaying /\ pc' # "provider" /\ pc \in {"init", "checkip", "restart", "down"}
    BY <1>4 DEF InitContext, GetAddress, TestRestart, DownTick
  <2> QED BY <2>1 DEF DelayInv
<1>5. CASE ResetRestart \/ WaitDone \/ TestStop \/ TestRestartAgain \/ TestForced \/ Boot
  <2>1. pc' \in {"reload", "stop?", "exit", "restart?", "forced?", "clear", "check?"}
    BY <1>5 DEF ResetRestart, WaitDone, TestStop, TestRestartAgain, TestForced, Boot
  <2> QED BY <2>1 DEF DelayInv
<1>6. CASE TestCheckNow \/ ClearCmd
  BY <1>6 DEF DelayInv, TestCheckNow, ClearCmd, NextRound, TypeInv, TypeOK, ControlType
<1>7. CASE WaitTick \/ (\E s \in Signals : Signal(s)) \/ WanChange \/ Recover \/ Terminated
           \/ UNCHANGED vars
  BY <1>1, <1>7 DEF WaitTick, Signal, WanChange, Recover, Terminated, vars
<1> QED BY <1>2, <1>3, <1>4, <1>5, <1>6, <1>7 DEF Next, Process, Environment

-----------------------------------------------------------------------------
(* Every alias is updated in time *)

\* The configurations the theorem is about: a fatal error that is ignored at the
\* first check leaves the period it started with, so that has a bound too.
TimelyConfig == FailuresMarked /\ DefaultPeriod <= Slack /\ StartupDelay <= Slack

Overdue(a) == age[a] > ForcedPeriod

\* No sleep is longer than the longest period.
PeriodInv == update_period <= Slack /\ counter <= update_period

\* An overdue alias is due in the fake round and in the update loop, until that
\* has passed it: then its update has failed and is marked.
OverdueInv ==
  /\ pc = "fake" => \A a \in Alias : Overdue(a) => update_required[a]
  /\ pc = "update" => \A a \in Alias :
       Overdue(a) => force_addr_update[a] \/ (~Passed(a) /\ update_required[a])
  /\ Writing => \A a \in Alias :
       Overdue(a) => force_addr_update[a] \/ (~Passed(a) /\ a # cur /\ update_required[a])

\* After the loop only the marked ones are overdue,
RoundInv == pc \in {"restart", "error"} => \A a \in Alias : Overdue(a) => force_addr_update[a]

\* and the others become so by no more than what is left of the sleep.
SleepInv ==
  pc = "wait" /\ ~delaying =>
    \A a \in Alias : age[a] + counter > ForcedPeriod + Slack => force_addr_update[a]

TimelyRest == PeriodInv /\ OverdueInv /\ RoundInv /\ SleepInv
TimelyInv  == TypeInv /\ DelayInv /\ TimelyRest

\* Slack is the longer of the two configured periods.
LEMMA SlackFacts == Slack \in Nat /\ NormalPeriod <= Slack /\ ErrorPeriod <= Slack
<1>1. \E m \in {NormalPeriod, ErrorPeriod} : m >= NormalPeriod /\ m >= ErrorPeriod
  BY PeriodAssumption
<1>2. Slack \in {NormalPeriod, ErrorPeriod} /\ Slack >= NormalPeriod /\ Slack >= ErrorPeriod
  BY <1>1 DEF Slack
<1> QED BY <1>2, PeriodAssumption

\* check_alias_update_table() finds every overdue alias.
LEMMA CheckAliasUpdateTableTimely ==
  ASSUME TimelyInv, CheckAliasUpdateTable PROVE TimelyRest'
<1> USE DEF TimelyInv, TimelyRest
<1>1. PeriodInv' /\ RoundInv' /\ SleepInv' /\ ~Writing'
  BY DEF Writing, PeriodInv, RoundInv, SleepInv, CheckAliasUpdateTable, ctxVars
<1>2. ASSUME NEW a \in Alias, Overdue(a)' PROVE update_required'[a] /\ ~Passed(a)'
  BY <1>2, NonePassed DEF Overdue, CheckAliasUpdateTable, TimeToCheck
<1> QED BY <1>1, <1>2 DEF OverdueInv, Writing

\* A fake update takes no alias from the update loop.
LEMMA FakeTimely == ASSUME TimelyInv, FakeUpdate \/ FakeSkip PROVE TimelyRest'
<1> USE DEF TimelyInv, TimelyRest
<1>1. /\ PeriodInv' /\ RoundInv' /\ SleepInv'
      /\ pc' \in {"fake", "update"} /\ UNCHANGED <<age, update_required>>
  BY DEF PeriodInv, RoundInv, SleepInv, FakeUpdate, FakeSkip, ctxVars, aliasVars
<1>2. \A a \in Alias : Overdue(a)' => update_required'[a]
  BY <1>1 DEF OverdueInv, Writing, Overdue, FakeUpdate, FakeSkip
<1>3. \A a \in Alias : pc' = "update" => ~Passed(a)'
  BY NonePassed DEF FakeUpdate, FakeSkip
<1> QED BY <1>1, <1>2, <1>3 DEF OverdueInv, Writing

\* An update that succeeds makes the alias young, one that fails marks it.
LEMMA UpdateAliasTimely ==
  ASSUME FailuresMarked, TimelyInv, UpdateAlias PROVE TimelyRest'
<1> USE DEF TimelyInv, TimelyRest
<1>1. cur \in Alias /\ ControlType
  BY CursorAlias DEF UpdateAlias, TypeInv, TypeOK
<1>2. PICK o \in Outcomes :
        /\ SendUpdate(cur, address[cur], o)
        /\ pc' = AfterSend(o)
        /\ cur' = IF pc' = "update" THEN NextAlias ELSE cur
        /\ o.at # "done" => UNCHANGED <<update_required, age>>
        /\ o.at = "done" => /\ update_required' = [update_required EXCEPT ![cur] = FALSE]
                            /\ age' = [age EXCEPT ![cur] = 0]
  BY DEF UpdateAlias
<1>3. pc' \in {"open", "update"}
  BY <1>2, OutcomeFacts, FailureMarks
<1>4. PeriodInv' /\ RoundInv' /\ SleepInv'
  BY <1>3 DEF PeriodInv, RoundInv, SleepInv, UpdateAlias, ctxVars
<1>5. age'[cur] > ForcedPeriod => force_addr_update'[cur]
  <2>1. CASE o.at = "done"
    <3>1. age'[cur] = 0
      BY <1>1, <1>2, <2>1 DEF TypeInv, TypeOK, AliasType
    <3> QED BY <3>1, PeriodAssumption
  <2>2. CASE o.at # "done"
    BY <1>1, <1>2, <2>2, FailureMarks DEF SendUpdate, TypeInv, TypeOK, AliasType
  <2> QED BY <2>1, <2>2
<1>6. ASSUME NEW a \in Alias, a # cur
      PROVE  age'[a] = age[a] /\ update_required'[a] = update_required[a]
             /\ force_addr_update'[a] = force_addr_update[a]
  BY <1>1, <1>2, <1>6 DEF SendUpdate, TypeInv, TypeOK, AliasType
<1>7. ASSUME NEW a \in Alias, a # cur, Overdue(a)'
      PROVE  force_addr_update'[a] \/ (~Passed(a) /\ update_required'[a])
  BY <1>6, <1>7 DEF OverdueInv, Writing, UpdateAlias, Overdue
<1>8. ASSUME NEW a \in Alias, pc' = "update" PROVE Passed(a)' <=> Passed(a) \/ a = cur
  BY <1>1, <1>2, <1>8, PassOne DEF UpdateAlias
<1>9. ASSUME NEW a \in Alias, Writing' PROVE cur' = cur /\ (Passed(a)' <=> Passed(a))
  BY <1>2, <1>9 DEF Writing, Passed
<1>10. ASSUME NEW a \in Alias, Overdue(a)', ~force_addr_update'[a]
       PROVE  /\ a # cur /\ update_required'[a]
              /\ pc' = "update" => ~Passed(a)'
              /\ Writing' => ~Passed(a)' /\ a # cur'
  BY <1>5, <1>7, <1>8, <1>9, <1>10 DEF Overdue
<1>11. OverdueInv'
  BY <1>3, <1>10 DEF OverdueInv, Writing
<1> QED BY <1>4, <1>11

\* The steps that only move the cursor of update_alias_table().
LEMMA CursorTimely ==
  ASSUME FailuresMarked, TimelyInv, UpdateSkip \/ OpenCacheFile \/ WriteCacheFile \/ EndProvider
  PROVE  TimelyRest'
<1> USE DEF TimelyInv, TimelyRest
<1>1. /\ ControlType /\ UNCHANGED <<aliasVars, ctxVars, delaying>>
      /\ pc' = "update" \/ (OpenCacheFile /\ pc' = "write" /\ cur' = cur)
  BY DEF UpdateSkip, OpenCacheFile, WriteCacheFile, EndProvider, TypeInv, TypeOK
<1>2. PeriodInv' /\ RoundInv' /\ SleepInv'
  BY <1>1 DEF PeriodInv, RoundInv, SleepInv, UpdateSkip, OpenCacheFile, WriteCacheFile, EndProvider, ctxVars
<1>3. ASSUME NEW a \in Alias, pc' = "update", Overdue(a), ~force_addr_update[a]
      PROVE  ~Passed(a)' /\ update_required[a]
  <2>1. CASE UpdateSkip
    BY <1>1, <1>3, <2>1, PassOne DEF UpdateSkip, OverdueInv, Writing
  <2>2. CASE OpenCacheFile \/ WriteCacheFile
    BY <1>1, <1>3, <2>2, PassOne DEF OpenCacheFile, WriteCacheFile, TypeInv, CursorInv, OverdueInv, Writing
  <2>3. CASE EndProvider
    BY <1>1, <1>3, <2>3, PassInfo DEF EndProvider, OverdueInv, Writing, DelayInv
  <2> QED BY <2>1, <2>2, <2>3
<1>4. CASE pc' = "write"
  BY <1>1, <1>2, <1>4 DEF OpenCacheFile, OverdueInv, Writing, Overdue, Passed, aliasVars
<1> QED BY <1>1, <1>2, <1>3, <1>4 DEF OverdueInv, Writing, Overdue, aliasVars

\* At the end of the loop it has passed every alias.
LEMMA CountIterationTimely == ASSUME TimelyInv, CountIteration PROVE TimelyRest'
<1> USE DEF TimelyInv, TimelyRest
<1>1. PeriodInv' /\ OverdueInv' /\ SleepInv'
  BY DEF PeriodInv, OverdueInv, Writing, SleepInv, CountIteration
<1>2. RoundInv'
  BY AllPassed DEF RoundInv, OverdueInv, Writing, Overdue, CountIteration, aliasVars, TypeInv, TypeOK
<1> QED BY <1>1, <1>2

\* The sleep that follows is one of the periods.
LEMMA CheckErrorTimely == ASSUME TimelyConfig, TimelyInv, CheckError PROVE TimelyRest'
<1> USE DEF TimelyInv, TimelyRest
<1>1. OverdueInv' /\ RoundInv'
  BY DEF OverdueInv, Writing, RoundInv, CheckError
<1>2. PeriodInv'
  <2>1. update_period \in Nat /\ counter \in Nat
    BY DEF TypeInv, TypeOK, ControlType
  <2>2. update_period' \in {NormalPeriod, ErrorPeriod, update_period}
        /\ counter' \in {update_period', counter}
        /\ (counter' = counter => update_period' = update_period \/ counter' = update_period')
    BY DEF CheckError
  <2> QED BY <2>1, <2>2, SlackFacts, PeriodAssumption DEF PeriodInv
<1>3. SleepInv'
  <2> SUFFICES ASSUME NEW a \in Alias, pc' = "wait",
                      age[a] + counter' > ForcedPeriod + Slack
               PROVE  force_addr_update[a]
    BY DEF SleepInv, CheckError, aliasVars
  <2>1. age[a] \in Nat /\ counter' \in Nat /\ counter' <= Slack
    <3>1. age[a] \in Nat
      BY PeriodAssumption DEF TypeInv, TypeOK, AliasType
    <3>2. counter' = update_period' /\ update_period' \in {NormalPeriod, ErrorPeriod, update_period}
      BY DEF CheckError
    <3> QED BY <3>1, <3>2, SlackFacts, PeriodAssumption
         DEF PeriodInv, TypeInv, TypeOK, ControlType
  <2>2. age[a] > ForcedPeriod
    BY <2>1, SlackFacts, PeriodAssumption
  <2> QED BY <2>2 DEF RoundInv, CheckError, Overdue
<1> QED BY <1>1, <1>2, <1>3

\* An age and the rest of the sleep move against each other.
LEMMA WaitTickTimely == ASSUME TimelyInv, WaitTick PROVE TimelyRest'
<1> USE DEF TimelyInv, TimelyRest
<1>1. counter \in Nat /\ update_period \in Nat /\ counter > 0
  BY DEF TypeInv, TypeOK, ControlType, WaitTick
<1>2. OverdueInv' /\ RoundInv'
  BY DEF OverdueInv, Writing, RoundInv, WaitTick
<1>3. PeriodInv'
  BY <1>1, SlackFacts DEF PeriodInv, WaitTick
<1>4. SleepInv'
  <2> SUFFICES ASSUME NEW a \in Alias, ~delaying,
                      age'[a] + counter' > ForcedPeriod + Slack
               PROVE  force_addr_update[a]
    BY DEF SleepInv, WaitTick
  <2>1. age[a] \in Nat /\ age'[a] \in Nat /\ age'[a] <= age[a] + 1
    BY PeriodAssumption DEF TypeInv, TypeOK, AliasType, WaitTick, Tick, Older
  <2>2. age[a] + counter > ForcedPeriod + Slack
    BY <1>1, <2>1, SlackFacts, PeriodAssumption DEF WaitTick
  <2> QED BY <2>2 DEF SleepInv, WaitTick
<1> QED BY <1>2, <1>3, <1>4

\* A start, whatever it finds, goes through a whole loop before its first sleep.
LEMMA StartTimely ==
  ASSUME TimelyConfig, TimelyInv, Reload \/ StartDelay \/ Crash PROVE TimelyRest'
<1> USE DEF TimelyInv, TimelyRest
<1>1. OverdueInv' /\ RoundInv' /\ SleepInv'
  BY DEF OverdueInv, Writing, RoundInv, SleepInv, Reload, StartDelay, Crash
<1>2. PeriodInv'
  <2>1. \/ UNCHANGED <<update_period, counter>>
        \/ update_period' = DefaultPeriod /\ counter' = 0
        \/ update_period' = StartupDelay /\ counter' = StartupDelay
    BY DEF Reload, StartDelay, Crash
  <2> QED BY <2>1, PeriodAssumption DEF TimelyConfig, PeriodInv
<1> QED BY <1>1, <1>2

\* The other steps reach no sleep and no loop.
LEMMA OtherTimely ==
  ASSUME TimelyInv,
         \/ InitContext \/ GetAddress \/ TestRestart \/ ResetRestart \/ WaitDone
         \/ TestStop \/ TestRestartAgain \/ TestForced \/ TestCheckNow \/ ClearCmd
         \/ DownTick \/ Boot
  PROVE  TimelyRest'
<1> USE DEF TimelyInv, TimelyRest
<1>1. PeriodInv'
  <2>1. update_period' = update_period /\ counter' \in {counter, 0}
    BY DEF InitContext, GetAddress, TestRestart, ResetRestart, WaitDone, TestStop,
       TestRestartAgain, TestForced, TestCheckNow, ClearCmd, DownTick, Boot, ctxVars
  <2> QED BY <2>1 DEF PeriodInv, TypeInv, TypeOK, ControlType
<1>2. OverdueInv' /\ SleepInv'
  BY DEF OverdueInv, Writing, SleepInv, InitContext, GetAddress, TestRestart, ResetRestart, WaitDone,
     TestStop, TestRestartAgain, TestForced, TestCheckNow, ClearCmd, NextRound, DownTick, Boot
<1>3. RoundInv'
  BY DEF RoundInv, Overdue, InitContext, GetAddress, TestRestart, ResetRestart, WaitDone,
     TestStop, TestRestartAgain, TestForced, TestCheckNow, ClearCmd, NextRound, DownTick, Boot,
     aliasVars
<1> QED BY <1>1, <1>2, <1>3

LEMMA NextTimely == ASSUME TimelyConfig, TimelyInv, [Next]_vars PROVE TimelyInv'
<1>1. TypeInv' /\ DelayInv'
  BY NextType, NextDelay DEF TimelyInv, TimelyConfig
<1>2. TimelyRest'
  <2>1. CASE UNCHANGED <<pc, cur, delaying, ctxVars, aliasVars>>
    BY <2>1 DEF TimelyInv, TimelyRest, PeriodInv, OverdueInv, Writing, RoundInv, SleepInv,
       Overdue, Passed, ctxVars, aliasVars
  <2>2. CASE Process
    BY <2>2, StartTimely, OtherTimely, CheckAliasUpdateTableTimely, FakeTimely,
       UpdateAliasTimely, CursorTimely, CountIterationTimely, CheckErrorTimely,
       WaitTickTimely DEF Process, TimelyConfig
  <2>3. CASE Environment
    BY <2>1, <2>3, StartTimely, OtherTimely DEF Environment, Signal, WanChange, Recover
  <2> QED BY <2>1, <2>2, <2>3 DEF Next, Terminated, vars
<1> QED BY <1>1, <1>2 DEF TimelyInv

\* forced-update is honoured, with fake updates, restarts and crashes too: while
\* the daemon sleeps, an alias older than the forced-update period by more than
\* one sleep is one whose update was tried and failed.
THEOREM ForcedInTime == ASSUME TimelyConfig PROVE Spec => []ForcedOnTime
<1>1. Init => TimelyInv
  BY InitType, PeriodAssumption DEF Init, TimelyConfig, TimelyInv, TimelyRest, PeriodInv,
     OverdueInv, Writing, RoundInv, SleepInv, DelayInv
<1>2. TimelyInv /\ [Next]_vars => TimelyInv'
  BY NextTimely
<1>3. TimelyInv => ForcedOnTime
  <2> SUFFICES ASSUME TimelyInv, pc = "wait", ~delaying, NEW a \in Alias,
                      age[a] > ForcedPeriod + Slack
               PROVE  force_addr_update[a]
    BY DEF ForcedOnTime
  <2>1. age[a] \in Nat /\ counter \in Nat
    BY PeriodAssumption DEF TimelyInv, TypeInv, TypeOK, AliasType, ControlType
  <2>2. age[a] + counter > ForcedPeriod + Slack
    BY <2>1, SlackFacts, PeriodAssumption
  <2> QED BY <2>2 DEF TimelyInv, TimelyRest, SleepInv
<1> QED BY <1>1, <1>2, <1>3, PTL DEF Spec

-----------------------------------------------------------------------------
(* What the daemon believes to be published is *)

\* The configurations the theorem is about: an interface that gets no earlier
\* address back, and a cache file for each alias.
CurrentConfig ==
  /\ FailuresMarked /\ FakeAddr = FALSE /\ Flapping = FALSE
  /\ \A a, b \in Alias : CacheFile[a] = CacheFile[b] => a = b

\* A belief in the current address is right, or the update will be tried again.
Fresh(a) == address[a] = wan => server[a] = wan \/ force_addr_update[a]

\* The memory does not hold the cache files: they are still to be read, or the
\* process is gone.
Unread == Starting \/ pc \in {"down", "exit"}

\* Every address that is known somewhere is the current or an earlier one.
PastInv ==
  /\ \A a \in Alias : address[a] <= wan /\ server[a] <= wan
  /\ \A f \in File : cache[f].addr <= wan

\* A file that holds the current address was written with what its server holds,
\* and memory agrees with it: no later send can undo that.
FileInv ==
  \A a \in Alias : cache[CacheFile[a]].addr = wan =>
    server[a] = wan /\ (Unread \/ address[a] = wan)

\* In get_address(): a belief that is not right is one it has just formed.
LookInv ==
  pc = "checkip" => \A a \in Alias :
    Fresh(a) \/ age[a] > ForcedPeriod \/ (a[1] < cur[1] /\ ip_has_changed[a])

\* In the update loop: it is one whose turn is yet to come.
TurnInv ==
  /\ pc = "update" => \A a \in Alias : Fresh(a) \/ (~Passed(a) /\ update_required[a])
  /\ Writing => \A a \in Alias :
       Fresh(a) \/ (~Passed(a) /\ a # cur /\ update_required[a])

\* A cache file is written with what the server has just acknowledged.
AckInv == Writing => server[cur] = address[cur]

Idle ==
  {"restart", "reset", "error", "wait", "stop?", "restart?", "forced?", "check?", "clear"}

\* Between two checks there is none.
RestInv == pc \in Idle /\ ~delaying => \A a \in Alias : Fresh(a)

CurrentRest == PastInv /\ FileInv /\ LookInv /\ TurnInv /\ AckInv /\ RestInv
CurrentInv  == TypeInv /\ DelayInv /\ pc # "fake" /\ CurrentRest

\* The current address is never the empty one.
LEMMA WanFacts == TypeInv => wan \in Nat /\ wan >= 1 /\ wan # Empty /\ wan # NoFile.addr
BY ConfigAssumption DEF TypeInv, TypeOK, EnvType, Addr, Empty, NoFile

\* Addresses are numbers.
LEMMA AddressFacts ==
  ASSUME TypeInv
  PROVE  /\ \A a \in Alias : address[a] \in Int /\ server[a] \in Int
         /\ \A f \in File : cache[f].addr \in Int
<1>1. Address \subseteq Int
  BY ConfigAssumption DEF Address
<1>2. \A a \in Alias : address[a] \in Int /\ server[a] \in Int
  BY <1>1 DEF TypeInv, TypeOK, AliasType, EnvType
<1>3. ASSUME NEW f \in File PROVE cache[f].addr \in Int
  <2>1. cache[f] \in CacheEntry \/ cache[f] = NoFile
    BY DEF TypeInv, TypeOK, EnvType
  <2>2. CASE cache[f] \in CacheEntry
    BY <1>1, <2>2 DEF CacheEntry
  <2>3. CASE cache[f] = NoFile
    <3>1. cache[f].addr = -1
      BY <2>3 DEF NoFile
    <3> QED BY <3>1
  <2> QED BY <2>1, <2>2, <2>3
<1> QED BY <1>2, <1>3

\* A start knows nothing, and the files are left as they were.
LEMMA StartCurrent == ASSUME CurrentInv, Reload \/ Crash PROVE CurrentRest'
<1> USE DEF CurrentInv, CurrentRest
<1>1. /\ address' = All(Empty) /\ pc' \in {"startup", "exit", "down"}
      /\ UNCHANGED <<server, cache, wan>>
  BY DEF Reload, Crash, envVars
<1>2. PastInv'
  BY <1>1, WanFacts DEF PastInv, All, Empty
<1>3. FileInv'
  BY <1>1 DEF FileInv, Unread, Starting
<1> QED BY <1>1, <1>2, <1>3 DEF LookInv, TurnInv, Writing, AckInv, RestInv, Idle

\* init_context() takes a file's address, or what the DNS says of the record.
LEMMA InitContextCurrent == ASSUME CurrentInv, InitContext PROVE CurrentRest'
<1> USE DEF CurrentInv, CurrentRest
<1>1. pc' = "checkip" /\ UNCHANGED <<server, cache, wan>>
  BY DEF InitContext, envVars
<1>2. ASSUME NEW a \in Alias
      PROVE  \/ cache[CacheFile[a]] # NoFile /\ address'[a] = cache[CacheFile[a]].addr
             \/ cache[CacheFile[a]] = NoFile /\ address'[a] \in {server[a], Empty}
  BY DEF InitContext, ReadOne, Resolves
<1>3. ASSUME NEW a \in Alias PROVE CacheFile[a] \in File
  BY ConfigAssumption
<1>4. PastInv'
  BY <1>1, <1>2, <1>3, WanFacts DEF PastInv, Empty
<1>5. FileInv'
  <2> SUFFICES ASSUME NEW a \in Alias, cache[CacheFile[a]].addr = wan
               PROVE  server[a] = wan /\ address'[a] = wan
    BY <1>1 DEF FileInv
  <2> QED BY <1>2, WanFacts DEF FileInv
<1>6. LookInv'
  <2> SUFFICES ASSUME NEW a \in Alias, address'[a] = wan PROVE server[a] = wan
    BY <1>1 DEF LookInv, Fresh
  <2> QED BY <1>2, WanFacts DEF FileInv
<1> QED BY <1>1, <1>4, <1>5, <1>6 DEF TurnInv, Writing, AckInv, RestInv, Idle

\* A look at the interface marks what it changes.
LEMMA GetAddressCurrent == ASSUME CurrentInv, GetAddress PROVE CurrentRest'
<1> USE DEF CurrentInv, CurrentRest
<1>1. pc = "checkip" /\ pc' = pc /\ UNCHANGED <<server, cache, wan, force_addr_update, age, delaying>>
  BY DEF GetAddress, envVars
<1>2. ASSUME NEW a \in Alias
      PROVE  \/ address'[a] = address[a] /\ ip_has_changed'[a] = ip_has_changed[a]
             \/ a[1] = cur[1] /\ address'[a] = wan /\ (ip_has_changed'[a] <=> address[a] # wan)
  <2>1. CASE UNCHANGED <<address, ip_has_changed>>
    BY <2>1
  <2>2. CASE ~UNCHANGED <<address, ip_has_changed>>
    <3>1. /\ address'[a] = IF a[1] = cur[1] THEN wan ELSE address[a]
          /\ ip_has_changed'[a] = IF a[1] = cur[1] THEN IpHasChanged(a) ELSE ip_has_changed[a]
      BY <2>2 DEF GetAddress
    <3> QED BY <3>1 DEF IpHasChanged
  <2> QED BY <2>1, <2>2
<1>3. PastInv'
  BY <1>1, <1>2, WanFacts DEF PastInv
<1>4. FileInv'
  <2>1. ASSUME NEW a \in Alias, cache[CacheFile[a]].addr = wan
        PROVE  server[a] = wan /\ address[a] = wan
    BY <1>1, <2>1 DEF FileInv, Unread, Starting, DelayInv
  <2> QED BY <1>1, <1>2, <2>1 DEF FileInv
<1>5. LookInv'
  <2> SUFFICES ASSUME NEW a \in Alias
               PROVE  \/ Fresh(a)' \/ age'[a] > ForcedPeriod
                      \/ (a[1] < cur'[1] /\ ip_has_changed'[a])
    BY DEF LookInv
  <2>1. /\ a[1] \in Nat /\ cur[1] \in Nat /\ cur'[1] = cur[1] + 1
        /\ Fresh(a) \/ age[a] > ForcedPeriod \/ (a[1] < cur[1] /\ ip_has_changed[a])
    BY AliasParts, ConfigAssumption
       DEF GetAddress, NextInfo, TypeInv, TypeOK, ControlType, Cursor, LookInv
  <2> QED BY <1>1, <1>2, <2>1 DEF Fresh
<1> QED BY <1>1, <1>3, <1>4, <1>5 DEF TurnInv, Writing, AckInv, RestInv, Idle

\* What is marked or overdue is due.
LEMMA CheckAliasUpdateTableCurrent ==
  ASSUME FakeAddr = FALSE, CurrentInv, CheckAliasUpdateTable PROVE CurrentRest'
<1> USE DEF CurrentInv, CurrentRest
<1>1. pc' = "update" /\ UNCHANGED <<address, server, cache, wan, force_addr_update, delaying>>
  BY DEF CheckAliasUpdateTable, envVars
<1>2. PastInv' /\ FileInv'
  BY <1>1 DEF PastInv, FileInv, Unread, Starting, CheckAliasUpdateTable
<1>3. ASSUME NEW a \in Alias PROVE Fresh(a)' \/ (~Passed(a)' /\ update_required'[a])
  <2>1. ~Passed(a)'
    BY NonePassed DEF CheckAliasUpdateTable
  <2>2. Fresh(a) \/ age[a] > ForcedPeriod \/ ip_has_changed[a]
    BY DEF LookInv, CheckAliasUpdateTable
  <2> QED BY <1>1, <2>1, <2>2 DEF Fresh, CheckAliasUpdateTable, TimeToCheck
<1> QED BY <1>1, <1>2, <1>3 DEF LookInv, TurnInv, Writing, AckInv, RestInv, Idle

\* A send publishes what the daemon believes, or marks the alias.
LEMMA UpdateAliasCurrent ==
  ASSUME FailuresMarked, CurrentInv, UpdateAlias PROVE CurrentRest'
<1> USE DEF CurrentInv, CurrentRest
<1>1. cur \in Alias /\ ControlType /\ pc = "update" /\ ~delaying
  BY CursorAlias DEF UpdateAlias, TypeInv, TypeOK, DelayInv
<1>2. PICK o \in Outcomes :
        /\ SendUpdate(cur, address[cur], o)
        /\ pc' = AfterSend(o)
        /\ cur' = IF pc' = "update" THEN NextAlias ELSE cur
        /\ o.at # "done" => update_required' = update_required
        /\ o.at = "done" => update_required' = [update_required EXCEPT ![cur] = FALSE]
  BY DEF UpdateAlias
<1>3. pc' \in {"open", "update"} /\ (pc' = "open" <=> o.at = "done")
  BY <1>2, OutcomeFacts, FailureMarks
<1>4. UNCHANGED <<address, cache, wan, delaying>>
  BY DEF UpdateAlias
<1>5. ASSUME NEW a \in Alias, a # cur
      PROVE  /\ server'[a] = server[a] /\ force_addr_update'[a] = force_addr_update[a]
             /\ update_required'[a] = update_required[a]
  BY <1>1, <1>2, <1>5 DEF SendUpdate, TypeInv, TypeOK, AliasType, EnvType
<1>6. /\ server'[cur] \in {server[cur], address[cur]}
      /\ o.at = "done" => server'[cur] = address[cur]
      /\ o.at # "done" => force_addr_update'[cur] = TRUE
  <2>1. server'[cur] \in {server[cur], address[cur]}
    BY <1>1, <1>2 DEF SendUpdate, TypeInv, TypeOK, EnvType
  <2>2. o.at = "done" => server'[cur] = address[cur]
    BY <1>1, <1>2, OutcomeFacts DEF SendUpdate, TypeInv, TypeOK, EnvType
  <2>3. o.at # "done" => force_addr_update'[cur] = TRUE
    BY <1>1, <1>2, FailureMarks DEF SendUpdate, TypeInv, TypeOK, AliasType
  <2> QED BY <2>1, <2>2, <2>3
<1>7. PastInv'
  BY <1>1, <1>4, <1>5, <1>6 DEF PastInv
<1>8. FileInv'
  <2>1. ASSUME NEW a \in Alias, cache[CacheFile[a]].addr = wan
        PROVE  server[a] = wan /\ address[a] = wan
    BY <1>1, <2>1 DEF FileInv, Unread, Starting
  <2>2. ASSUME NEW a \in Alias, cache[CacheFile[a]].addr = wan PROVE server'[a] = wan
    BY <1>5, <1>6, <2>1, <2>2
  <2> QED BY <1>4, <2>1, <2>2 DEF FileInv
<1>9. ASSUME NEW a \in Alias PROVE Fresh(a)' \/ (a # cur /\ ~Passed(a) /\ update_required'[a])
  <2>1. CASE a = cur
    BY <1>4, <1>6, <2>1 DEF Fresh
  <2>2. CASE a # cur
    BY <1>1, <1>4, <1>5, <2>2 DEF Fresh, TurnInv, Writing
  <2> QED BY <2>1, <2>2
<1>10. ASSUME NEW a \in Alias, pc' = "update" PROVE Passed(a)' <=> Passed(a) \/ a = cur
  BY <1>1, <1>2, <1>10, PassOne DEF UpdateAlias
<1>11. ASSUME NEW a \in Alias, Writing' PROVE cur' = cur /\ (Passed(a)' <=> Passed(a))
  BY <1>2, <1>11 DEF Writing, Passed
<1>12. TurnInv'
  BY <1>9, <1>10, <1>11 DEF TurnInv, Writing
<1>13. AckInv'
  BY <1>1, <1>2, <1>3, <1>4, <1>6 DEF AckInv, Writing
<1> QED BY <1>3, <1>7, <1>8, <1>12, <1>13 DEF LookInv, RestInv, Idle

\* A cache file is written with a belief its server shares, and is no other
\* alias's.
LEMMA WriteCacheFileCurrent ==
  ASSUME CurrentConfig, CurrentInv, WriteCacheFile PROVE CurrentRest'
<1> USE DEF CurrentInv, CurrentRest
<1>1. /\ cur \in Alias /\ ControlType /\ InAlias /\ ~delaying
      /\ pc' = "update" /\ UNCHANGED <<aliasVars, server, wan, delaying>>
  BY CursorAlias DEF Writing, WriteCacheFile, TypeInv, TypeOK, CursorInv, DelayInv, envVars
<1>2. ASSUME NEW f \in File
      PROVE  cache'[f] = cache[f] \/ (f = CacheFile[cur] /\ cache'[f].addr = address[cur])
  BY DEF WriteCacheFile, TypeInv, TypeOK, EnvType
<1>3. ASSUME NEW a \in Alias PROVE CacheFile[a] \in File
  BY ConfigAssumption
<1>4. PastInv'
  BY <1>1, <1>2 DEF PastInv, aliasVars
<1>5. FileInv'
  <2> SUFFICES ASSUME NEW a \in Alias, cache'[CacheFile[a]].addr = wan
               PROVE  server[a] = wan /\ address[a] = wan
    BY <1>1 DEF FileInv, aliasVars
  <2>1. CASE cache'[CacheFile[a]] = cache[CacheFile[a]]
    BY <1>1, <2>1 DEF FileInv, Unread, Starting, WriteCacheFile
  <2>2. CASE cache'[CacheFile[a]] # cache[CacheFile[a]]
    <3>1. a = cur /\ address[cur] = wan
      BY <1>1, <1>2, <1>3, <2>2 DEF CurrentConfig
    <3> QED BY <3>1 DEF AckInv, Writing, WriteCacheFile
  <2> QED BY <2>1, <2>2
<1>6. ASSUME NEW a \in Alias PROVE Fresh(a)' \/ (~Passed(a)' /\ update_required'[a])
  <2>1. Passed(a)' <=> Passed(a) \/ a = cur
    BY <1>1, PassOne DEF WriteCacheFile
  <2>2. Fresh(a) \/ (~Passed(a) /\ a # cur /\ update_required[a])
    BY DEF TurnInv, Writing, WriteCacheFile
  <2> QED BY <1>1, <2>1, <2>2 DEF Fresh, aliasVars
<1> QED BY <1>1, <1>4, <1>5, <1>6 DEF LookInv, TurnInv, Writing, AckInv, RestInv, Idle

\* Before that it is emptied, and says nothing of any address.
LEMMA OpenCacheFileCurrent ==
  ASSUME CurrentConfig, CurrentInv, OpenCacheFile PROVE CurrentRest'
<1> USE DEF CurrentInv, CurrentRest
<1>1. /\ cur \in Alias /\ ControlType /\ InAlias /\ ~delaying /\ Writing
      /\ UNCHANGED <<aliasVars, server, wan, delaying>>
      /\ (pc' = "write" /\ cur' = cur) \/ (pc' = "update" /\ cur' = NextAlias)
  BY CursorAlias DEF OpenCacheFile, TypeInv, TypeOK, CursorInv, Writing, DelayInv, envVars
<1>2. ASSUME NEW f \in File PROVE cache'[f] = cache[f] \/ cache'[f].addr = Empty
  BY DEF OpenCacheFile, TypeInv, TypeOK, EnvType
<1>3. ASSUME NEW a \in Alias PROVE CacheFile[a] \in File
  BY ConfigAssumption
<1>4. PastInv'
  BY <1>1, <1>2, WanFacts DEF PastInv, Empty, aliasVars
<1>5. FileInv'
  <2> SUFFICES ASSUME NEW a \in Alias, cache'[CacheFile[a]].addr = wan
               PROVE  server[a] = wan /\ address[a] = wan
    BY <1>1 DEF FileInv, aliasVars
  <2>1. cache'[CacheFile[a]] = cache[CacheFile[a]]
    BY <1>2, <1>3, WanFacts
  <2> QED BY <1>1, <2>1 DEF FileInv, Unread, Starting, OpenCacheFile
<1>6. ASSUME NEW a \in Alias PROVE Fresh(a)' \/ (~Passed(a) /\ a # cur /\ update_required'[a])
  BY <1>1 DEF TurnInv, Fresh, aliasVars
<1>7. ASSUME NEW a \in Alias, cur' = NextAlias PROVE Passed(a)' <=> Passed(a) \/ a = cur
  BY <1>1, <1>7, PassOne
<1>8. ASSUME NEW a \in Alias, cur' = cur PROVE Passed(a)' <=> Passed(a)
  BY <1>8 DEF Passed
<1>9. TurnInv'
  BY <1>1, <1>6, <1>7, <1>8 DEF TurnInv, Writing
<1>10. AckInv'
  BY <1>1 DEF AckInv, Writing, aliasVars
<1> QED BY <1>1, <1>4, <1>5, <1>9, <1>10 DEF LookInv, RestInv, Idle

\* The loop goes on to the next alias or provider.
LEMMA CursorCurrent ==
  ASSUME CurrentInv, UpdateSkip \/ EndProvider PROVE CurrentRest'
<1> USE DEF CurrentInv, CurrentRest
<1>1. /\ ControlType /\ pc = "update" /\ pc' = "update"
      /\ UNCHANGED <<aliasVars, cache, server, wan, delaying>>
  BY DEF UpdateSkip, EndProvider, TypeInv, TypeOK, DelayInv, envVars
<1>2. PastInv' /\ FileInv'
  BY <1>1 DEF PastInv, FileInv, Unread, Starting, aliasVars
<1>3. ASSUME NEW a \in Alias PROVE Fresh(a)' \/ (~Passed(a)' /\ update_required'[a])
  <2>1. Fresh(a) \/ (~Passed(a) /\ update_required[a])
    BY <1>1 DEF TurnInv, Writing
  <2>2. CASE UpdateSkip
    <3>1. Passed(a)' <=> Passed(a) \/ a = cur
      BY <1>1, <2>2, PassOne DEF UpdateSkip
    <3> QED BY <1>1, <2>1, <2>2, <3>1 DEF Fresh, aliasVars, UpdateSkip
  <2>3. CASE EndProvider
    <3>1. Passed(a)' <=> Passed(a)
      BY <1>1, <2>3, PassInfo DEF EndProvider
    <3> QED BY <1>1, <2>1, <3>1 DEF Fresh, aliasVars
  <2> QED BY <2>2, <2>3
<1> QED BY <1>1, <1>2, <1>3 DEF LookInv, TurnInv, Writing, AckInv, RestInv, Idle

\* At the end of the loop no alias is left.
LEMMA CountIterationCurrent == ASSUME CurrentInv, CountIteration PROVE CurrentRest'
<1> USE DEF CurrentInv, CurrentRest
<1>1. /\ ControlType /\ pc = "update" /\ EndOfInfos /\ pc' \in {"exit", "restart"}
      /\ UNCHANGED <<aliasVars, cache, server, wan, delaying>>
  BY DEF CountIteration, TypeInv, TypeOK, envVars
<1>2. PastInv' /\ FileInv'
  BY <1>1 DEF PastInv, FileInv, Unread, Starting, aliasVars
<1>3. ASSUME NEW a \in Alias PROVE Fresh(a)'
  BY <1>1, AllPassed DEF TurnInv, Writing, Fresh, aliasVars
<1> QED BY <1>1, <1>2, <1>3 DEF LookInv, TurnInv, Writing, AckInv, RestInv, Idle

\* Steps that change no address and no record.
Quiet ==
  /\ UNCHANGED <<address, server, wan>> /\ CacheKept
  /\ \A a \in Alias : force_addr_update[a] => force_addr_update'[a]

\* They keep what memory and the files say.
LEMMA QuietKeeps ==
  ASSUME CurrentInv, Quiet, Unread => Unread'
  PROVE  PastInv' /\ FileInv' /\ \A a \in Alias : Fresh(a) => Fresh(a)'
<1> USE DEF CurrentInv, CurrentRest
<1>1. ASSUME NEW f \in File
      PROVE  cache'[f].addr = -1 \/ cache'[f].addr = cache[f].addr
  BY DEF Quiet, CacheKept, NoFile
<1>2. PastInv'
  BY <1>1, WanFacts DEF PastInv, Quiet
<1>3. FileInv'
  <2> SUFFICES ASSUME NEW a \in Alias, cache'[CacheFile[a]].addr = wan
               PROVE  server[a] = wan /\ (Unread' \/ address[a] = wan)
    BY DEF FileInv, Quiet
  <2>1. CacheFile[a] \in File
    BY ConfigAssumption
  <2>2. cache[CacheFile[a]].addr = wan
    BY <1>1, <2>1, WanFacts
  <2> QED BY <2>2 DEF FileInv
<1> QED BY <1>2, <1>3 DEF Fresh, Quiet

\* The control steps of the main loop, of the sleep and of the restart.
LEMMA ControlCurrent ==
  ASSUME CurrentInv,
         \/ StartDelay \/ TestRestart \/ ResetRestart \/ CheckError \/ WaitTick \/ WaitDone
         \/ TestStop \/ TestRestartAgain \/ TestForced \/ TestCheckNow \/ ClearCmd
         \/ DownTick \/ Boot
  PROVE  CurrentRest'
<1> USE DEF CurrentInv, CurrentRest
<1>1. Quiet
  <2>1. CASE WaitTick \/ DownTick
    BY <2>1, TickKeeps DEF Quiet, WaitTick, DownTick, envVars, TypeInv
  <2>2. CASE ~(WaitTick \/ DownTick)
    BY <2>2 DEF Quiet, CacheKept, StartDelay, TestRestart, ResetRestart, CheckError, WaitDone,
       TestStop, TestRestartAgain, TestForced, TestCheckNow, ClearCmd, Boot, aliasVars, envVars, All
  <2> QED BY <2>1, <2>2
<1>2. /\ pc' # "update" /\ ~Writing' /\ (Unread => Unread')
      /\ (pc' \in Idle /\ ~delaying') \/ pc' = "checkip" => pc \in Idle /\ ~delaying
  <2>1. CASE StartDelay \/ TestRestart \/ ResetRestart \/ CheckError
    BY <2>1 DEF Writing, StartDelay, TestRestart, ResetRestart, CheckError, Unread, Starting, Idle, DelayInv
  <2>2. CASE WaitTick \/ WaitDone \/ TestStop \/ TestRestartAgain
    BY <2>2 DEF Writing, WaitTick, WaitDone, TestStop, TestRestartAgain, Unread, Starting, Idle, DelayInv
  <2>3. CASE TestForced
    BY <2>3 DEF Writing, TestForced, Unread, Starting, Idle
  <2>4. CASE DownTick \/ Boot
    BY <2>4 DEF Writing, DownTick, Boot, Unread, Starting, Idle
  <2>5. CASE TestCheckNow \/ ClearCmd
    BY <2>5 DEF Writing, TestCheckNow, ClearCmd, NextRound, Unread, Starting, Idle, DelayInv,
       TypeInv, TypeOK, ControlType
  <2> QED BY <2>1, <2>2, <2>3, <2>4, <2>5
<1>3. PastInv' /\ FileInv' /\ \A a \in Alias : Fresh(a) => Fresh(a)'
  BY <1>1, <1>2, QuietKeeps
<1>4. LookInv' /\ RestInv'
  BY <1>2, <1>3 DEF LookInv, RestInv
<1> QED BY <1>2, <1>3, <1>4 DEF TurnInv, Writing, AckInv

\* A new address is one nobody has heard of.
LEMMA WanChangeCurrent == ASSUME Flapping = FALSE, CurrentInv, WanChange PROVE CurrentRest'
<1> USE DEF CurrentInv, CurrentRest
<1>1. /\ wan \in Nat /\ wan' \in Nat /\ wan' > wan
      /\ UNCHANGED <<pc, delaying, cur, aliasVars, cache, server>>
  BY WanFacts, ConfigAssumption DEF WanChange, Addr
<1>2. ASSUME NEW a \in Alias
      PROVE  /\ address[a] <= wan' /\ server[a] <= wan' /\ address[a] # wan'
             /\ cache[CacheFile[a]].addr # wan'
  <2>1. CacheFile[a] \in File
    BY ConfigAssumption
  <2> QED BY <1>1, <2>1, AddressFacts DEF PastInv
<1>3. ASSUME NEW f \in File PROVE cache[f].addr <= wan'
  BY <1>1, AddressFacts DEF PastInv
<1>4. ASSUME NEW a \in Alias PROVE Fresh(a)'
  BY <1>1, <1>2 DEF Fresh, aliasVars
<1>5. PastInv' /\ FileInv'
  BY <1>1, <1>2, <1>3 DEF PastInv, FileInv, aliasVars
<1>6. AckInv'
  BY <1>1 DEF AckInv, Writing, aliasVars
<1> QED BY <1>4, <1>5, <1>6 DEF LookInv, TurnInv, Writing, RestInv

LEMMA NextCurrent == ASSUME CurrentConfig, CurrentInv, [Next]_vars PROVE CurrentInv'
<1>1. TypeInv' /\ DelayInv'
  BY NextType, NextDelay DEF CurrentInv, CurrentConfig
<1>2. CASE UNCHANGED <<pc, delaying, cur, aliasVars, cache, server, wan>>
  BY <1>1, <1>2 DEF CurrentInv, CurrentRest, PastInv, FileInv, LookInv, TurnInv, Writing, AckInv,
     RestInv, Fresh, Unread, Starting, Passed, aliasVars
<1>3. CASE Process
  <2>1. CASE FakeUpdate \/ FakeSkip
    BY <2>1 DEF CurrentInv, FakeUpdate, FakeSkip
  <2>2. CASE ~(FakeUpdate \/ FakeSkip)
    <3>1. CurrentRest'
      BY <1>3, <2>2, StartCurrent, InitContextCurrent, GetAddressCurrent,
         CheckAliasUpdateTableCurrent, UpdateAliasCurrent, OpenCacheFileCurrent, WriteCacheFileCurrent,
         CursorCurrent, CountIterationCurrent, ControlCurrent DEF Process, CurrentConfig
    <3>2. pc' # "fake"
      BY <1>3, <2>2, OutcomeFacts DEF Process, CurrentInv, CurrentConfig, Reload, StartDelay, InitContext,
         GetAddress, CheckAliasUpdateTable, UpdateSkip, UpdateAlias, OpenCacheFile, WriteCacheFile,
         EndProvider, CountIteration, TestRestart, ResetRestart, CheckError, WaitTick,
         WaitDone, TestStop, TestRestartAgain, TestForced, TestCheckNow, ClearCmd, NextRound
    <3> QED BY <1>1, <3>1, <3>2 DEF CurrentInv
  <2> QED BY <2>1, <2>2
<1>4. CASE WanChange \/ Crash \/ DownTick \/ Boot
  <2>1. CurrentRest'
    BY <1>4, WanChangeCurrent, StartCurrent, ControlCurrent DEF CurrentConfig
  <2> QED BY <1>1, <1>4, <2>1 DEF CurrentInv, WanChange, Crash, DownTick, Boot
<1>5. CASE (\E s \in Signals : Signal(s)) \/ Recover \/ Terminated \/ UNCHANGED vars
  BY <1>2, <1>5 DEF Signal, Recover, Terminated, vars, envVars
<1> QED BY <1>3, <1>4, <1>5 DEF Next, Environment

\* Across SIGHUP, crashes, failing checks and lost cache writes, an alias the
\* daemon believes to be at the current WAN address is there, or is marked for
\* another try, as long as the interface gets no earlier address back.
THEOREM BeliefIsRight == ASSUME CurrentConfig PROVE Spec => []CurrentOrRetry
<1>1. Init => CurrentInv
  <2> SUFFICES ASSUME Init PROVE CurrentRest
    BY InitType DEF Init, CurrentInv, DelayInv
  <2>1. wan = 1 /\ address = All(Empty) /\ pc = "reload"
    BY DEF Init
  <2>2. PastInv
    <3>1. \A a \in Alias : address[a] <= wan /\ server[a] <= wan
      BY <2>1 DEF Init, All, Empty
    <3>2. ASSUME NEW f \in File PROVE cache[f].addr <= wan
      <4>1. cache[f] = NoFile \/ cache[f] = [addr |-> 1, age |-> 0]
        BY DEF Init
      <4>2. cache[f].addr = -1 \/ cache[f].addr = 1
        BY <4>1 DEF NoFile
      <4> QED BY <2>1, <4>2
    <3> QED BY <3>1, <3>2 DEF PastInv
  <2>3. FileInv
    BY <2>1 DEF Init, FileInv, Unread, Starting, NoFile
  <2> QED BY <2>1, <2>2, <2>3 DEF CurrentRest, LookInv, TurnInv, Writing, AckInv, RestInv, Idle
<1>2. CurrentInv /\ [Next]_vars => CurrentInv'
  BY NextCurrent
<1>3. CurrentInv => CurrentOrRetry
  BY DEF CurrentInv, CurrentRest, RestInv, CurrentOrRetry, Fresh, Idle
<1> QED BY <1>1, <1>2, <1>3, PTL DEF Spec
=============================================================================
