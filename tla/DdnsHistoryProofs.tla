-------------------------- MODULE DdnsHistoryProofs --------------------------
(***************************************************************************)
(* The cache files never run ahead of the servers, for every configuration *)
(* in which no two aliases share a file; and the iterations limit counts   *)
(* what it should: both with failing sends, fake updates, lost cache       *)
(* writes, SIGHUPs and crashes.                                            *)
(***************************************************************************)
EXTENDS DdnsHistory, DdnsProofs

\* What is written has just been acknowledged.
WriteInv == Writing => address[cur] \in acked[cur]

AckInv == TypeInv /\ CacheWasAcked /\ WriteInv

\* A step that neither reaches the point where a cache file is written nor,
\* being there, touches what will be written.
WriteKept == Writing' => Writing /\ UNCHANGED <<cur, address>>

-----------------------------------------------------------------------------

\* Only write_cache_file() changes what a cache file says.
LEMMA OnlyWriteWrites ==
  TypeOK /\ [Next]_vars => CacheKept \/ OpenCacheFile \/ WriteCacheFile
<1> SUFFICES ASSUME TypeOK, [Next]_vars, ~OpenCacheFile, ~WriteCacheFile PROVE CacheKept
  OBVIOUS
<1>1. CASE UNCHANGED cache
  BY <1>1 DEF CacheKept
<1>2. UNCHANGED cache \/ Tick
  BY DEF Next, Process, Environment, Terminated, vars, Reload, StartDelay,
     InitContext, GetAddress, CheckAliasUpdateTable, FakeUpdate, FakeSkip,
     UpdateSkip, UpdateAlias, EndProvider, CountIteration, TestRestart,
     ResetRestart, CheckError, WaitTick, WaitDone, TestStop, TestRestartAgain,
     TestForced, TestCheckNow, ClearCmd, Signal, WanChange, Recover, Crash,
     DownTick, Boot
<1> QED BY <1>1, <1>2, TickKeeps

\* Only the successful send_update() of the alias at the cursor leads to a write.
LEMMA OnlySuccessLeadsToWrite ==
  TypeOK /\ [Next]_vars => WriteKept \/ (UpdateAlias /\ Acks(cur) /\ UNCHANGED <<cur, address>>)
<1> SUFFICES ASSUME TypeOK, [Next]_vars, Writing'
             PROVE  \/ Writing /\ UNCHANGED <<cur, address>>
                    \/ UpdateAlias /\ Acks(cur) /\ UNCHANGED <<cur, address>>
  BY DEF WriteKept
<1>1. CASE UpdateAlias
  <2>1. PICK o \in Outcomes :
          /\ pc' = AfterSend(o)
          /\ cur' = IF pc' = "update" THEN NextAlias ELSE cur
          /\ o.at = "done" => update_required' = [update_required EXCEPT ![cur] = FALSE]
    BY <1>1 DEF UpdateAlias
  <2>2. o.at = "done" /\ cur' = cur
    BY <2>1, OutcomeFacts DEF Writing
  <2>3. cur \in Alias
    BY <1>1, CursorAlias DEF UpdateAlias, TypeOK
  <2>4. Acks(cur)
    BY <1>1, <2>1, <2>2, <2>3 DEF UpdateAlias, Acks, TypeOK, AliasType
  <2> QED BY <1>1, <2>2, <2>4 DEF UpdateAlias
<1>2. CASE Environment
  BY <1>2 DEF Environment, Signal, WanChange, Recover, Crash, DownTick, Boot, aliasVars, Writing
<1>3. CASE Process /\ ~UpdateAlias
  BY <1>3 DEF Process, Reload, StartDelay,
     InitContext, GetAddress, CheckAliasUpdateTable, FakeUpdate, FakeSkip,
     UpdateSkip, OpenCacheFile, WriteCacheFile, EndProvider, CountIteration, TestRestart,
     ResetRestart, CheckError, WaitTick, WaitDone, TestStop, TestRestartAgain,
     TestForced, TestCheckNow, ClearCmd, NextRound, aliasVars, Writing
<1>4. CASE UNCHANGED vars
  BY <1>4 DEF vars, aliasVars, Writing
<1> QED BY <1>1, <1>2, <1>3, <1>4 DEF Next, Terminated

\* Acknowledgements are never taken back.
LEMMA AckedGrows ==
  [HNext]_hvars => \A a \in Alias : acked[a] \subseteq acked'[a]
BY DEF HNext, hvars

\* The inductive step.
LEMMA NextAck ==
  ASSUME DistinctFiles, AckInv, [HNext]_hvars PROVE AckInv'
<1> USE DEF AckInv
<1>1. [Next]_vars
  BY DEF HNext, hvars
<1>2. TypeInv'
  BY <1>1, NextType
<1>3. CacheWasAcked'
  <2> SUFFICES ASSUME NEW a \in Alias,
                      cache'[CacheFile[a]].addr \notin {NoFile.addr, Empty}
               PROVE  cache'[CacheFile[a]].addr \in acked'[a]
    BY DEF CacheWasAcked
  <2>1. CacheFile[a] \in File
    BY ConfigAssumption
  <2>2. CASE cache'[CacheFile[a]].addr = cache[CacheFile[a]].addr
    BY <2>2, AckedGrows DEF CacheWasAcked
  <2>3. CASE CacheKept
    BY <2>1, <2>2, <2>3 DEF CacheKept
  <2>4. CASE OpenCacheFile
    BY <2>1, <2>2, <2>4 DEF OpenCacheFile, TypeInv, TypeOK, EnvType
  <2>5. CASE WriteCacheFile
    <3>1. Writing /\ cur \in Alias
      BY <2>5, CursorAlias DEF WriteCacheFile, Writing, TypeInv, CursorInv, TypeOK
    <3>2. CASE a = cur /\ cache' = [cache EXCEPT ![CacheFile[cur]] = [addr |-> address[cur], age |-> 0]]
      BY <2>1, <3>1, <3>2, AckedGrows DEF WriteInv, TypeInv, TypeOK, EnvType
    <3>3. CASE a # cur \/ UNCHANGED cache
      <4>1. cache'[CacheFile[a]] = cache[CacheFile[a]]
        BY <2>1, <2>5, <3>1, <3>3 DEF WriteCacheFile, DistinctFiles, TypeInv, TypeOK, EnvType
      <4> QED BY <2>2, <4>1
    <3> QED BY <2>5, <3>2, <3>3 DEF WriteCacheFile
  <2> QED BY <1>1, <2>3, <2>4, <2>5, OnlyWriteWrites DEF TypeInv
<1>4. WriteInv'
  <2> SUFFICES ASSUME Writing' PROVE address'[cur'] \in acked'[cur']
    BY DEF WriteInv
  <2>1. CASE WriteKept
    <3>1. Writing /\ cur' = cur /\ address' = address
      BY <2>1 DEF WriteKept
    <3>2. cur \in Alias
      BY <3>1, CursorAlias DEF Writing, TypeInv, CursorInv, TypeOK
    <3> QED BY <3>1, <3>2, AckedGrows DEF WriteInv
  <2>2. CASE UpdateAlias /\ Acks(cur) /\ UNCHANGED <<cur, address>>
    <3>1. cur \in Alias
      BY <2>2, CursorAlias DEF UpdateAlias, TypeInv, TypeOK
    <3>2. HNext
      BY <2>2, <3>1 DEF hvars, vars, UpdateAlias, Acks, aliasVars
    <3> QED BY <2>2, <3>1, <3>2 DEF HNext
  <2> QED BY <1>1, <2>1, <2>2, OnlySuccessLeadsToWrite DEF TypeInv
<1> QED BY <1>2, <1>3, <1>4

\* A restart never starts from an address that was merely attempted: whatever
\* fails and wherever the daemon is killed, a cache file is empty or holds an
\* address that its alias's server acknowledged.
THEOREM CacheAcked ==
  ASSUME DistinctFiles PROVE HSpec => []CacheWasAcked
<1>1. HInit => AckInv
  <2> SUFFICES ASSUME HInit PROVE AckInv
    OBVIOUS
  <2>1. TypeInv
    BY InitType DEF HInit
  <2>2. CacheWasAcked
    BY DEF HInit, CacheWasAcked
  <2>3. WriteInv
    BY DEF HInit, Init, WriteInv, Writing
  <2> QED BY <2>1, <2>2, <2>3 DEF AckInv
<1>2. AckInv /\ [HNext]_hvars => AckInv'
  BY NextAck
<1>3. AckInv => CacheWasAcked
  BY DEF AckInv
<1> QED BY <1>1, <1>2, <1>3, PTL DEF HSpec

-----------------------------------------------------------------------------
(* The iterations limit across SIGHUPs *)

\* Where the startup delay may be: between ddns_main_loop()'s first wait and the
\* init_context() behind it, or on the way out of it.
DelayPlaces == {"wait", "stop?", "restart?", "forced?", "check?", "clear", "reload", "exit"}

\* Where only the static cached_num_iterations holds the count: a new context
\* starts with 0 until init_context() reads the static back.
Uncounted == delaying \/ pc \in {"reload", "startup", "init", "down"}

\* IterationsCounted is not inductive: it has to say which of the two counters
\* is right where, and that the limit is not reached before the exit.
CountInv ==
  TotalIterations # 0 =>
    /\ okChecks \in Nat /\ okChecks <= TotalIterations
    /\ pc = "down" => okChecks = 0
    /\ delaying => pc \in DelayPlaces
    /\ pc # "exit" =>
         /\ okChecks < TotalIterations
         /\ Uncounted => cached_num_iterations = okChecks
         /\ ~Uncounted => num_iterations = okChecks

\* The steps that decide which counter is right, and the one that counts.
LEMMA CountSteps ==
  ASSUME TypeInv, CountInv, TotalIterations # 0, HNext,
         Reload \/ StartDelay \/ InitContext \/ CountIteration \/ ResetRestart
         \/ CheckError \/ WaitDone \/ TestStop \/ TestRestartAgain \/ TestForced
         \/ TestCheckNow \/ ClearCmd
  PROVE  CountInv'
<1> USE DEF TypeInv, TypeOK, ControlType
<1> USE DEF CountInv, Uncounted, DelayPlaces, HNext, ChecksOk
<1>1. CASE Reload
  BY <1>1 DEF Reload, statics
<1>2. CASE StartDelay
  BY <1>2 DEF StartDelay
<1>3. CASE InitContext
  BY <1>3 DEF InitContext, RestoredIterations, statics
<1>4. CASE CountIteration
  BY <1>4, OptionAssumption DEF CountIteration
<1>5. CASE ResetRestart
  BY <1>5 DEF ResetRestart, ctxVars
<1>6. CASE CheckError
  BY <1>6 DEF CheckError
<1>7. CASE WaitDone
  BY <1>7 DEF WaitDone, statics
<1>8. CASE TestStop
  BY <1>8 DEF TestStop, ctxVars
<1>9. CASE TestRestartAgain
  BY <1>9 DEF TestRestartAgain, ctxVars
<1>10. CASE TestForced
  BY <1>10 DEF TestForced, ctxVars, statics
<1>11. CASE TestCheckNow
  BY <1>11 DEF TestCheckNow, ctxVars, statics, NextRound
<1>12. CASE ClearCmd
  BY <1>12 DEF ClearCmd, ctxVars, statics, NextRound
<1> QED BY <1>1, <1>2, <1>3, <1>4, <1>5, <1>6, <1>7, <1>8, <1>9, <1>10, <1>11, <1>12

\* All others leave the counters alone, and the place if it matters.
LEMMA UncountSteps ==
  ASSUME TypeInv, CountInv, TotalIterations # 0, HNext,
         GetAddress \/ CheckAliasUpdateTable \/ FakeUpdate \/ FakeSkip \/ UpdateSkip
         \/ UpdateAlias \/ OpenCacheFile \/ WriteCacheFile \/ EndProvider \/ TestRestart \/ WaitTick
         \/ Environment \/ Terminated
  PROVE  CountInv'
<1> USE DEF TypeInv, TypeOK, ControlType
<1> USE DEF CountInv, Uncounted, DelayPlaces, HNext, ChecksOk, ctxVars, statics
<1>1. CASE GetAddress
  BY <1>1 DEF GetAddress
<1>2. CASE CheckAliasUpdateTable
  BY <1>2 DEF CheckAliasUpdateTable
<1>3. CASE FakeUpdate \/ FakeSkip
  BY <1>3 DEF FakeUpdate, FakeSkip
<1>4. CASE UpdateSkip
  BY <1>4 DEF UpdateSkip
<1>5. CASE UpdateAlias
  <2>1. ~EndOfInfos /\ pc' \in {"open", "provider", "update"}
    BY <1>5, OutcomeFacts, ConfigAssumption DEF UpdateAlias, InAlias, EndOfInfos, Infos
  <2> QED BY <1>5, <2>1 DEF UpdateAlias
<1>6. CASE OpenCacheFile \/ WriteCacheFile
  BY <1>6 DEF OpenCacheFile, WriteCacheFile
<1>7. CASE EndProvider
  BY <1>7 DEF EndProvider
<1>8. CASE TestRestart \/ WaitTick
  BY <1>8 DEF TestRestart, WaitTick
<1>9. CASE Environment
  <2>1. CASE Crash
    BY <2>1, OptionAssumption DEF Crash
  <2>2. CASE DownTick \/ Boot
    BY <2>2 DEF DownTick, Boot
  <2>3. CASE (\E s \in Signals : Signal(s)) \/ WanChange \/ Recover
    BY <2>3 DEF Signal, WanChange, Recover
  <2> QED BY <1>9, <2>1, <2>2, <2>3 DEF Environment
<1>10. CASE Terminated
  BY <1>10 DEF Terminated, vars
<1> QED BY <1>1, <1>2, <1>3, <1>4, <1>5, <1>6, <1>7, <1>8, <1>9, <1>10

\* The iterations limit is exact, for every limit and every configuration: the
\* checks that succeeded are never more than configured and, however many SIGHUPs
\* replaced the context on the way, none of them is forgotten.
THEOREM IterationsRight == HSpec => []IterationsCounted
<1>1. HInit => TypeInv /\ CountInv
  BY InitType, OptionAssumption DEF HInit, Init, CountInv, Uncounted
<1>2. TypeInv /\ CountInv /\ [HNext]_hvars => TypeInv' /\ CountInv'
  <2> SUFFICES ASSUME TypeInv, CountInv, [HNext]_hvars PROVE TypeInv' /\ CountInv'
    OBVIOUS
  <2>1. TypeInv'
    BY NextType DEF HNext, hvars
  <2>2. CASE UNCHANGED hvars
    BY <2>1, <2>2 DEF hvars, vars, ctxVars, statics, CountInv, Uncounted
  <2>3. CASE TotalIterations = 0
    BY <2>1, <2>3 DEF CountInv
  <2>4. CASE HNext /\ TotalIterations # 0
    <3>1. CASE Process
      BY <2>1, <2>4, <3>1, CountSteps, UncountSteps DEF Process
    <3>2. CASE Environment \/ Terminated
      BY <2>1, <2>4, <3>2, UncountSteps
    <3> QED BY <2>1, <2>4, <3>1, <3>2 DEF HNext, Next
  <2> QED BY <2>2, <2>3, <2>4
<1>3. CountInv => IterationsCounted
  BY DEF CountInv, Uncounted, IterationsCounted
<1> QED BY <1>1, <1>2, <1>3, PTL DEF HSpec
=============================================================================
