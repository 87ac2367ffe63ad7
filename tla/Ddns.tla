-------------------------------- MODULE Ddns --------------------------------
(***************************************************************************)
(* The update cycle of the inadyn daemon: src/src/ddns.c with the cache    *)
(* files of cache.c, the command slot the signal handler of os.c writes,   *)
(* and the restart loop of main.c.                                         *)
(*                                                                         *)
(* One process walks through check_address() (find the WAN address, decide *)
(* which aliases need an update, send the updates), filters the error,     *)
(* sleeps, and obeys the command left in the slot.  Around it are the      *)
(* things it cannot control: the WAN address, the records the DDNS servers *)
(* hold, failures of the network and of the servers, signals, and crashes. *)
(*                                                                         *)
(* Time is counted in ticks that pass only while the daemon sleeps or is   *)
(* down; a last_update time stamp is kept as its age, saturating at        *)
(* AgeCap, so that last_update = 0 is "older than anything".               *)
(***************************************************************************)
EXTENDS Integers, FiniteSets

CONSTANTS
  NumInfos,         \* provider sections in the configuration, in list order
  AliasCount,       \* info->alias_count of each of them
  File, CacheFile,  \* cache files, and the one cache_file() names for an alias
  NumAddr,          \* addresses the WAN interface may get
  Flapping,         \* may the WAN interface get an earlier address back?
  NormalPeriod, ErrorPeriod, ForcedPeriod, DefaultPeriod, StartupDelay,
  AgeCap,           \* the age at which time stamps stop growing older
  ExecMode,         \* exec_mode: "COMPAT" or "EVENT"
  IgnoreErrors,     \* --continue-on-error
  FakeAddr,         \* forced_update_fake_addr
  TotalIterations,  \* total_iterations, 1 with --once and 0 for no limit
  ForceOnce,        \* --once --force
  FaultPoints,      \* the calls of send_update() that may fail
  ErrorReplies,     \* the codes response() and setup() may return on error
  Recovers,         \* do the network and the servers become reliable in the end?
  CheckipFails,     \* may get_address_backend() fail?
  CacheWriteFails,  \* may write_cache_file() fail to open or to fill the file?
  ConfBreaks,       \* may conf_parse_file() return NULL after a SIGHUP?
  Signals,          \* the commands signals may store
  MaxCrashes        \* how often the process may be killed and started again

Infos   == 1..NumInfos
Alias   == UNION {{p} \X (1..AliasCount[p]) : p \in Infos}
Addr    == 1..NumAddr
Empty   == 0                     \* alias->address after memset()
Fake    == NumAddr + 1           \* an address of 203.0.113.0/24
Address == 0..(NumAddr + 1)
NoFile  == [addr |-> -1, age |-> 0]

Cmd == {"NO_CMD", "STOP", "RESTART", "FORCED_UPDATE", "CHECK_NOW"}

\* RC_OK, the four codes update_alias_table() remembers, RC_RESTART, and
\* OTHER for every code it forgets (RC_TCP_*, RC_HTTPS_*, RC_ERROR, ...).
RC == {"OK", "NOTOK", "AUTH_FAIL", "RETRY_LATER", "TOO_FREQUENT", "OTHER", "RESTART"}
Fatal     == {"NOTOK", "AUTH_FAIL"}
Temporary == {"RETRY_LATER", "TOO_FREQUENT"}

Points == {"setup", "init", "request", "transaction", "response"}

PC == {"reload", "startup", "init", "checkip", "fake", "update",
       "open", "write", "provider", "restart", "reset", "error", "wait",
       "stop?", "restart?", "forced?", "check?", "clear", "exit", "down"}

ASSUME ConfigAssumption ==
  /\ NumInfos \in Nat \ {0}
  /\ AliasCount \in [Infos -> Nat \ {0}]
  /\ CacheFile \in [Alias -> File]
  /\ NumAddr \in Nat \ {0}
ASSUME PeriodAssumption ==
  /\ NormalPeriod \in Nat /\ ErrorPeriod \in Nat /\ DefaultPeriod \in Nat
  /\ StartupDelay \in Nat /\ ForcedPeriod \in Nat
  /\ AgeCap \in Nat /\ AgeCap > ForcedPeriod
ASSUME OptionAssumption ==
  /\ ExecMode \in {"COMPAT", "EVENT"}
  /\ {IgnoreErrors, FakeAddr, ForceOnce, Flapping, Recovers, CheckipFails,
      CacheWriteFails, ConfBreaks} \subseteq BOOLEAN
  /\ TotalIterations \in Nat
  /\ FaultPoints \subseteq Points
  /\ ErrorReplies \subseteq Fatal \cup Temporary \cup {"OTHER"}
  /\ Signals \subseteq Cmd \ {"NO_CMD"}
  /\ MaxCrashes \in Nat

VARIABLES
  pc,                     \* where the process is
  delaying,               \* is it in the startup delay of ddns_main_loop()?
  cmd,                    \* ctx->cmd, also written by the signal handler
  cur,                    \* <<info, i>>: the loop variables over the aliases
  rc, remember,           \* the locals of update_alias_table()
  update_period, counter, \* ctx->update_period, the counter of wait_for_cmd()
  num_iterations,         \* ctx->num_iterations
  cached_num_iterations,  \* the static that survives a SIGHUP
  first_startup,          \* the static of ddns_main_loop()
  address, ip_has_changed, force_addr_update, update_required, age,
  cache,                  \* the cache files: content and age of their mtime
  wan, server, healthy,   \* environment: WAN address, the servers' records,
                          \* and whether calls are bound to succeed
  crashes                 \* crashes so far

ctxVars   == <<update_period, counter, num_iterations>>
statics   == <<cached_num_iterations, first_startup>>
aliasVars == <<address, ip_has_changed, force_addr_update, update_required, age>>
envVars   == <<wan, server, healthy, crashes>>
vars == <<pc, delaying, cmd, cur, rc, remember, ctxVars, statics, aliasVars,
          cache, envVars>>

CacheEntry == [addr : Address, age : 0..AgeCap]

\* Where the loops over providers and aliases may be, their ends included.
Cursor == (1..(NumInfos + 1)) \X (Nat \ {0})

ControlType ==
  /\ pc \in PC /\ delaying \in BOOLEAN /\ cmd \in Cmd
  /\ cur \in Cursor
  /\ rc \in RC /\ remember \in RC
  /\ update_period \in Nat /\ counter \in Nat
  /\ num_iterations \in Nat /\ cached_num_iterations \in Nat
  /\ first_startup \in BOOLEAN

AliasType ==
  /\ address \in [Alias -> Address]
  /\ ip_has_changed \in [Alias -> BOOLEAN]
  /\ force_addr_update \in [Alias -> BOOLEAN]
  /\ update_required \in [Alias -> BOOLEAN]
  /\ age \in [Alias -> 0..AgeCap]

EnvType ==
  /\ cache \in [File -> CacheEntry \cup {NoFile}]
  /\ wan \in Addr /\ server \in [Alias -> Address]
  /\ healthy \in BOOLEAN /\ crashes \in Nat

\* Every variable keeps the range its C type and its use give it.
TypeOK == ControlType /\ AliasType /\ EnvType

-----------------------------------------------------------------------------
(* Helpers *)

All(v) == [a \in Alias |-> v]

InAlias     == cur[1] \in Infos /\ cur[2] <= AliasCount[cur[1]]
EndOfInfo   == cur[1] \in Infos /\ cur[2] > AliasCount[cur[1]]
EndOfInfos  == cur[1] > NumInfos
NextAlias   == <<cur[1], cur[2] + 1>>
NextInfo    == <<cur[1] + 1, 1>>
First       == <<1, 1>>

\* Mutant of Older: no saturation.
OlderForever(n) == n + 1

Older(n) == IF n < AgeCap THEN n + 1 ELSE AgeCap
OlderEntry(e) == IF e = NoFile THEN e ELSE [e EXCEPT !.age = Older(@)]

\* A tick of the clock: the time stamps in memory and on disk grow older.
Tick ==
  /\ age' = [a \in Alias |-> Older(age[a])]
  /\ cache' = [f \in File |-> OlderEntry(cache[f])]

-----------------------------------------------------------------------------
(* The restart loop of main() and the startup of ddns_main_loop() *)

\* alloc_context(), os_install_signal_handler() and conf_parse_file(): a new
\* context, NO_CMD in its slot, and aliases whose fields are all zero.
Reload ==
  /\ pc = "reload"
  /\ cmd' = "NO_CMD"
  /\ update_period' = DefaultPeriod /\ num_iterations' = 0 /\ counter' = 0
  /\ address' = All(Empty) /\ age' = All(AgeCap)
  /\ ip_has_changed' = All(FALSE) /\ force_addr_update' = All(FALSE)
  /\ update_required' = All(FALSE)
  /\ cur' = First /\ rc' = "OK" /\ remember' = "OK" /\ delaying' = FALSE
  /\ \/ pc' = "startup"
     \/ ConfBreaks /\ pc' = "exit"
  /\ UNCHANGED <<statics, cache, envVars>>

\* The startup delay, on the first startup only, sleeps in wait_for_cmd().
StartDelay ==
  /\ pc = "startup"
  /\ IF first_startup /\ StartupDelay # 0
       THEN /\ first_startup' = FALSE /\ delaying' = TRUE
            /\ update_period' = StartupDelay /\ counter' = StartupDelay
            /\ pc' = "wait"
       ELSE /\ pc' = "init"
            /\ UNCHANGED <<first_startup, delaying, update_period, counter>>
  /\ UNCHANGED <<cmd, cur, rc, remember, num_iterations, cached_num_iterations,
                 aliasVars, cache, envVars>>

\* nslookup(): what the DNS says of an alias, or nothing.
Resolves(a) == {server[a], Empty}

\* read_one(): the cache file if there is one, be it empty, else the DNS and
\* last_update 0.
ReadOne(a, e, dns) ==
  IF e = NoFile THEN [addr |-> dns, age |-> AgeCap] ELSE e

\* Mutant of RestoredIterations: the static is not read back.
ForgottenIterations == 0

\* init_context(): the iteration count of before the SIGHUP.
RestoredIterations == cached_num_iterations

\* init_context() and read_cache_file(); with --once --force, all are forced.
InitContext ==
  /\ pc = "init"
  /\ num_iterations' = RestoredIterations
  /\ \E dns \in [Alias -> Address] :
       /\ \A a \in Alias :
            dns[a] \in IF cache[CacheFile[a]] = NoFile THEN Resolves(a) ELSE {Empty}
       /\ address' = [a \in Alias |-> ReadOne(a, cache[CacheFile[a]], dns[a]).addr]
       /\ age' = [a \in Alias |-> ReadOne(a, cache[CacheFile[a]], dns[a]).age]
  /\ force_addr_update' = IF ForceOnce THEN All(TRUE) ELSE force_addr_update
  /\ pc' = "checkip" /\ cur' = First
  /\ UNCHANGED <<delaying, cmd, rc, remember, update_period, counter, statics,
                 ip_has_changed, update_required, cache, envVars>>

-----------------------------------------------------------------------------
(* check_address(): get_address(), check_alias_update_table(),
   update_alias_table() *)

\* Mutant of IpHasChanged: set on a change and never reset.
IpEverChanged(a) == address[a] # wan \/ ip_has_changed[a]

IpHasChanged(a) == address[a] # wan

\* One round of get_address(): a provider whose backend fails is skipped, and
\* its aliases keep the ip_has_changed of an earlier round.
GetAddress ==
  /\ pc = "checkip" /\ ~EndOfInfos
  /\ \/ /\ ip_has_changed' = [a \in Alias |-> IF a[1] = cur[1]
                                THEN IpHasChanged(a) ELSE ip_has_changed[a]]
        /\ address' = [a \in Alias |-> IF a[1] = cur[1] THEN wan ELSE address[a]]
     \/ /\ CheckipFails /\ ~healthy
        /\ UNCHANGED <<address, ip_has_changed>>
  /\ cur' = NextInfo
  /\ UNCHANGED <<pc, delaying, cmd, rc, remember, ctxVars, statics, cache,
                 force_addr_update, update_required, age, envVars>>

\* Mutant of TimeToCheck: the forced-update period is forgotten.
TimeToCheckForcedOnly(a) == force_addr_update[a]

TimeToCheck(a) == force_addr_update[a] \/ age[a] > ForcedPeriod

CheckAliasUpdateTable ==
  /\ pc = "checkip" /\ EndOfInfos
  /\ update_required' = [a \in Alias |-> ip_has_changed[a] \/ TimeToCheck(a)]
  /\ pc' = IF FakeAddr THEN "fake" ELSE "update"
  /\ cur' = First /\ rc' = "OK" /\ remember' = "OK"
  /\ UNCHANGED <<delaying, cmd, ctxVars, statics, cache, address, ip_has_changed,
                 force_addr_update, age, envVars>>

\* How send_update() may end: the call that failed and the code it returned, or
\* "done".  A transaction or a response that fails may have been applied.
Failure ==
  [at : {"setup"} \cap FaultPoints, rc : ErrorReplies \cup {"OTHER"}, applied : {FALSE}]
  \cup [at : {"init", "request"} \cap FaultPoints, rc : {"OTHER"}, applied : {FALSE}]
  \cup [at : {"transaction"} \cap FaultPoints, rc : {"OTHER"}, applied : BOOLEAN]
  \cup [at : {"response"} \cap FaultPoints, rc : ErrorReplies, applied : BOOLEAN]
Success == [at |-> "done", rc |-> "OK", applied |-> TRUE]
Outcomes == {Success} \cup (IF healthy THEN {} ELSE Failure)

\* Mutant of ForceAfter: a failed transaction is not marked for another try.
ForceAfterInitOnly(o, force) ==
  CASE o.at \in {"setup", "request", "transaction"} -> force
    [] o.at = "done" -> FALSE
    [] OTHER -> TRUE

\* force_addr_update after a send_update() that ended with o: setup() and
\* request() failures return without touching it.
ForceAfter(o, force) ==
  CASE o.at \in {"setup", "request"} -> force
    [] o.at = "done" -> FALSE
    [] OTHER -> TRUE

\* What send_update() does to an alias and to the record its server holds.
SendUpdate(a, addr, o) ==
  /\ force_addr_update' = [force_addr_update EXCEPT ![a] = ForceAfter(o, @)]
  /\ server' = IF o.applied THEN [server EXCEPT ![a] = addr] ELSE server

\* The first half of update_alias_table(): a forced alias is sent with a fake
\* address.  A failure leaves the loop over the provider's aliases (TRY) before
\* the address is restored.
FakeUpdate ==
  /\ pc = "fake" /\ InAlias /\ force_addr_update[cur]
  /\ \E o \in Outcomes :
       /\ SendUpdate(cur, Fake, o)
       /\ IF o.at = "done"
            THEN cur' = NextAlias /\ UNCHANGED address
            ELSE cur' = NextInfo /\ address' = [address EXCEPT ![cur] = Fake]
  /\ UNCHANGED <<pc, delaying, cmd, rc, remember, ctxVars, statics, cache,
                 ip_has_changed, update_required, age, wan, healthy, crashes>>

FakeSkip ==
  /\ pc = "fake"
  /\ \/ InAlias /\ ~force_addr_update[cur] /\ cur' = NextAlias /\ UNCHANGED pc
     \/ EndOfInfo /\ cur' = NextInfo /\ UNCHANGED pc
     \/ EndOfInfos /\ cur' = First /\ pc' = "update"
  /\ UNCHANGED <<delaying, cmd, rc, remember, ctxVars, statics, aliasVars, cache,
                 envVars>>

\* The second half, one alias at a time.
UpdateSkip ==
  /\ pc = "update" /\ InAlias /\ ~update_required[cur]
  /\ rc' = "OK" /\ cur' = NextAlias
  /\ UNCHANGED <<pc, delaying, cmd, remember, ctxVars, statics, aliasVars, cache,
                 envVars>>

\* Mutant of AfterSend: the cache file is written whatever send_update() returned.
AfterSendUnchecked(o) == "open"

\* An error ends the provider's loop in compat mode; in event mode it only
\* makes the script's event "error".
AfterSend(o) ==
  CASE o.at = "done" -> "open"
    [] o.at # "done" /\ ExecMode = "COMPAT" -> "provider"
    [] OTHER -> "update"

UpdateAlias ==
  /\ pc = "update" /\ InAlias /\ update_required[cur]
  /\ \E o \in Outcomes :
       /\ SendUpdate(cur, address[cur], o)
       /\ rc' = o.rc
       /\ pc' = AfterSend(o)
       /\ cur' = IF pc' = "update" THEN NextAlias ELSE cur
       /\ IF o.at = "done"
            THEN /\ update_required' = [update_required EXCEPT ![cur] = FALSE]
                 /\ age' = [age EXCEPT ![cur] = 0]
            ELSE UNCHANGED <<update_required, age>>
  /\ UNCHANGED <<delaying, cmd, remember, ctxVars, statics, address,
                 ip_has_changed, cache, wan, healthy, crashes>>

\* write_cache_file(), whose result nobody looks at, and the user's script:
\* fopen(path, "w") leaves an empty file ...
OpenCacheFile ==
  /\ pc = "open"
  /\ \/ /\ cache' = [cache EXCEPT ![CacheFile[cur]] = [addr |-> Empty, age |-> 0]]
        /\ pc' = "write" /\ UNCHANGED cur
     \/ CacheWriteFails /\ pc' = "update" /\ cur' = NextAlias /\ UNCHANGED cache
  /\ UNCHANGED <<delaying, cmd, rc, remember, ctxVars, statics, aliasVars,
                 envVars>>

\* ... that fprintf() and fclose() fill, unless the disk is full.
WriteCacheFile ==
  /\ pc = "write"
  /\ \/ cache' = [cache EXCEPT ![CacheFile[cur]] = [addr |-> address[cur], age |-> 0]]
     \/ CacheWriteFails /\ UNCHANGED cache
  /\ pc' = "update" /\ cur' = NextAlias
  /\ UNCHANGED <<delaying, cmd, rc, remember, ctxVars, statics, aliasVars,
                 envVars>>

\* Which of the providers' codes survives the loop.
Remember(r, old) ==
  CASE r \in Fatal -> r
    [] r \in Temporary /\ old = "OK" -> r
    [] OTHER -> old

\* The end of a provider: of its aliases' codes only the last one counts.
EndProvider ==
  /\ \/ pc = "provider"
     \/ pc = "update" /\ EndOfInfo
  /\ remember' = Remember(rc, remember)
  /\ pc' = "update" /\ cur' = NextInfo
  /\ UNCHANGED <<delaying, cmd, rc, ctxVars, statics, aliasVars, cache, envVars>>

-----------------------------------------------------------------------------
(* The rest of the main loop *)

\* The iteration count after check_address(), and its limit.
CountIteration ==
  /\ pc = "update" /\ EndOfInfos
  /\ rc' = remember /\ remember' = "OK" /\ cur' = First
  /\ LET ok == remember = "OK"
         n  == IF ok /\ TotalIterations # 0 THEN num_iterations + 1 ELSE num_iterations
         last == ok /\ TotalIterations # 0 /\ n >= TotalIterations
     IN /\ num_iterations' = n
        /\ cached_num_iterations' = IF last THEN n ELSE cached_num_iterations
        /\ pc' = IF last THEN "exit" ELSE "restart"
  /\ UNCHANGED <<delaying, cmd, update_period, counter, first_startup,
                 aliasVars, cache, envVars>>

\* The test of ctx->cmd before the error filter, and its reset of the slot.
TestRestart ==
  /\ pc = "restart"
  /\ pc' = IF cmd = "RESTART" THEN "reset" ELSE "error"
  /\ UNCHANGED <<delaying, cmd, cur, rc, remember, ctxVars, statics, aliasVars,
                 cache, envVars>>

ResetRestart ==
  /\ pc = "reset"
  /\ cmd' = "NO_CMD" /\ rc' = "RESTART"
  /\ cached_num_iterations' = num_iterations
  /\ pc' = "reload"
  /\ UNCHANGED <<delaying, cur, remember, ctxVars, first_startup, aliasVars,
                 cache, envVars>>

\* check_error() and the entry of wait_for_cmd().
CheckError ==
  /\ pc = "error"
  /\ IF rc \in Fatal /\ ~IgnoreErrors
       THEN /\ pc' = "exit" /\ cached_num_iterations' = num_iterations
            /\ UNCHANGED <<update_period, counter>>
       ELSE /\ update_period' = CASE rc = "OK" -> NormalPeriod
                                  [] rc \in Temporary -> ErrorPeriod
                                  [] OTHER -> update_period
            /\ counter' = update_period'
            /\ pc' = "wait" /\ UNCHANGED cached_num_iterations
  /\ UNCHANGED <<delaying, cmd, cur, rc, remember, num_iterations, first_startup,
                 aliasVars, cache, envVars>>

\* wait_for_cmd(): sleep a tick at a time while there is no command ...
WaitTick ==
  /\ pc = "wait" /\ counter > 0 /\ cmd = "NO_CMD"
  /\ counter' = counter - 1
  /\ Tick
  /\ UNCHANGED <<pc, delaying, cmd, cur, rc, remember, update_period,
                 num_iterations, statics, address, ip_has_changed,
                 force_addr_update, update_required, envVars>>

\* ... and return when there is one, or when the period is over; the code of
\* the last check is not looked at again.
WaitDone ==
  /\ pc = "wait" /\ (counter = 0 \/ cmd # "NO_CMD")
  /\ pc' = "stop?" /\ counter' = 0 /\ rc' = "OK"
  /\ UNCHANGED <<delaying, cmd, cur, remember, update_period, num_iterations,
                 statics, aliasVars, cache, envVars>>

\* Mutant of StopRequested: only the startup delay looks for it.
StopRequestedEarly == cmd = "STOP" /\ delaying

StopRequested == cmd = "STOP"

\* The four tests of ctx->cmd after wait_for_cmd(), each a read of its own.
\* The startup delay has the same tests; it returns without saving the count.
TestStop ==
  /\ pc = "stop?"
  /\ IF StopRequested
       THEN /\ pc' = "exit" /\ rc' = "OK"
            /\ cached_num_iterations' = IF delaying THEN cached_num_iterations
                                                    ELSE num_iterations
       ELSE pc' = "restart?" /\ UNCHANGED <<rc, cached_num_iterations>>
  /\ UNCHANGED <<delaying, cmd, cur, remember, ctxVars, first_startup, aliasVars,
                 cache, envVars>>

TestRestartAgain ==
  /\ pc = "restart?"
  /\ IF cmd = "RESTART"
       THEN /\ pc' = "reload" /\ rc' = "RESTART"
            /\ cached_num_iterations' = IF delaying THEN cached_num_iterations
                                                    ELSE num_iterations
       ELSE pc' = "forced?" /\ UNCHANGED <<rc, cached_num_iterations>>
  /\ UNCHANGED <<delaying, cmd, cur, remember, ctxVars, first_startup, aliasVars,
                 cache, envVars>>

\* Where the loop goes on: to the next check, or out of the startup delay.
NextRound == IF delaying THEN "init" ELSE "checkip"

TestForced ==
  /\ pc = "forced?"
  /\ pc' = IF cmd = "FORCED_UPDATE" THEN "clear" ELSE "check?"
  /\ force_addr_update' = IF cmd = "FORCED_UPDATE" THEN All(TRUE) ELSE force_addr_update
  /\ UNCHANGED <<delaying, cmd, cur, rc, remember, ctxVars, statics, address,
                 ip_has_changed, update_required, age, cache, envVars>>

TestCheckNow ==
  /\ pc = "check?"
  /\ pc' = IF cmd = "CHECK_NOW" THEN "clear" ELSE NextRound
  /\ delaying' = (delaying /\ cmd = "CHECK_NOW")
  /\ UNCHANGED <<cmd, cur, rc, remember, ctxVars, statics, aliasVars, cache,
                 envVars>>

\* ctx->cmd = NO_CMD, some steps after the value was read.
ClearCmd ==
  /\ pc = "clear"
  /\ cmd' = "NO_CMD" /\ pc' = NextRound /\ delaying' = FALSE
  /\ UNCHANGED <<cur, rc, remember, ctxVars, statics, aliasVars, cache, envVars>>

\* The process has left main().
Terminated == pc = "exit" /\ UNCHANGED vars

-----------------------------------------------------------------------------
(* What happens around the process *)

\* unix_signal_handler(): one slot, the last signal wins.  Between
\* free_context() and the next alloc_context() the slot belongs to nobody.
Signal(s) ==
  /\ pc \notin {"exit", "down"}
  /\ cmd' = IF pc = "reload" THEN cmd ELSE s
  /\ UNCHANGED <<pc, delaying, cur, rc, remember, ctxVars, statics, aliasVars,
                 cache, envVars>>

WanChange ==
  /\ pc # "exit"
  /\ wan' \in Addr \ {wan}
  /\ Flapping \/ wan' > wan
  /\ UNCHANGED <<pc, delaying, cmd, cur, rc, remember, ctxVars, statics,
                 aliasVars, cache, server, healthy, crashes>>

\* Until now every call could fail or succeed; from now on all of them succeed.
Recover ==
  /\ pc # "exit" /\ Recovers /\ ~healthy
  /\ healthy' = TRUE
  /\ UNCHANGED <<pc, delaying, cmd, cur, rc, remember, ctxVars, statics,
                 aliasVars, cache, wan, server, crashes>>

\* A kill, a reboot, a power cut: memory is gone, the cache files stay.
Crash ==
  /\ pc \notin {"exit", "down"} /\ crashes < MaxCrashes
  /\ crashes' = crashes + 1
  /\ pc' = "down" /\ delaying' = FALSE /\ cmd' = "NO_CMD" /\ cur' = First
  /\ rc' = "OK" /\ remember' = "OK"
  /\ update_period' = DefaultPeriod /\ num_iterations' = 0 /\ counter' = 0
  /\ cached_num_iterations' = 0 /\ first_startup' = TRUE
  /\ address' = All(Empty) /\ age' = All(AgeCap)
  /\ ip_has_changed' = All(FALSE) /\ force_addr_update' = All(FALSE)
  /\ update_required' = All(FALSE)
  /\ UNCHANGED <<cache, wan, server, healthy>>

\* Time passes while the machine is down; then the daemon is started again.
DownTick ==
  /\ pc = "down"
  /\ Tick
  /\ UNCHANGED <<pc, delaying, cmd, cur, rc, remember, ctxVars, statics, address,
                 ip_has_changed, force_addr_update, update_required, envVars>>

Boot ==
  /\ pc = "down"
  /\ pc' = "reload"
  /\ UNCHANGED <<delaying, cmd, cur, rc, remember, ctxVars, statics, aliasVars,
                 cache, envVars>>

-----------------------------------------------------------------------------
(* The specification *)

\* The daemon starts with cache files left by an earlier run, each holding an
\* address its server acknowledged, or with none.
Init ==
  /\ pc = "reload" /\ delaying = FALSE /\ cmd = "NO_CMD" /\ cur = First
  /\ rc = "OK" /\ remember = "OK"
  /\ update_period = DefaultPeriod /\ counter = 0
  /\ num_iterations = 0 /\ cached_num_iterations = 0 /\ first_startup = TRUE
  /\ address = All(Empty) /\ age = All(AgeCap)
  /\ ip_has_changed = All(FALSE) /\ force_addr_update = All(FALSE)
  /\ update_required = All(FALSE)
  /\ wan = 1 /\ healthy = FALSE /\ crashes = 0
  /\ server \in [Alias -> {Empty, 1}]
  /\ cache \in [File -> {NoFile, [addr |-> 1, age |-> 0]}]
  /\ \A a \in Alias : cache[CacheFile[a]] # NoFile => server[a] = cache[CacheFile[a]].addr

\* The process's own steps.
Process ==
  \/ Reload \/ StartDelay \/ InitContext
  \/ GetAddress \/ CheckAliasUpdateTable
  \/ FakeUpdate \/ FakeSkip
  \/ UpdateSkip \/ UpdateAlias \/ OpenCacheFile \/ WriteCacheFile \/ EndProvider
  \/ CountIteration \/ TestRestart \/ ResetRestart \/ CheckError
  \/ WaitTick \/ WaitDone
  \/ TestStop \/ TestRestartAgain \/ TestForced \/ TestCheckNow \/ ClearCmd

Environment ==
  \/ \E s \in Signals : Signal(s)
  \/ WanChange \/ Recover
  \/ Crash \/ DownTick \/ Boot

Next == Process \/ Environment \/ Terminated

Spec == Init /\ [][Next]_vars

\* The kernel runs the process, and init or a supervisor starts it again.
FairSpec == Spec /\ WF_vars(Process) /\ WF_vars(Boot)

-----------------------------------------------------------------------------
(* Properties *)

\* While the daemon sleeps, every alias either has at its server the address
\* the daemon believes it has, or is marked for another try.  (send_update()
\* sets force_addr_update on every failure it handles itself.)
InSyncOrRetry ==
  pc = "wait" /\ ~delaying =>
    \A a \in Alias : server[a] = address[a] \/ force_addr_update[a]

\* The same across SIGHUP, crashes and lost cache writes, which forget the
\* mark: an alias the daemon believes to be at the current WAN address is
\* there, or will be tried again.
CurrentOrRetry ==
  pc = "wait" /\ ~delaying =>
    \A a \in Alias : address[a] = wan => server[a] = wan \/ force_addr_update[a]

\* An update is sent only when it changes the record, was asked for or failed
\* before, or is due by the forced-update period: no traffic a provider could
\* take for abuse.
SendsJustified ==
  pc = "update" /\ InAlias /\ update_required[cur] =>
    server[cur] # address[cur] \/ TimeToCheck(cur)

\* forced-update is honoured: an alias whose last acknowledged update is older
\* than the forced-update period by more than one sleep is one whose update
\* was tried and failed.
Slack == CHOOSE m \in {NormalPeriod, ErrorPeriod} : m >= NormalPeriod /\ m >= ErrorPeriod
ForcedOnTime ==
  pc = "wait" /\ ~delaying =>
    \A a \in Alias : age[a] > ForcedPeriod + Slack => force_addr_update[a]

\* Once the network and the servers work again, the WAN address stays and no
\* more signals come, every record comes to hold that address and keeps it,
\* whatever was lost before: forced updates repair what the daemon forgot.
Heals ==
  (\E w \in Addr : <>[](wan = w /\ healthy /\ cmd = "NO_CMD")) =>
    <>[](pc = "exit" \/ \A a \in Alias : server[a] = wan)

\* SIGTERM and SIGINT end the daemon, wherever it was when they came, unless a
\* later signal takes their place in the slot, or they come while the command
\* before them is being reset (StopNotDiscarded).
StopHonoured ==
  cmd = "STOP" /\ pc \notin {"reset", "clear"} ~>
    pc \in {"exit", "down"} \/ cmd \in Signals \ {"STOP"}

\* The daemon never throws away a STOP it has not obeyed.
StopNotDiscarded == [][~(cmd = "STOP" /\ cmd' = "NO_CMD")]_vars

\* update_required is reset only by a successful send_update() (or with the
\* whole context).
ResetOnlyOnSuccess ==
  [][\A a \in Alias : update_required[a] /\ ~update_required'[a] =>
       pc = "update" \/ pc = "reload" \/ pc' = "down"]_vars

\* The address sent after the fake one is the actual one.
ActualAddressSent == pc = "update" => \A a \in Alias : address[a] # Fake

\* What the cycle promises (DdnsPromise): an address enters only by a look at
\* the WAN interface, or at a start from the cache file or the DNS; a record is
\* set only to the address the daemon believes in; and a cache file is emptied or
\* written only with what its server holds, whatever fails, restarts or crashes.
Promise == INSTANCE DdnsPromise WITH
  Provider <- [a \in Alias |-> a[1]], NoAddress <- NoFile.addr, MayFake <- FakeAddr,
  belief <- address, record <- server, disk <- [f \in File |-> cache[f].addr]
KeepsPromise == Promise!Spec
=============================================================================
