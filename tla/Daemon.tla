------------------------------- MODULE Daemon -------------------------------
(***************************************************************************)
(* The life of the process, src/src/main.c with the configuration reader   *)
(* conf.c, the signal handler and the start of scripts in os.c, and the    *)
(* PID file: who owns which memory from the constructors of the plugins to *)
(* their destructors.                                                      *)
(*                                                                         *)
(* The heap objects that outlive a function are the copies in the plugin   *)
(* registry, the context the signal handler writes into, the parsed        *)
(* configuration with the strings that globals and provider infos point    *)
(* into, and the infos.  A generation number stands for the context and    *)
(* the configuration of one turn of the restart loop, 0 for NULL.  The     *)
(* update loop itself is module Ddns; here it is the phase "loop", which   *)
(* uses all of that.  A second daemon shares the PID file.                 *)
(***************************************************************************)
EXTENDS Plugin, Integers

CONSTANTS
  Orders,        \* orders in which the files' constructors may run
  Configs,       \* configuration files: sequences of provider sections
  MaxAlias,      \* DDNS_MAX_ALIAS_NUMBER
  MaxRestarts,   \* how often SIGHUP may end the loop
  MaxFaults,     \* how many calls of malloc() and exec() may fail
  Failing        \* the copies for which malloc() or strdup() may fail

\* The constructors of all files run, each once.
ASSUME OrdersAssumption ==
  \A o \in Orders :
    /\ o \in Seq(DOMAIN Files) /\ IsInjective(o)
    /\ DOMAIN Files \subseteq ToSet(o)
ASSUME BoundAssumption ==
  /\ MaxAlias \in Nat /\ MaxRestarts \in Nat /\ MaxFaults \in Nat
  /\ \A c \in Configs : \A s \in ToSet(c) : s.hostnames \in Nat

VARIABLES
  pc,            \* where the process is
  order, step,   \* the order of the constructors, and how many have run
  call,          \* the next call in the constructor or destructor that runs
  reg,           \* the registry
  ctx, param,    \* the live context, and the one the signal handler knows
  gen,           \* generations used so far
  cfg, globals,  \* the live configuration, and the one the globals point into
  infos,         \* info_list, whose order no property looks at
  faults,        \* the failed calls
  wild,          \* has the handler written into freed memory?
  mode,          \* what the command line asks for
  pidfile,       \* the process named in the PID file, 0 when there is none
  wrote,         \* the processes whose pidfile_path is set
  other,         \* the second daemon
  raced          \* did both look for the file before either had written it?

vars == <<pc, order, step, call, reg, ctx, param, gen, cfg, globals, infos, faults,
          wild, mode, pidfile, wrote, other, raced>>
memory == <<ctx, param, gen, cfg, globals, infos>>
pids   == <<pidfile, wrote, other, raced>>

Me == 1
You == 2

PC == {"ctor", "alloc", "handler", "parse", "loop", "free", "cfg_free",
       "leave", "dtor", "gone", "child", "segv"}

\* Is the checkip server asked over TLS?  known is what the plugin says of its
\* own server; a checkip-server in the section makes that irrelevant.
CheckipSsl(known, section) ==
  IF section.checkip_server THEN section.checkip_ssl
  ELSE /\ known # Unsupported
       /\ known = Required \/ (section.ssl /\ section.checkip_ssl)

\* (mutant) the number of aliases is not limited
InfoNoLimit(sys, section) ==
  [sys |-> sys, cfg |-> gen, section |-> section, aliases |-> section.hostnames, tls |-> FALSE]
\* An info keeps its ddns_system_t and strings of the configuration.
Info(sys, section) ==
  [sys |-> sys, cfg |-> gen, section |-> section, tls |-> CheckipSsl(SysOf(sys).ssl, section),
   aliases |-> IF section.hostnames > MaxAlias THEN MaxAlias ELSE section.hostnames]

Faulty(what) == Cardinality(faults) < MaxFaults /\ faults' = faults \cup {<<what, Cardinality(faults)>>}
Failed(what) == \E f \in faults : f[1] = what

Alive(p) == IF p = Me THEN pc \notin {"ctor", "gone", "segv"} ELSE other # "gone"

Init ==
  /\ pc = "ctor" /\ order \in Orders /\ step = 0 /\ call = 1 /\ reg = Empty
  /\ ctx = 0 /\ param = 0 /\ gen = 0 /\ cfg = 0 /\ globals = 0 /\ infos = {}
  /\ faults = {} /\ wild = FALSE /\ mode \in {"daemon", "once", "check", "list"}
  /\ pidfile = 0 /\ wrote = {} /\ other = "gone" /\ raced = FALSE

----------------------------------------------------------------------------
\* Before main(): the next call in the constructor of the next file.

Calls(f) == IF pc = "ctor" THEN Files[f].inits ELSE Files[f].exits
Current    == order[IF pc = "ctor" THEN step + 1 ELSE step]
NextCall ==
  IF call < Len(Calls(Current)) THEN call' = call + 1 /\ UNCHANGED step
  ELSE call' = 1 /\ step' = IF pc = "ctor" THEN step + 1 ELSE step - 1

Construct ==
  /\ pc = "ctor" /\ step < Len(order)
  /\ LET o == Made(Current, call)
     IN \/ NextCall /\ reg' = Register(reg, o) /\ UNCHANGED <<pc, faults>>
        \/ /\ o[3] = "clone" /\ o \in Failing /\ Faulty("malloc")
           /\ NextCall /\ UNCHANGED <<pc, reg>>                 \* no copy
        \/ /\ o[3] = "clone" /\ o \in Failing /\ Faulty("malloc")
           /\ pc' = "segv" /\ UNCHANGED <<reg, step, call>>     \* strdup() not checked
  /\ UNCHANGED <<order, memory, wild, mode, pids>>

\* (mutant) os_check_perms() does not look for a live process
MainNoLook ==
  /\ pc = "ctor" /\ step = Len(order)
  /\ IF mode = "list" THEN pc' = "dtor" /\ UNCHANGED raced
     ELSE pc' = "alloc" /\ raced' = (raced \/ (mode = "daemon" /\ other = "checked"))
  /\ UNCHANGED <<order, step, call, reg, memory, faults, wild, mode, pidfile, wrote, other>>

\* main() up to the restart loop.  os_check_perms() refuses to run beside a
\* live process named in the PID file; only a daemon looks.
Main ==
  /\ pc = "ctor" /\ step = Len(order)
  /\ IF mode = "list" \/ (mode = "daemon" /\ pidfile = You /\ other # "gone")
     THEN pc' = "dtor" /\ UNCHANGED raced
     ELSE pc' = "alloc" /\ raced' = (raced \/ (mode = "daemon" /\ other = "checked"))
  /\ UNCHANGED <<order, step, call, reg, memory, faults, wild, mode, pidfile, wrote, other>>

\* drop_privs() or ssl_init() fails.
StartFails ==
  /\ pc = "alloc" /\ gen = 0 /\ mode # "check" /\ pc' = "dtor"
  /\ UNCHANGED <<order, step, call, reg, memory, faults, wild, mode, pids>>

\* --check-config runs without the handler.
Allocated == IF mode = "check" THEN "parse" ELSE "handler"

\* alloc_context(): an inner malloc() that fails leaves NULL and returns 0.
AllocContext ==
  /\ pc = "alloc"
  /\ gen' = gen + 1
  /\ \/ ctx' = gen + 1 /\ pc' = Allocated /\ UNCHANGED faults
     \/ Faulty("malloc") /\ ctx' = 0 /\ pc' = Allocated
     \/ Faulty("malloc") /\ ctx' = 0 /\ pc' = "leave"
  /\ UNCHANGED <<order, step, call, reg, param, cfg, globals, infos, wild, mode, pids>>

\* (mutant) a handler that is installed keeps its context
InstallSignalHandlerOnce ==
  /\ pc = "handler"
  /\ \/ param' = (IF param = 0 THEN ctx ELSE param) /\ pc' = "parse"
     \/ gen = 1 /\ pc' = "free" /\ UNCHANGED param
  /\ UNCHANGED <<order, step, call, reg, ctx, gen, cfg, globals, infos, faults, wild, mode, pids>>

\* os_install_signal_handler().  Its calls of sigaction(), which may fail, are
\* made in the first turn only.
InstallSignalHandler ==
  /\ pc = "handler"
  /\ \/ param' = ctx /\ pc' = "parse"
     \/ gen = 1 /\ pc' = "free" /\ UNCHANGED param
  /\ UNCHANGED <<order, step, call, reg, ctx, gen, cfg, globals, infos, faults, wild, mode, pids>>

\* set_provider_opts() for the sections of the file; one without a plugin fails.
Known(section) == Find(reg.list, section.title) # Null
CreateProviders(sections) ==
  {Info(Find(reg.list, s.title), s) : s \in {s \in ToSet(sections) : Known(s)}}

\* conf_parse_file()
ParseFile ==
  /\ pc = "parse"
  /\ \/ /\ pc' = "free" /\ UNCHANGED <<cfg, globals, infos>>       \* cfg_parse() fails
     \/ /\ ctx = 0 /\ pc' = "segv" /\ UNCHANGED <<cfg, globals, infos>>
     \/ /\ ctx # 0 /\ globals' = gen                               \* no CA trust file
        /\ pc' = "free" /\ UNCHANGED <<cfg, infos>>
     \/ /\ ctx # 0 /\ globals' = gen
        /\ \E sections \in Configs :
             /\ infos' = infos \cup CreateProviders(sections)
             /\ IF \A s \in ToSet(sections) : Known(s)
                THEN cfg' = gen /\ pc' = IF mode = "check" THEN "free" ELSE "loop"
                ELSE pc' = "free" /\ UNCHANGED cfg
  /\ UNCHANGED <<order, step, call, reg, ctx, param, gen, faults, wild, mode, pids>>

\* ddns_main_loop() has finished its initialisation: pidfile().
WritePidfile ==
  /\ pc = "loop" /\ mode = "daemon"
  /\ IF Me \in wrote /\ pidfile # 0 THEN UNCHANGED pids            \* touched only
     ELSE pidfile' = Me /\ wrote' = wrote \cup {Me} /\ UNCHANGED <<other, raced>>
  /\ UNCHANGED <<pc, order, step, call, reg, memory, faults, wild, mode>>

\* A script is started and exec() fails: the vfork()ed child calls exit() in
\* the memory of the daemon, which is suspended until the child is gone.
\* pidfile_cleanup() sees another process ID.
ExecFails ==
  /\ pc = "loop" /\ Faulty("exec") /\ pc' = "child"
  /\ UNCHANGED <<order, step, call, reg, memory, wild, mode, pids>>

\* The loop calls the functions of an info whose ddns_system_t was freed.
UseFreed ==
  /\ pc = "loop" /\ \E i \in infos : i.sys \in reg.freed
  /\ pc' = "segv"
  /\ UNCHANGED <<order, step, call, reg, memory, faults, wild, mode, pids>>

\* The loop ends, for good or (RC_RESTART) for another turn.
LoopEnds ==
  /\ pc = "loop" /\ pc' = "free"
  /\ UNCHANGED <<order, step, call, reg, memory, faults, wild, mode, pids>>

\* (mutant) conf_info_cleanup() is not called
FreeContextKeepsInfos ==
  /\ pc = "free"
  /\ ctx' = 0
  /\ pc' = IF cfg = 0 THEN "leave" ELSE "cfg_free"
  /\ UNCHANGED <<order, step, call, reg, param, gen, cfg, globals, infos, faults, wild, mode, pids>>

\* free_context() with conf_info_cleanup(); cfg is NULL after a failed parse.
FreeContext ==
  /\ pc = "free"
  /\ ctx' = 0
  /\ infos' = IF ctx = 0 THEN infos ELSE {}
  /\ pc' = IF cfg = 0 THEN "leave" ELSE "cfg_free"
  /\ UNCHANGED <<order, step, call, reg, param, gen, cfg, globals, faults, wild, mode, pids>>

CfgFree ==
  /\ pc = "cfg_free" /\ cfg' = 0
  /\ \/ mode # "check" /\ gen <= MaxRestarts /\ pc' = "alloc"
     \/ pc' = "leave"
  /\ UNCHANGED <<order, step, call, reg, ctx, param, gen, globals, infos, faults, wild, mode, pids>>

\* main() returns and exit() runs pidfile_cleanup() ...
Leave ==
  /\ pc = "leave" /\ pc' = "dtor"
  /\ IF Me \in wrote THEN pidfile' = 0 /\ wrote' = wrote \ {Me} ELSE UNCHANGED <<pidfile, wrote>>
  /\ UNCHANGED <<order, step, call, reg, memory, faults, wild, mode, other, raced>>

\* ... and the destructors, the last file's first.
Destruct ==
  /\ pc \in {"dtor", "child"} /\ step > 0
  /\ NextCall /\ reg' = Unregister(reg, Static(Current, Files[Current].exits[call]))
  /\ UNCHANGED <<pc, order, memory, faults, wild, mode, pids>>

Exit ==
  /\ pc \in {"dtor", "child"} /\ step = 0
  /\ IF pc = "dtor" THEN pc' = "gone" /\ UNCHANGED step
     ELSE pc' = "loop" /\ step' = Len(order)
  /\ UNCHANGED <<order, call, reg, memory, faults, wild, mode, pids>>

\* A signal: unix_signal_handler() stores a command in *param.
Signal ==
  /\ pc \in {"alloc", "handler", "parse", "loop", "child", "free", "cfg_free", "leave", "dtor"}
  /\ param # 0 /\ param # ctx /\ wild' = TRUE
  /\ UNCHANGED <<pc, order, step, call, reg, memory, faults, mode, pids>>

----------------------------------------------------------------------------
\* The second daemon, as far as the PID file sees it.

OtherStarts ==
  /\ other = "gone" /\ ~(pidfile = Me /\ Alive(Me))
  /\ other' = "checked"
  /\ raced' = (raced \/ (mode = "daemon" /\ pc \notin {"ctor", "dtor", "gone", "segv"} /\ Me \notin wrote))
  /\ UNCHANGED <<pc, order, step, call, reg, memory, faults, wild, mode, pidfile, wrote>>

OtherWrites ==
  /\ other = "checked"
  /\ other' = "running" /\ pidfile' = You /\ wrote' = wrote \cup {You}
  /\ UNCHANGED <<pc, order, step, call, reg, memory, faults, wild, mode, raced>>

OtherEnds ==
  /\ other # "gone" /\ other' = "gone" /\ wrote' = wrote \ {You}
  /\ \/ pidfile' = IF You \in wrote THEN 0 ELSE pidfile     \* exit()
     \/ UNCHANGED pidfile                                   \* killed
  /\ UNCHANGED <<pc, order, step, call, reg, memory, faults, wild, mode, raced>>

\* Its steps do not meet the constructors and destructors, so none is taken
\* between two of them.
Other == step \in {0, Len(order)} /\ call = 1 /\ (OtherStarts \/ OtherWrites \/ OtherEnds)

Next ==
  \/ Construct \/ Main \/ StartFails \/ AllocContext \/ InstallSignalHandler
  \/ ParseFile \/ WritePidfile \/ ExecFails \/ UseFreed \/ LoopEnds \/ FreeContext
  \/ CfgFree \/ Leave \/ Destruct \/ Exit \/ Signal \/ Other

Spec == Init /\ [][Next]_vars

----------------------------------------------------------------------------
(***************************************************************************)
(* Properties.                                                             *)
(***************************************************************************)

Linked == ToSet(reg.list)

\* The states between the last constructor and the first destructor.
Running == step = Len(order) /\ call = 1 /\ pc \notin {"dtor", "child", "segv"}

\* Every variable has a value of its type: memory is of a generation that was
\* allocated, an info's system is an object some plugin file registers.
TypeOK ==
  /\ pc \in PC /\ order \in Orders /\ step \in 0..Len(order) /\ call \in Nat \ {0}
  /\ reg \in [list : Seq(Objects), freed : SUBSET Objects, lost : SUBSET Objects]
  /\ gen \in 0..(MaxRestarts + 1) /\ {ctx, param, cfg, globals} \subseteq 0..gen
  /\ \A i \in infos : i.sys \in Objects /\ i.aliases \in 0..MaxAlias
  /\ Cardinality(faults) <= MaxFaults /\ wild \in BOOLEAN /\ raced \in BOOLEAN
  /\ mode \in {"daemon", "once", "check", "list"} /\ pidfile \in {0, Me, You}
  /\ wrote \subseteq {Me, You} /\ other \in {"gone", "checked", "running"}

\* Whatever the order in which the constructors run, no plugin shadows another:
\* each object is linked once, found by its own name, and an alias leads to the
\* object that defines it (plugin_register() drops a name that is already found,
\* and search_plugin() takes the first of several).
NamesResolve ==
  Running /\ faults = {} =>
    /\ Linked = Objects /\ Len(reg.list) = Cardinality(Objects)
    /\ \A o \in Objects : FindExact(reg.list, NameOf(o)) = o
    /\ \A o \in Statics : AliasOf(o) # NoName => FindExact(reg.list, AliasOf(o)) = o

\* Does the constructor of file x run before that of file y?
Before(x, y) == \E i, j \in DOMAIN order : i < j /\ Files[order[i]] = x /\ Files[order[j]] = y

\* A provider section that gives only a domain gets an IPv4 plugin of that
\* domain, not the IPv6 system or the clone with the same domain.  The one
\* exception is he.net, where the order of the constructors decides.
GuessIsV4 ==
  LET Domain == {NameOf(o)[2] : o \in Statics}
      first  == Before(Dyndns, Tunnelbroker)
  IN Running /\ faults = {} =>
       \A d \in Domain :
         (d = "he.net" => first) => ForIPv4(Find(reg.list, <<"", d>>))

\* While plugins come and go the registry links no freed copy and never loses
\* one, and a provider info uses no freed copy as long as no exec() has failed:
\* then the child's exit() has run the destructors in the daemon's memory.
SystemsLive ==
  /\ Linked \cap reg.freed = {} /\ reg.lost = {}
  /\ ~Failed("exec") => \A i \in infos : i.sys \notin reg.freed

\* When the process is gone, every copy plugin_register_v6() made was freed
\* exactly once and all that is still linked are the two IPv6 systems that
\* dhis.c and dnshome.c forget to unregister.
AllUnregistered ==
  pc = "gone" =>
    /\ Linked = Forgotten
    /\ ~Failed("malloc") => reg.freed = Objects \ Statics

\* The update loop runs on the configuration of this turn alone: a SIGHUP
\* leaves no info and no global behind that points into the freed one, and
\* the signal handler knows the live context.
TurnIsFresh ==
  pc = "loop" =>
    /\ cfg = gen /\ globals = gen /\ ctx = gen /\ param = ctx
    /\ \A i \in infos : i.cfg = gen

\* A signal goes to freed memory only in the gaps of the restart loop, between
\* free_context() and the next os_install_signal_handler(), or at the end.
\* A command that arrives there is lost.
WildOnlyInGap ==
  [][wild' # wild => ctx = 0 \/ pc = "handler"]_vars

\* The process crashes only after a failed malloc() (a NULL context, the
\* unchecked strdup() of a clone's name), or after a failed exec() when the
\* configuration uses a copied system.
CrashExcused ==
  pc = "segv" =>
    \/ Failed("malloc")
    \/ Failed("exec") /\ \E i \in infos : i.sys[3] = "clone"

\* A daemon that has written its PID file is the one the file names, unless two
\* daemons looked for the file before either of them wrote it.
PidfileMine == pc = "loop" /\ Me \in wrote /\ other # "gone" => pidfile = Me \/ raced
=============================================================================
