--------------------------- MODULE TransportProofs ---------------------------
(***************************************************************************)
(* Theorems about the HTTP client that hold for any number of descriptors  *)
(* and DNS records and for all three TLS libraries.                        *)
(***************************************************************************)
EXTENDS Transport, TLAPS

\* The stages after http_init() has returned 0, and the ones of ssl_open() in
\* which the TLS objects and the connections already exist.
Up       == {"open", "send", "recv", "reply", "close"}
AfterNet == {"config", "ssl", "sni", "handshake", "ready"} \cup Up
AfterSsl == {"sni", "priority", "handshake", "cert", "ready"} \cup Up
AfterCtx == {"ca", "ssl"} \cup AfterSsl
WithTcp  == {"ready"} \cup Up
              \cup (IF tls = "gnutls" THEN {"handshake", "cert"} ELSE TlsStages)

\* The calls a library makes.
StagesOf(b) ==
  IF b = "openssl" THEN {"ctx", "ca", "ssl", "sni", "handshake", "cert"}
  ELSE IF b = "gnutls" THEN {"ca", "ssl", "sni", "priority", "handshake", "cert"}
  ELSE {"seed", "ca", "net", "config", "ssl", "sni", "handshake"}

\* The flags tell where http_init() is.
StageInv ==
  /\ at \in TlsStages => ssl_enabled /\ at \in StagesOf(tls)
  /\ initialized <=> at \in Up
  /\ tcp_initialized <=> at \in WithTcp

\* The descriptors that are open are the ones some variable names.
FdInv ==
  /\ sd # NoFd <=> at = "connect"
  /\ tcp_initialized => socket # NoFd /\ socket # netfd
  /\ netfd # NoFd => tls = "mbedtls" /\ ssl_enabled /\ at \in AfterNet
  /\ fds = {d \in Fd : d = netfd \/ d = sd \/ (tcp_initialized /\ d = socket)}

\* A TLS object lives from the call that makes it to ssl_close().
LiveInv ==
  /\ tls # "gnutls" => ~leaked
  /\ tls = "openssl" /\ "ctx" \in live => ssl_enabled /\ at \in AfterCtx
  /\ tls # "gnutls" /\ "ssl" \in live => ssl_enabled /\ at \in AfterSsl
  /\ tls = "mbedtls" => "ctx" \notin live
  /\ ssl_enabled /\ (at \in AfterSsl \/ (tls = "gnutls" /\ at \in TcpStages))
       => "ssl" \in live

\* Nothing between two uses depends on what failed before: the inductive
\* strengthening of NothingLeft and HandlesValid.
ResourceInv == TransportType /\ StageInv /\ FdInv /\ LiveInv

\* No record in S that accepts the connection comes before one whose family has
\* no sockets.
Unreachable(S) ==
  \A i \in S : net[i].state = "up" => \E j \in S : j < i /\ net[j].state = "nosocket"

Wanted == {i \in Index : net[i].fam = force}

\* The loop of tcp_init() has left nothing out: the records before ai refused,
\* and TCP_AUTO is tried only when the family asked for cannot be reached.
LoopInv ==
  /\ mode \in {force, "auto"}
  /\ at \in {"socket", "connect"} =>
       ai \in Candidates /\ \A j \in Candidates : j < ai => net[j].state = "refuses"
  /\ at = "connect" => net[ai].state # "nosocket"
  /\ tcp_initialized => ai \in Candidates
  /\ mode = "auto" => Unreachable(Wanted)
  /\ rc \in TcpErrors => at = "idle"
  /\ rc \in TcpErrors /\ tls # "mbedtls" => Unreachable(Index)

SearchInv == ResourceInv /\ LoopInv

-----------------------------------------------------------------------------
(* Facts about the helpers *)

\* What ssl_open() does first.
LEMMA Begins ==
  ASSUME TransportType, NEW s \in BOOLEAN
  PROVE  Follows[IF s THEN tls ELSE "plain"].begin
           = IF s /\ tls = "gnutls" THEN "ca" ELSE "tcp"
<1>1. tls \in {"openssl", "gnutls", "mbedtls"}
  BY TransportAssumption DEF TransportType, Protos
<1> QED BY <1>1 DEF Follows

\* What it does after tcp_init().
LEMMA AfterTcpInit ==
  ASSUME TransportType
  PROVE  Follows[Proto]["tcp"] =
           IF ~ssl_enabled THEN "ready"
           ELSE IF tls = "openssl" THEN "ctx"
           ELSE IF tls = "gnutls" THEN "handshake" ELSE "seed"
<1>1. tls \in {"openssl", "gnutls", "mbedtls"} /\ ssl_enabled \in BOOLEAN
  BY TransportAssumption DEF TransportType, Protos
<1> QED BY <1>1 DEF Follows, Proto

\* The order of the calls: a session comes after its context, a connection of
\* mbedtls.c before its session, and tcp_init() before the handshake.
LEMMA Order ==
  ASSUME TransportType, StageInv, at \in TlsStages
  PROVE  LET next == Follows[tls][at] IN
         /\ next \in StagesOf(tls) \cup {"tcp", "ready"}
         /\ next = "tcp" => tls = "gnutls" /\ at = "priority"
         /\ next \in AfterSsl => at \in AfterSsl \cup {"ssl"}
         /\ tls = "openssl" => next \in AfterCtx
         /\ tls = "mbedtls" /\ at \in AfterNet \cup {"net"} => next \in AfterNet
         /\ tls = "gnutls" => (next \in WithTcp <=> at \in WithTcp)
         /\ at \in {"sni", "priority", "handshake", "cert", "ssl"} /\ next # "tcp"
              => next \in AfterSsl
         /\ tls # "gnutls" /\ at \in {"sni", "priority", "handshake", "cert", "ssl"}
              => next \in AfterSsl
         /\ tls = "mbedtls" => at # "ctx"
<1>1. tls \in {"openssl", "gnutls", "mbedtls"} /\ at \in StagesOf(tls)
  BY TransportAssumption DEF TransportType, Protos, StageInv
<1>2. CASE tls = "openssl"
  BY <1>1, <1>2 DEF Follows, StagesOf, AfterSsl, AfterCtx, AfterNet, Up, WithTcp, TlsStages
<1>3. CASE tls = "gnutls"
  BY <1>1, <1>3 DEF Follows, StagesOf, AfterSsl, AfterCtx, AfterNet, Up, WithTcp, TlsStages
<1>4. CASE tls = "mbedtls"
  BY <1>1, <1>4 DEF Follows, StagesOf, AfterSsl, AfterCtx, AfterNet, Up, WithTcp, TlsStages
<1> QED BY <1>1, <1>2, <1>3, <1>4

\* A descriptor that is free if there is one.
LEMMA Free == ASSUME TransportType, fds # Fd
              PROVE  FreeFd \in Fd /\ FreeFd \notin fds /\ FreeFd # NoFd
<1>1. \E d \in Fd : d \notin fds
  BY DEF TransportType
<1>2. FreeFd \in Fd /\ FreeFd \notin fds
  BY <1>1 DEF FreeFd
<1> QED BY <1>2, TransportAssumption DEF NoFd

-----------------------------------------------------------------------------
(* Resources *)

\* A new object owns nothing.
LEMMA ResourceInit == TransportInit => ResourceInv
<1> SUFFICES ASSUME TransportInit PROVE ResourceInv
  OBVIOUS
<1>1. TransportType
  <2>1. net \in [Index -> Record]
    BY DEF TransportInit, Record, Family
  <2>2. /\ tls \in Backends /\ at = "idle" /\ live = {} /\ port \in Nat
        /\ ssl_enabled = FALSE /\ initialized = FALSE /\ connected = FALSE
        /\ leaked = FALSE /\ tcp_initialized = FALSE /\ stalled = FALSE
        /\ socket = NoFd /\ sd = NoFd /\ netfd = NoFd /\ fds = {}
        /\ force = "v4" /\ mode = "v4" /\ ai = 0 /\ rc = "OK"
        /\ status = 0 /\ rsp_len = 0 /\ rest = 0 /\ sent = "nothing"
    BY TransportAssumption DEF TransportInit
  <2>3. rsp_len \in 0..MaxRsp /\ rest \in 0..MaxReply /\ sent \in Amount
    BY <2>2, TransportAssumption DEF Amount
  <2> QED BY <2>1, <2>2, <2>3 DEF TransportType, Stage, TlsStages, TcpStages, RC, TcpErrors, Family, NoFd
<1>2. StageInv /\ LiveInv
  BY DEF TransportInit, StageInv, LiveInv, TlsStages, TcpStages, Up, WithTcp, AfterSsl, AfterCtx
<1>3. FdInv
  BY TransportAssumption DEF TransportInit, FdInv, NoFd
<1> QED BY <1>1, <1>2, <1>3 DEF ResourceInv

\* tcp_exit() and ssl_close(), called when there is a socket or none, leave no
\* descriptor open; ssl_close() frees what there is with TLS enabled.
LEMMA Closes ==
  ASSUME ResourceInv, SslClose, sd = NoFd, UNCHANGED <<tls, ssl_enabled>>
  PROVE  /\ fds' = {} /\ netfd' = NoFd /\ ~tcp_initialized' /\ ~connected'
         /\ socket' \in Fd \cup {NoFd}
         /\ live' \subseteq live /\ (ssl_enabled => live' = {})
<1> USE DEF ResourceInv, TransportType, FdInv, SslClose, TcpExit, NoFd
<1>1. netfd' = NoFd
  BY DEF StageInv
<1>2. \A d \in fds : d = netfd \/ (tcp_initialized /\ d = socket)
  BY TransportAssumption
<1>3. \A d \in fds : d = netfd => ssl_enabled
  BY TransportAssumption
<1>4. fds' = {}
  BY <1>2, <1>3
<1> QED BY <1>1, <1>4

\* The start of a call.
LEMMA HttpInitStep ==
  ASSUME ResourceInv, NEW s \in BOOLEAN, NEW f \in Family, HttpInit(s, f)
  PROVE  ResourceInv'
<1>1. at' = IF s /\ tls = "gnutls" THEN "ca" ELSE "tcp"
  BY Begins DEF HttpInit, ResourceInv
<1>2. /\ at = "idle" /\ ssl_enabled' = s /\ force' = f /\ mode' = f
      /\ net' \in [Index -> Record] /\ rc' = "OK" /\ ai' = 0 /\ sd' = NoFd
      /\ UNCHANGED <<tls, initialized, connected, live, leaked, tcp_initialized,
                     socket, port, netfd, fds, status, rsp_len, rest, sent, stalled>>
  BY DEF HttpInit
<1>3. TransportType'
  BY <1>1, <1>2 DEF ResourceInv, TransportType, Stage, TlsStages, TcpStages, RC, TcpErrors, Family, NoFd
<1>4. StageInv'
  BY <1>1, <1>2 DEF ResourceInv, StageInv, WithTcp, Up, TlsStages, TcpStages, StagesOf, TransportType
<1>5. FdInv'
  BY <1>1, <1>2 DEF ResourceInv, FdInv, NoFd, AfterNet, Up, StageInv, WithTcp, TlsStages
<1>6. LiveInv'
  BY <1>1, <1>2 DEF ResourceInv, LiveInv, AfterSsl, AfterCtx, Up, TcpStages, TransportType
<1> QED BY <1>3, <1>4, <1>5, <1>6 DEF ResourceInv

\* tcp_init() is only called without a socket.
LEMMA TcpInitStep ==
  ASSUME ResourceInv, TcpInit
  PROVE  ResourceInv'
<1>1. /\ at = "tcp" /\ at' = "resolve" /\ port' \in Nat
      /\ UNCHANGED <<httpVars, tcp_initialized, socket, force, mode, net, ai, sd,
                     netfd, fds, rspVars>>
  BY DEF TcpInit, ResourceInv, StageInv, WithTcp, Up, TlsStages, TransportType
<1>2. TransportType'
  BY <1>1 DEF ResourceInv, httpVars, rspVars, TransportType, Stage, TlsStages, TcpStages, RC, TcpErrors, Family, NoFd
<1>3. StageInv' /\ FdInv' /\ LiveInv'
  BY <1>1 DEF ResourceInv, httpVars, StageInv, WithTcp, Up, TlsStages, TcpStages, StagesOf, FdInv, NoFd, LiveInv, AfterNet, AfterSsl, AfterCtx, TransportType
<1> QED BY <1>2, <1>3 DEF ResourceInv

\* A failed tcp_init() starts over or ends the call, and touches nothing else.
LEMMA Failed ==
  ASSUME NEW code \in TcpErrors, TcpFailed(code)
  PROVE  \/ at' = "resolve" /\ mode' = "auto" /\ rc' = rc
         \/ at' = "idle" /\ mode' = mode /\ rc' = code /\ mode = "auto"
BY DEF TcpFailed

\* getaddrinfo() opens nothing.
LEMMA ResolveStep ==
  ASSUME ResourceInv, Resolve
  PROVE  ResourceInv'
<1>1. /\ at = "resolve" /\ at' \in {"resolve", "idle", "socket"}
      /\ mode' \in {mode, "auto"} /\ rc' \in {rc, "REMOTE_ADDR"} /\ ai' \in Nat
  BY Failed DEF Resolve, FirstOf, Candidates, Index, TcpErrors, ResourceInv, TransportType
<1>2. UNCHANGED <<httpVars, tcp_initialized, socket, port, force, net, sd, netfd,
                  fds, status, rsp_len, rest, sent, stalled>>
  BY DEF Resolve
<1>3. TransportType'
  BY <1>1, <1>2 DEF ResourceInv, httpVars, TransportType, Stage, TlsStages, TcpStages, RC, TcpErrors, Family, NoFd
<1>4. StageInv' /\ FdInv' /\ LiveInv'
  BY <1>1, <1>2 DEF ResourceInv, httpVars, StageInv, WithTcp, Up, TlsStages, TcpStages, StagesOf, FdInv, NoFd, LiveInv, AfterNet, AfterSsl, AfterCtx, TransportType
<1> QED BY <1>3, <1>4 DEF ResourceInv

\* socket() takes the only descriptor.
LEMMA SocketStep ==
  ASSUME ResourceInv, Socket
  PROVE  ResourceInv'
<1>1. /\ at = "socket"
      /\ UNCHANGED <<httpVars, tcp_initialized, socket, port, force, net, ai, netfd,
                     status, rsp_len, rest, sent, stalled>>
  BY DEF Socket
<1>2. sd = NoFd /\ netfd = NoFd /\ ~tcp_initialized /\ fds = {}
  BY <1>1, TransportAssumption
     DEF ResourceInv, FdInv, StageInv, WithTcp, AfterNet, Up, TlsStages, NoFd
<1>3. \/ /\ at' \in {"resolve", "idle"} /\ UNCHANGED <<sd, fds>>
         /\ mode' \in {mode, "auto"} /\ rc' \in {rc, "SOCKET_CREATE"}
      \/ /\ fds # Fd /\ sd' = FreeFd /\ fds' = fds \cup {sd'} /\ at' = "connect"
         /\ UNCHANGED <<mode, rc>>
  BY Failed DEF Socket, TcpErrors
<1>4. fds # Fd => FreeFd \in Fd /\ FreeFd # NoFd
  BY Free DEF ResourceInv
<1>5. TransportType'
  BY <1>1, <1>3, <1>4 DEF ResourceInv, httpVars, TransportType, Stage, TlsStages, TcpStages, RC, TcpErrors, Family, NoFd
<1>6. StageInv' /\ LiveInv'
  BY <1>1, <1>3 DEF ResourceInv, httpVars, StageInv, WithTcp, Up, TlsStages, TcpStages, StagesOf, LiveInv, AfterSsl, AfterCtx, TransportType
<1>7. FdInv'
  BY <1>1, <1>2, <1>3, <1>4 DEF ResourceInv, httpVars, FdInv, NoFd, TransportType
<1> QED BY <1>5, <1>6, <1>7 DEF ResourceInv

\* A connect() that fails closes the descriptor, one that succeeds hands it to
\* the object.
LEMMA ConnectStep ==
  ASSUME ResourceInv, Connect
  PROVE  ResourceInv'
<1>1. /\ at = "connect" /\ sd' = NoFd
      /\ UNCHANGED <<httpVars, port, force, net, netfd, status, rsp_len, rest, sent,
                     stalled>>
  BY DEF Connect
<1>2. sd \in Fd /\ sd # NoFd /\ netfd = NoFd /\ ~tcp_initialized /\ fds = {sd}
  BY <1>1, TransportAssumption
     DEF ResourceInv, TransportType, FdInv, StageInv, WithTcp, AfterNet, Up, TlsStages, NoFd
<1>3. CASE net[ai].state = "up"
  <2>1. /\ socket' = sd /\ tcp_initialized' = TRUE /\ at' = Follows[Proto]["tcp"]
        /\ UNCHANGED <<ai, fds, mode, rc>>
    BY <1>3 DEF Connect
  <2>2. at' = IF ~ssl_enabled THEN "ready"
              ELSE IF tls = "openssl" THEN "ctx"
              ELSE IF tls = "gnutls" THEN "handshake" ELSE "seed"
    BY <2>1, AfterTcpInit DEF ResourceInv
  <2>3. TransportType'
    BY <1>1, <1>2, <2>1, <2>2 DEF ResourceInv, httpVars, TransportType, Stage, TlsStages, TcpStages, RC, TcpErrors, Family, NoFd
  <2>4. StageInv'
    BY <1>1, <2>1, <2>2 DEF ResourceInv, httpVars, StageInv, WithTcp, Up, TlsStages, TcpStages, StagesOf, TransportType
  <2>5. FdInv'
    BY <1>1, <1>2, <2>1, <2>2 DEF ResourceInv, httpVars, FdInv, NoFd, TransportType
  <2>6. LiveInv'
    BY <1>1, <2>1, <2>2 DEF ResourceInv, httpVars, LiveInv, AfterSsl, AfterCtx, Up, TcpStages, TransportType
  <2> QED BY <2>3, <2>4, <2>5, <2>6 DEF ResourceInv
<1>4. CASE net[ai].state # "up"
  <2>1. /\ fds' = fds \ {sd} /\ UNCHANGED <<socket, tcp_initialized>>
        /\ at' \in {"socket", "resolve", "idle"} /\ ai' \in Nat
        /\ mode' \in {mode, "auto"} /\ rc' \in {rc, "CONNECT"}
    BY <1>4, Failed DEF Connect, FirstOf, NextRecord, Candidates, Index, TcpErrors, ResourceInv, TransportType
  <2>2. TransportType'
    BY <1>1, <1>2, <2>1 DEF ResourceInv, httpVars, TransportType, Stage, TlsStages, TcpStages, RC, TcpErrors, Family, NoFd
  <2>3. StageInv' /\ LiveInv'
    BY <1>1, <2>1 DEF ResourceInv, httpVars, StageInv, WithTcp, Up, TlsStages, TcpStages, StagesOf, LiveInv, AfterSsl, AfterCtx, TransportType
  <2>4. FdInv'
    BY <1>1, <1>2, <2>1, TransportAssumption DEF ResourceInv, httpVars, FdInv, NoFd, TransportType
  <2> QED BY <2>2, <2>3, <2>4 DEF ResourceInv
<1> QED BY <1>3, <1>4

\* The next call of ssl_open().
LEMMA TlsStepStep ==
  ASSUME ResourceInv, TlsStep
  PROVE  ResourceInv'
<1>1. /\ at \in TlsStages /\ at' = Follows[tls][at]
      /\ live' = live \cup ({at} \cap {"ctx", "ssl"})
      /\ leaked' = (leaked \/ at \in live)
      /\ connected' \in BOOLEAN
      /\ UNCHANGED <<tls, ssl_enabled, initialized, tcp_initialized, socket, port,
                     force, mode, net, ai, sd, rspVars>>
  BY DEF TlsStep
<1>2. /\ ssl_enabled /\ at \in StagesOf(tls) /\ ~initialized
      /\ at' \in StagesOf(tls) \cup {"tcp", "ready"}
      /\ at' = "tcp" => tls = "gnutls" /\ at = "priority"
      /\ tls = "gnutls" => (at' \in WithTcp <=> at \in WithTcp)
  BY <1>1, Order, Zenon DEF ResourceInv, StageInv, Up, TlsStages
<1>3. StageInv'
  <2>1. at' \in TlsStages => at' \in StagesOf(tls)
    BY <1>2 DEF TlsStages
  <2>2. at' \notin Up /\ at' \notin TcpStages \ {"tcp"}
    BY <1>2 DEF StagesOf, Up, TcpStages
  <2>3. tls # "gnutls" => at' \in WithTcp /\ at \in WithTcp
    BY <1>1, <1>2 DEF WithTcp, StagesOf, TlsStages
  <2>4. WithTcp' = WithTcp
    BY <1>1 DEF WithTcp
  <2>5. tcp_initialized' <=> at' \in WithTcp'
    BY <1>1, <1>2, <2>3, <2>4 DEF ResourceInv, StageInv
  <2> QED BY <1>1, <1>2, <2>1, <2>2, <2>5 DEF StageInv, ResourceInv
<1>4. ASSUME at = "net" PROVE FdInv'
  <2>1. tls = "mbedtls"
    BY <1>2, <1>4, TransportAssumption DEF StagesOf, ResourceInv, TransportType, Protos
  <2>2. netfd = NoFd /\ sd = NoFd /\ tcp_initialized
    BY <1>1, <1>4, <2>1 DEF ResourceInv, FdInv, StageInv, AfterNet, Up, WithTcp
  <2>3. /\ netfd' = FreeFd /\ fds' = fds \cup {netfd'}
        /\ FreeFd \in Fd /\ FreeFd \notin fds /\ FreeFd # NoFd
    BY <1>4, Free DEF TlsStep, ResourceInv
  <2>4. socket \in fds
    BY <2>2 DEF ResourceInv, FdInv, TransportType
  <2>5. at' \in AfterNet
    BY <1>1, <1>4, <2>1, Order DEF ResourceInv
  <2>6. fds' = {d \in Fd : d = netfd' \/ d = sd' \/ (tcp_initialized' /\ d = socket')}
    BY <1>1, <2>2, <2>3, TransportAssumption DEF ResourceInv, FdInv, NoFd
  <2>7. at' # "connect"
    BY <2>5 DEF AfterNet, Up
  <2> QED BY <1>1, <1>2, <2>1, <2>2, <2>3, <2>4, <2>5, <2>6, <2>7 DEF FdInv, ResourceInv
<1>5. ASSUME at # "net" PROVE FdInv'
  <2>1. UNCHANGED <<netfd, fds>>
    BY <1>5 DEF TlsStep
  <2>2. netfd # NoFd => at' \in AfterNet
    BY <1>1, Order DEF ResourceInv, FdInv
  <2>3. at' # "connect" /\ at # "connect"
    BY <1>1, <1>2 DEF StagesOf, TlsStages
  <2> QED BY <1>1, <2>1, <2>2, <2>3 DEF FdInv, ResourceInv
<1>6. FdInv'
  BY <1>4, <1>5
<1>7. LiveInv'
  <2>1. tls # "gnutls" => ~leaked'
    BY <1>1, <1>2, TransportAssumption
       DEF ResourceInv, LiveInv, AfterSsl, AfterCtx, Up, StagesOf, TransportType, Protos
  <2>2. tls = "openssl" => at' \in AfterCtx
    BY <1>1, Order DEF ResourceInv
  <2>3. tls = "mbedtls" => "ctx" \notin live'
    BY <1>1, <1>2, Order DEF ResourceInv, LiveInv
  <2>4. tls # "gnutls" /\ "ssl" \in live' => at' \in AfterSsl
    <3>1. tls # "gnutls" /\ "ssl" \in live' => at \in AfterSsl \cup {"ssl"}
      BY <1>1 DEF ResourceInv, LiveInv
    <3>2. at \in AfterSsl \cup {"ssl"} => at \in {"sni", "priority", "handshake", "cert", "ssl"}
      BY <1>1 DEF AfterSsl, Up, TlsStages
    <3> QED BY <1>1, <3>1, <3>2, Order DEF ResourceInv
  <2>5. at' \in AfterSsl => "ssl" \in live'
    BY <1>1, <1>2, Order DEF ResourceInv, LiveInv
  <2>6. at' \in TcpStages => "ssl" \in live'
    BY <1>1, <1>2 DEF ResourceInv, LiveInv, AfterSsl, TcpStages, StagesOf
  <2> QED BY <1>1, <1>2, <2>1, <2>2, <2>3, <2>4, <2>5, <2>6 DEF LiveInv
<1>8. TransportType'
  <2>1. at' \in Stage
    BY <1>2 DEF StagesOf, Stage, TlsStages, TcpStages
  <2>2. live' \subseteq {"ctx", "ssl"} /\ leaked' \in BOOLEAN
    BY <1>1 DEF ResourceInv, TransportType
  <2>3. netfd' \in Fd \cup {NoFd} /\ fds' \subseteq Fd
    BY Free DEF TlsStep, ResourceInv, TransportType
  <2> QED BY <1>1, <2>1, <2>2, <2>3 DEF ResourceInv, TransportType, rspVars
<1> QED BY <1>3, <1>6, <1>7, <1>8 DEF ResourceInv

\* ssl_close() takes the object back to where http_init() found it.
LEMMA Released ==
  ASSUME ResourceInv, SslClose, sd = NoFd, sd' = NoFd, at' = "idle", initialized' = FALSE,
         UNCHANGED <<tls, ssl_enabled, leaked>>, TransportType'
  PROVE  ResourceInv'
<1>1. /\ fds' = {} /\ netfd' = NoFd /\ ~tcp_initialized'
      /\ live' \subseteq live /\ (ssl_enabled => live' = {})
  BY Closes
<1>2. StageInv'
  BY <1>1 DEF StageInv, WithTcp, Up, TlsStages
<1>3. FdInv'
  BY <1>1, TransportAssumption DEF FdInv, NoFd
<1>4. LiveInv'
  <2>1. tls # "gnutls" => live' = {}
    <3>1. ~ssl_enabled /\ tls # "gnutls" => "ssl" \notin live /\ "ctx" \notin live
      BY TransportAssumption DEF ResourceInv, LiveInv, TransportType, Protos
    <3> QED BY <1>1, <3>1 DEF ResourceInv, TransportType
  <2> QED BY <2>1 DEF LiveInv, ResourceInv, AfterSsl, TcpStages, Up
<1> QED BY <1>2, <1>3, <1>4 DEF ResourceInv

\* A call of ssl_open() that fails releases everything, or had nothing but the
\* objects of an earlier call of GnuTLS.
LEMMA TlsFailStep ==
  ASSUME ResourceInv, TlsFail
  PROVE  ResourceInv'
<1>1. /\ at \in TlsStages /\ rc' \in {"CONNECT", "TLS"} /\ at' = "idle"
      /\ UNCHANGED <<tls, ssl_enabled, initialized, leaked, port, force, mode, net, ai,
                     sd, status, rsp_len, rest, sent, stalled>>
  BY DEF TlsFail
<1>2. sd = NoFd /\ initialized = FALSE
  BY <1>1 DEF ResourceInv, TransportType, FdInv, StageInv, Up, TlsStages
<1>3. CASE NothingToRelease
  <2>1. /\ UNCHANGED <<live, connected, netfd, fds, socket, tcp_initialized>>
        /\ tls = "gnutls" /\ at \in {"ca", "ssl"}
    BY <1>3 DEF TlsFail, NothingToRelease
  <2>2. TransportType'
    BY <1>1, <2>1 DEF ResourceInv, TransportType, Stage, TlsStages, TcpStages, RC, TcpErrors, Family, NoFd
  <2>3. StageInv' /\ FdInv' /\ LiveInv'
    BY <1>1, <2>1 DEF ResourceInv, StageInv, WithTcp, Up, TlsStages, TcpStages, StagesOf, FdInv, NoFd, LiveInv, AfterNet, AfterSsl, AfterCtx
  <2> QED BY <2>2, <2>3 DEF ResourceInv
<1>4. CASE ~NothingToRelease
  <2>1. SslClose
    BY <1>4 DEF TlsFail
  <2>2. /\ fds' = {} /\ netfd' = NoFd /\ ~connected' /\ tcp_initialized' = FALSE
        /\ socket' \in Fd \cup {NoFd} /\ live' \subseteq live /\ connected' = FALSE
    BY <1>1, <1>2, <2>1, Closes DEF SslClose, TcpExit
  <2>3. live' \subseteq {"ctx", "ssl"} /\ fds' \subseteq Fd /\ netfd' \in Fd \cup {NoFd}
    BY <2>2 DEF ResourceInv, TransportType
  <2>4. at' \in Stage /\ rc' \in RC /\ connected' \in BOOLEAN /\ tcp_initialized' \in BOOLEAN
    BY <1>1, <2>2 DEF Stage, RC, TcpErrors
  <2>5. TransportType'
    BY <1>1, <2>2, <2>3, <2>4 DEF ResourceInv, TransportType
  <2> QED BY <1>1, <1>2, <2>1, <2>5, Released
<1> QED BY <1>3, <1>4

\* http_init() returns 0.
LEMMA InitDoneStep ==
  ASSUME ResourceInv, InitDone
  PROVE  ResourceInv'
<1>1. TransportType'
  BY DEF ResourceInv, InitDone, httpVars, tcpVars, rspVars, TransportType, Stage, TlsStages, TcpStages, RC, TcpErrors, Family, NoFd
<1>2. StageInv' /\ FdInv' /\ LiveInv'
  BY DEF ResourceInv, InitDone, httpVars, tcpVars, rspVars, StageInv, WithTcp, Up, TlsStages, TcpStages, StagesOf, FdInv, NoFd, LiveInv, AfterNet, AfterSsl, AfterCtx
<1> QED BY <1>1, <1>2 DEF ResourceInv

\* The exchange itself changes no resource.
LEMMA Talk ==
  ASSUME ResourceInv, at \in Up, at' \in Up, connected' \in BOOLEAN,
         UNCHANGED <<tls, ssl_enabled, initialized, live, leaked, tcpVars>>,
         rc' \in RC, status' \in {0, 200, 500}, rsp_len' \in 0..MaxRsp,
         rest' \in 0..MaxReply, sent' \in Amount, stalled' \in BOOLEAN
  PROVE  ResourceInv'
<1>1. TransportType'
  BY DEF ResourceInv, TransportType, tcpVars, Up, Stage
<1>2. StageInv'
  BY DEF ResourceInv, StageInv, WithTcp, Up, TlsStages, tcpVars
<1>3. FdInv'
  BY DEF ResourceInv, FdInv, AfterNet, Up, tcpVars
<1>4. LiveInv'
  BY DEF ResourceInv, LiveInv, AfterCtx, AfterSsl, Up, TcpStages, tcpVars
<1> QED BY <1>1, <1>2, <1>3, <1>4 DEF ResourceInv

\* The steps of http_transaction() and of a caller without a request.
Exchanges ==
  \/ Abandon \/ HttpTransaction \/ SendStall \/ SendOk \/ SendFail
  \/ RecvData \/ RecvEnd \/ RecvFail \/ HttpResponseParse

LEMMA ExchangeStep ==
  ASSUME ResourceInv, Exchanges
  PROVE  ResourceInv'
<1> USE DEF ResourceInv, TransportType, Up, RC, httpVars, tcpVars, rspVars
<1>1. CASE Abandon
  BY <1>1, Talk DEF Abandon
<1>2. CASE HttpTransaction
  <2>1. rsp_len' = 0 /\ sent' = "nothing" /\ stalled' = FALSE
    BY <1>2 DEF HttpTransaction
  <2>2. /\ status' = 0 /\ rest' \in 0..MaxReply /\ at = "open" /\ at' = "send"
        /\ UNCHANGED <<httpVars, tcpVars, rc>>
    BY <1>2 DEF HttpTransaction
  <2>3. 0 \in 0..MaxRsp
    BY TransportAssumption
  <2>4. rsp_len' \in 0..MaxRsp /\ sent' \in Amount
    BY <2>1, <2>3 DEF Amount
  <2>5. stalled' \in BOOLEAN
    BY <2>1, Zenon
  <2> QED BY <2>2, <2>4, <2>5, Talk
<1>3. CASE SendStall
  BY <1>3, Talk DEF SendStall
<1>4. CASE SendOk
  BY <1>4, Talk DEF SendOk, Taken, Amount
<1>5. CASE SendFail
  BY <1>5, Talk DEF SendFail
<1>6. CASE RecvData
  BY <1>6, Talk, TransportAssumption DEF RecvData, HasRoom
<1>7. CASE RecvEnd
  <2>1. rc' \in RC /\ rsp_len' \in 0..MaxRsp /\ connected' \in BOOLEAN
    BY <1>7, TransportAssumption DEF RecvEnd
  <2> QED BY <1>7, <2>1, Talk DEF RecvEnd
<1>8. CASE RecvFail
  BY <1>8, Talk, TransportAssumption DEF RecvFail
<1>9. CASE HttpResponseParse
  BY <1>9, Talk DEF HttpResponseParse
<1> QED BY <1>1, <1>2, <1>3, <1>4, <1>5, <1>6, <1>7, <1>8, <1>9 DEF Exchanges

\* http_exit() after a call that succeeded.
LEMMA HttpExitStep ==
  ASSUME ResourceInv, HttpExit
  PROVE  ResourceInv'
<1>1. /\ at = "close" /\ at' = "idle" /\ initialized' = FALSE
      /\ rest' = 0 /\ sent' = "nothing" /\ stalled' = FALSE
      /\ UNCHANGED <<tls, ssl_enabled, leaked, port, force, mode, net, ai, sd, rc,
                     status, rsp_len>>
  BY DEF HttpExit
<1>2. sd = NoFd /\ initialized
  BY <1>1 DEF ResourceInv, FdInv, StageInv, Up
<1>3. SslClose
  BY <1>2 DEF HttpExit, MustClose
<1>4. /\ fds' = {} /\ netfd' = NoFd /\ connected' = FALSE /\ tcp_initialized' = FALSE
      /\ socket' \in Fd \cup {NoFd} /\ live' \subseteq live
  BY <1>1, <1>2, <1>3, Closes DEF SslClose, TcpExit
<1>5. live' \subseteq {"ctx", "ssl"} /\ fds' \subseteq Fd /\ netfd' \in Fd \cup {NoFd}
  BY <1>4 DEF ResourceInv, TransportType
<1>6. at' \in Stage /\ rest' \in 0..MaxReply /\ sent' \in Amount
  BY <1>1, TransportAssumption DEF Stage, Amount
<1>7. /\ initialized' \in BOOLEAN /\ connected' \in BOOLEAN
      /\ tcp_initialized' \in BOOLEAN /\ stalled' \in BOOLEAN
  BY <1>1, <1>4
<1>8. TransportType'
  BY <1>1, <1>4, <1>5, <1>6, <1>7 DEF ResourceInv, TransportType
<1> QED BY <1>1, <1>2, <1>3, <1>8, Released

\* The end of the context.
LEMMA HttpDestructStep ==
  ASSUME ResourceInv, HttpDestruct
  PROVE  ResourceInv'
<1>1. /\ at = "idle" /\ at' = "idle" /\ live' = {}
      /\ leaked' = (leaked \/ live # {}) /\ port' \in Nat
      /\ initialized' = FALSE /\ connected' = FALSE /\ ssl_enabled' = FALSE
      /\ UNCHANGED <<tls, force, mode, net, ai, sd, netfd, rspVars>>
  BY TransportAssumption DEF HttpDestruct
<1>2. sd = NoFd /\ netfd = NoFd /\ tcp_initialized = FALSE /\ fds = {}
  BY <1>1, TransportAssumption
     DEF ResourceInv, TransportType, FdInv, StageInv, WithTcp, AfterNet, Up, TlsStages, NoFd
<1>3. tcp_initialized' = FALSE /\ socket' = socket /\ fds' = {}
  BY <1>2 DEF HttpDestruct, TcpExit
<1>4. tls # "gnutls" => live = {}
  <2>1. tls # "gnutls" => "ssl" \notin live /\ "ctx" \notin live
    BY <1>1, TransportAssumption
       DEF ResourceInv, LiveInv, TransportType, Protos, AfterCtx, AfterSsl, Up
  <2> QED BY <2>1 DEF ResourceInv, TransportType
<1>5. TransportType'
  <2>1. UNCHANGED <<rc, status, rsp_len, rest, sent, stalled>>
    BY <1>1 DEF rspVars
  <2>2. /\ at' \in Stage /\ leaked' \in BOOLEAN
        /\ initialized' \in BOOLEAN /\ connected' \in BOOLEAN
        /\ ssl_enabled' \in BOOLEAN /\ tcp_initialized' \in BOOLEAN
    BY <1>1, <1>3, Zenon DEF ResourceInv, TransportType
  <2>3. live' \subseteq {"ctx", "ssl"} /\ fds' \subseteq Fd /\ port' \in Nat
    BY <1>1, <1>3
  <2>4. UNCHANGED <<tls, force, mode, net, ai, sd, netfd, socket>>
    BY <1>1, <1>3
  <2> QED BY <2>1, <2>2, <2>3, <2>4 DEF ResourceInv, TransportType
<1>6. StageInv' /\ FdInv'
  BY <1>1, <1>2, <1>3, TransportAssumption DEF StageInv, WithTcp, Up, TlsStages, FdInv, NoFd
<1>7. LiveInv'
  BY <1>1, <1>4 DEF ResourceInv, LiveInv
<1> QED BY <1>5, <1>6, <1>7 DEF ResourceInv

\* Every step keeps account of the resources.
LEMMA ResourceStep == ResourceInv /\ [TransportNext]_tvars => ResourceInv'
<1> SUFFICES ASSUME ResourceInv, [TransportNext]_tvars PROVE ResourceInv'
  OBVIOUS
<1>1. CASE UNCHANGED tvars
  <2>1. UNCHANGED <<tls, at, ssl_enabled, initialized, connected, live, leaked>>
    BY <1>1 DEF tvars, httpVars
  <2>2. UNCHANGED <<tcp_initialized, socket, port, force, mode, net, ai, sd, netfd, fds>>
    BY <1>1 DEF tvars, tcpVars
  <2>3. UNCHANGED <<rc, status, rsp_len, rest, sent, stalled>>
    BY <1>1 DEF tvars, rspVars
  <2>4. TransportType' /\ StageInv'
    BY <2>1, <2>2, <2>3 DEF ResourceInv, TransportType, StageInv, WithTcp
  <2>5. FdInv' /\ LiveInv'
    BY <2>1, <2>2 DEF ResourceInv, FdInv, LiveInv
  <2> QED BY <2>4, <2>5 DEF ResourceInv
<1>2. CASE \E s \in BOOLEAN, f \in Family : HttpInit(s, f)
  BY <1>2, HttpInitStep
<1>3. CASE TcpInit \/ Resolve \/ Socket \/ Connect
  BY <1>3, TcpInitStep, ResolveStep, SocketStep, ConnectStep
<1>4. CASE TlsStep \/ TlsFail \/ InitDone
  BY <1>4, TlsStepStep, TlsFailStep, InitDoneStep
<1>5. CASE Exchanges
  BY <1>5, ExchangeStep
<1>6. CASE HttpExit \/ HttpDestruct
  BY <1>6, HttpExitStep, HttpDestructStep
<1> QED BY <1>1, <1>2, <1>3, <1>4, <1>5, <1>6 DEF TransportNext, Stack, Client, Exchanges

\* What the inductive invariant says of an object nobody uses, and of the handles.
LEMMA ResourceImplies == ResourceInv => NothingLeft /\ HandlesValid
<1> SUFFICES ASSUME ResourceInv PROVE NothingLeft /\ HandlesValid
  OBVIOUS
<1>1. NothingLeft
  <2> SUFFICES ASSUME at = "idle"
               PROVE  /\ fds = {} /\ ~tcp_initialized /\ ~initialized
                      /\ (live # {} \/ leaked) => tls = "gnutls"
    BY DEF NothingLeft
  <2>1. ~tcp_initialized /\ ~initialized /\ sd = NoFd /\ netfd = NoFd
    BY DEF ResourceInv, StageInv, FdInv, WithTcp, AfterNet, Up, TlsStages
  <2>2. fds = {}
    BY <2>1, TransportAssumption DEF ResourceInv, FdInv, NoFd
  <2>3. tls # "gnutls" => "ssl" \notin live /\ "ctx" \notin live /\ ~leaked
    BY TransportAssumption
       DEF ResourceInv, LiveInv, TransportType, Protos, AfterCtx, AfterSsl, Up
  <2> QED BY <2>1, <2>2, <2>3 DEF ResourceInv, TransportType
<1>2. HandlesValid
  <2>1. tcp_initialized => socket \in fds /\ socket # netfd
    BY DEF ResourceInv, FdInv, TransportType
  <2>2. initialized => tcp_initialized
    BY DEF ResourceInv, StageInv, WithTcp
  <2>3. at \in {"open", "send", "recv", "reply", "close"} => initialized
    BY DEF ResourceInv, StageInv, Up
  <2>4. ssl_enabled /\ initialized => "ssl" \in live
    BY DEF ResourceInv, StageInv, LiveInv, AfterSsl
  <2>5. tls = "gnutls" /\ Releases => "ssl" \in live
    BY DEF ResourceInv, StageInv, StagesOf, LiveInv, AfterSsl, Up, Releases, NothingToRelease
  <2> QED BY <2>1, <2>2, <2>3, <2>4, <2>5 DEF HandlesValid
<1> QED BY <1>1, <1>2

\* The invariant holds in every reachable state.
LEMMA ResourceInvariant == TransportSpec => []ResourceInv
BY ResourceInit, ResourceStep, PTL DEF TransportSpec

\* Whatever call of ssl_open() or of http_transaction() fails, with any number of
\* descriptors and DNS records and any TLS library, an object between two uses
\* holds no descriptor, and no TLS object either unless the library is GnuTLS.
THEOREM NothingStaysOpen == TransportSpec => []NothingLeft
BY ResourceInit, ResourceStep, ResourceImplies, PTL DEF TransportSpec

\* No descriptor is closed twice and no session used or freed that is not there.
THEOREM HandlesAreValid == TransportSpec => []HandlesValid
BY ResourceInit, ResourceStep, ResourceImplies, PTL DEF TransportSpec

-----------------------------------------------------------------------------
(* The search for an address that answers *)

\* The records of a family, or all of them.
LEMMA Who ==
  ASSUME TransportType, LoopInv
  PROVE  Candidates = IF mode = "auto" THEN Index ELSE Wanted
BY DEF TransportType, LoopInv, Candidates, Wanted, Family

\* A step outside the loop.
LEMMA LoopKept ==
  ASSUME LoopInv, UNCHANGED <<tls, force, mode, net, ai>>,
         at' \notin {"socket", "connect"}, tcp_initialized' => tcp_initialized,
         \/ rc' = rc /\ (at' = at \/ at # "idle")
         \/ rc' \notin TcpErrors
         \/ at' = "idle" /\ tls = "mbedtls"
  PROVE  LoopInv'
<1>1. rc' \in TcpErrors => at' = "idle" /\ (tls # "mbedtls" => rc \in TcpErrors)
  BY DEF LoopInv
<1>2. tcp_initialized' => ai' \in Candidates'
  BY DEF LoopInv, Candidates
<1>3. (mode' = "auto" => Unreachable(Wanted)') /\ (rc' \in TcpErrors /\ tls' # "mbedtls" => Unreachable(Index)')
  BY <1>1 DEF LoopInv, Unreachable, Wanted
<1> QED BY <1>1, <1>2, <1>3 DEF LoopInv

\* The end of an attempt that could not reach any candidate.
LEMMA LoopFailed ==
  ASSUME SearchInv, NEW code \in TcpErrors, TcpFailed(code), Unreachable(Candidates),
         UNCHANGED <<tls, force, net>>, ~tcp_initialized', at # "idle"
  PROVE  LoopInv'
<1>1. mode \in {force, "auto"} /\ rc \notin TcpErrors
  BY DEF SearchInv, LoopInv
<1>2. Candidates = IF mode = "auto" THEN Index ELSE Wanted
  BY Who DEF SearchInv, ResourceInv
<1>3. CASE mode # "auto"
  <2>1. mode' = "auto" /\ at' = "resolve" /\ rc' = rc
    BY <1>3 DEF TcpFailed
  <2>2. Unreachable(Wanted)'
    BY <1>2, <1>3 DEF Unreachable, Wanted
  <2> QED BY <1>1, <2>1, <2>2 DEF LoopInv
<1>4. CASE mode = "auto"
  <2>1. mode' = "auto" /\ at' = "idle" /\ rc' = code
    BY <1>4 DEF TcpFailed
  <2>2. Unreachable(Index)'
    BY <1>2, <1>4 DEF Unreachable
  <2>3. Unreachable(Wanted)'
    BY <1>4 DEF Unreachable, Wanted, SearchInv, LoopInv
  <2> QED BY <2>1, <2>2, <2>3 DEF LoopInv
<1> QED BY <1>3, <1>4

\* The first record.
LEMMA LoopResolve ==
  ASSUME SearchInv, Resolve
  PROVE  LoopInv'
<1>1. /\ at = "resolve" /\ UNCHANGED <<tls, force, net, tcp_initialized>>
      /\ ~tcp_initialized
  BY DEF Resolve, httpVars, SearchInv, ResourceInv, StageInv, WithTcp, Up, TlsStages
<1>2. CASE Candidates = {}
  <2>1. Unreachable(Candidates)
    BY <1>2 DEF Unreachable
  <2> QED BY <1>1, <1>2, <2>1, LoopFailed DEF Resolve, TcpErrors
<1>3. CASE Candidates # {}
  <2>1. ai' \in FirstOf(Candidates) /\ at' = "socket" /\ mode' = mode /\ rc' = rc
    BY <1>3 DEF Resolve
  <2>2. Candidates' = Candidates
    BY <1>1, <2>1 DEF Candidates
  <2>3. ai' \in Candidates /\ \A j \in Candidates : ~(j < ai')
    BY <2>1, TransportAssumption DEF FirstOf, Candidates, Index
  <2>4. Unreachable(Wanted)' = Unreachable(Wanted)
    BY <1>1 DEF Unreachable, Wanted
  <2> QED BY <1>1, <2>1, <2>2, <2>3, <2>4 DEF SearchInv, LoopInv
<1> QED BY <1>2, <1>3

\* A record without sockets ends the loop.
LEMMA LoopSocket ==
  ASSUME SearchInv, Socket
  PROVE  LoopInv'
<1>1. /\ at = "socket" /\ UNCHANGED <<tls, force, net, ai, tcp_initialized>>
      /\ ~tcp_initialized
  BY DEF Socket, httpVars, SearchInv, ResourceInv, StageInv, WithTcp, Up, TlsStages
<1>2. fds # Fd
  <2>1. fds = {}
    BY <1>1, TransportAssumption
       DEF SearchInv, ResourceInv, FdInv, AfterNet, Up, NoFd
  <2> QED BY <2>1, TransportAssumption
<1>3. ai \in Candidates /\ \A j \in Candidates : j < ai => net[j].state = "refuses"
  BY <1>1 DEF SearchInv, LoopInv
<1>4. CASE net[ai].state = "nosocket"
  <2>1. Unreachable(Candidates)
    <3> SUFFICES ASSUME NEW i \in Candidates, net[i].state = "up"
                 PROVE  ai < i
      BY <1>3, <1>4 DEF Unreachable
    <3> QED BY <1>3, <1>4, TransportAssumption DEF Candidates, Index
  <2> QED BY <1>1, <1>4, <2>1, LoopFailed DEF Socket, TcpErrors
<1>5. CASE net[ai].state # "nosocket"
  <2>1. at' = "connect" /\ mode' = mode /\ rc' = rc
    BY <1>2, <1>5 DEF Socket
  <2>2. Candidates' = Candidates
    BY <1>1, <2>1 DEF Candidates
  <2>3. Unreachable(Wanted)' = Unreachable(Wanted)
    BY <1>1 DEF Unreachable, Wanted
  <2> QED BY <1>1, <1>3, <1>5, <2>1, <2>2, <2>3 DEF SearchInv, LoopInv
<1> QED BY <1>4, <1>5

\* One that refuses does not.
LEMMA LoopConnect ==
  ASSUME SearchInv, Connect
  PROVE  LoopInv'
<1>1. at = "connect" /\ UNCHANGED <<tls, force, net>> /\ ~tcp_initialized
  BY DEF Connect, httpVars, SearchInv, ResourceInv, StageInv, WithTcp, Up, TlsStages
<1>2. /\ ai \in Candidates /\ net[ai].state # "nosocket"
      /\ \A j \in Candidates : j < ai => net[j].state = "refuses"
      /\ rc \notin TcpErrors
  BY <1>1 DEF SearchInv, LoopInv
<1>3. Unreachable(Wanted)' = Unreachable(Wanted)
  BY <1>1 DEF Unreachable, Wanted
<1>4. CASE net[ai].state = "up"
  <2>1. UNCHANGED <<ai, mode, rc>> /\ at' = Follows[Proto]["tcp"]
    BY <1>4 DEF Connect
  <2>2. at' \notin {"socket", "connect"}
    BY <2>1, AfterTcpInit DEF SearchInv, ResourceInv
  <2>3. Candidates' = Candidates
    BY <1>1, <2>1 DEF Candidates
  <2> QED BY <1>1, <1>2, <1>3, <2>1, <2>2, <2>3 DEF SearchInv, LoopInv
<1>5. CASE net[ai].state # "up"
  <2>1. \A j \in Candidates : j <= ai => net[j].state = "refuses"
    BY <1>2, <1>5, TransportAssumption
       DEF SearchInv, ResourceInv, TransportType, Candidates, Record, Index
  <2>2. tcp_initialized' = tcp_initialized
    BY <1>5 DEF Connect
  <2>3. CASE NextRecord # {}
    <3>1. ai' \in FirstOf(NextRecord) /\ at' = "socket" /\ mode' = mode /\ rc' = rc
      BY <1>5, <2>3 DEF Connect
    <3>2. Candidates' = Candidates
      BY <1>1, <3>1 DEF Candidates
    <3>3. ai' \in Candidates /\ \A j \in Candidates : j < ai' => j <= ai
      BY <1>2, <3>1, TransportAssumption DEF FirstOf, NextRecord, Candidates, Index
    <3>4. \A j \in Candidates' : j < ai' => net'[j].state = "refuses"
      BY <1>1, <2>1, <3>2, <3>3
    <3> QED BY <1>1, <1>2, <1>3, <2>2, <3>1, <3>2, <3>3, <3>4 DEF SearchInv, LoopInv
  <2>4. CASE NextRecord = {}
    <3>1. \A j \in Candidates : j <= ai
      BY <1>2, <2>4, TransportAssumption DEF NextRecord, Candidates, Index
    <3>2. Unreachable(Candidates)
      BY <2>1, <3>1 DEF Unreachable
    <3>3. TcpFailed("CONNECT")
      BY <1>5, <2>4 DEF Connect
    <3> QED BY <1>1, <2>2, <3>2, <3>3, LoopFailed DEF TcpErrors
  <2> QED BY <2>3, <2>4
<1> QED BY <1>4, <1>5

\* The search goes on where it was in every step.
LEMMA LoopStep == SearchInv /\ [TransportNext]_tvars => LoopInv'
<1> SUFFICES ASSUME SearchInv, [TransportNext]_tvars PROVE LoopInv'
  OBVIOUS
<1>0. LoopInv /\ ResourceInv
  BY DEF SearchInv
<1>1. CASE UNCHANGED tvars
  <2>1. UNCHANGED <<tls, at, force, mode, net, ai, tcp_initialized, rc>>
    BY <1>1 DEF tvars, httpVars, tcpVars, rspVars
  <2>2. Candidates' = Candidates /\ Unreachable(Wanted)' = Unreachable(Wanted)
          /\ Unreachable(Index)' = Unreachable(Index)
    BY <2>1 DEF Candidates, Unreachable, Wanted
  <2> QED BY <1>0, <2>1, <2>2 DEF LoopInv
<1>2. ASSUME NEW s \in BOOLEAN, NEW f \in Family, HttpInit(s, f) PROVE LoopInv'
  <2>1. /\ at = "idle" /\ force' = f /\ mode' = f /\ rc' = "OK"
        /\ tcp_initialized' = tcp_initialized
    BY <1>2 DEF HttpInit
  <2>2. at' \notin {"socket", "connect"}
    BY <1>0, <1>2, Begins DEF HttpInit, ResourceInv
  <2>3. ~tcp_initialized
    BY <1>0, <2>1 DEF ResourceInv, StageInv, WithTcp, Up, TlsStages
  <2> QED BY <2>1, <2>2, <2>3 DEF LoopInv, Family, TcpErrors
<1>3. CASE Resolve \/ Socket \/ Connect
  BY <1>3, LoopResolve, LoopSocket, LoopConnect
<1>4. CASE TcpInit
  BY <1>0, <1>4, LoopKept
     DEF TcpInit, httpVars, rspVars, ResourceInv, StageInv, WithTcp, Up, TlsStages
<1>5. CASE TlsStep
  <2>1. at' \notin {"socket", "connect"}
    BY <1>0, <1>5, Order DEF TlsStep, ResourceInv, StagesOf
  <2>2. /\ UNCHANGED <<tls, force, mode, net, ai, tcp_initialized, rc>>
        /\ at # "idle"
    BY <1>5 DEF TlsStep, TlsStages, rspVars
  <2> QED BY <1>0, <2>1, <2>2, LoopKept
<1>6. CASE TlsFail
  <2>1. at = "net" => tls = "mbedtls"
    BY <1>0, <1>6, TransportAssumption
       DEF TlsFail, ResourceInv, TransportType, Protos, StageInv, StagesOf
  <2>2. tcp_initialized' => tcp_initialized
    BY <1>6 DEF TlsFail, SslClose, TcpExit
  <2>3. /\ UNCHANGED <<tls, force, mode, net, ai>> /\ at' = "idle"
        /\ rc' = IF at = "net" THEN "CONNECT" ELSE "TLS"
    BY <1>6 DEF TlsFail
  <2> QED BY <1>0, <2>1, <2>2, <2>3, LoopKept DEF TcpErrors
<1>7. CASE InitDone
  BY <1>0, <1>7, LoopKept DEF InitDone, tcpVars, rspVars
<1>8. CASE Exchanges
  <2>1. at \in Up /\ at' \in Up /\ UNCHANGED <<tls, force, mode, net, ai, tcp_initialized>>
    BY <1>8 DEF Exchanges, Abandon, HttpTransaction, SendStall, SendOk, SendFail, RecvData,
       RecvEnd, RecvFail, HttpResponseParse, httpVars, tcpVars, Up
  <2>2. RecvEnd => rc' \in {"OK", "RECV"}
    BY DEF RecvEnd
  <2>3. rc' \in {rc, "OK", "SEND", "RECV"}
    BY <1>8, <2>2 DEF Exchanges, Abandon, HttpTransaction, SendStall, SendOk, SendFail,
       RecvData, RecvFail, HttpResponseParse, rspVars
  <2> QED BY <1>0, <2>1, <2>3, LoopKept DEF Up, TcpErrors
<1>9. CASE HttpExit \/ HttpDestruct
  <2>1. /\ UNCHANGED <<tls, force, mode, net, ai, rc>> /\ at' = "idle"
        /\ at \in {"idle", "close"}
    BY <1>9 DEF HttpExit, HttpDestruct, rspVars
  <2>2. tcp_initialized' => tcp_initialized
    BY <1>9 DEF HttpExit, HttpDestruct, SslClose, TcpExit
  <2> QED BY <1>0, <2>1, <2>2, LoopKept
<1> QED BY <1>1, <1>2, <1>3, <1>4, <1>5, <1>6, <1>7, <1>8, <1>9
       DEF TransportNext, Stack, Client, Exchanges

LEMMA LoopInit == TransportInit => LoopInv
BY DEF TransportInit, LoopInv, TcpErrors

LEMMA SearchImplies == SearchInv => ReachesServer /\ FamilyHonoured
<1> SUFFICES ASSUME SearchInv PROVE ReachesServer /\ FamilyHonoured
  OBVIOUS
<1>1. ReachesServer
  BY DEF SearchInv, LoopInv, ReachesServer, Unreachable
<1>2. FamilyHonoured
  <2> SUFFICES ASSUME tcp_initialized, net[ai].fam # force,
                      NEW i \in Index, net[i] = [fam |-> force, state |-> "up"]
               PROVE  \E j \in Index : j < i /\ net[j] = [fam |-> force, state |-> "nosocket"]
    BY DEF FamilyHonoured
  <2>1. Unreachable(Wanted)
    BY DEF SearchInv, LoopInv, Candidates
  <2>2. i \in Wanted /\ net[i].state = "up"
    BY DEF Wanted
  <2>3. PICK j \in Wanted : j < i /\ net[j].state = "nosocket"
    BY <2>1, <2>2 DEF Unreachable
  <2>4. net[j] \in Record /\ net[j].fam = force
    BY <2>3 DEF SearchInv, ResourceInv, TransportType, Wanted
  <2>5. net[j] = [fam |-> force, state |-> "nosocket"]
    BY <2>3, <2>4 DEF Record
  <2> QED BY <2>3, <2>5 DEF Wanted
<1> QED BY <1>1, <1>2

\* For any number of DNS records, in any order and of any families: tcp_init()
\* gives up only if no record answers or a family without sockets came first.
THEOREM SearchIsComplete == TransportSpec => []ReachesServer
<1>1. SearchInv /\ [TransportNext]_tvars => SearchInv'
  BY ResourceStep, LoopStep DEF SearchInv
<1>2. TransportInit => SearchInv
  BY ResourceInit, LoopInit DEF SearchInv
<1> QED BY <1>1, <1>2, SearchImplies, PTL DEF TransportSpec

\* TCP_AUTO connects to the other family only when the one asked for failed.
THEOREM FamilyIsHonoured == TransportSpec => []FamilyHonoured
<1>1. SearchInv /\ [TransportNext]_tvars => SearchInv'
  BY ResourceStep, LoopStep DEF SearchInv
<1>2. TransportInit => SearchInv
  BY ResourceInit, LoopInit DEF SearchInv
<1> QED BY <1>1, <1>2, SearchImplies, PTL DEF TransportSpec
=============================================================================
