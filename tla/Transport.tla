------------------------------ MODULE Transport ------------------------------
(***************************************************************************)
(* The HTTP client: http.c on top of tcp.c and of the TLS library the      *)
(* binary was built with (openssl.c, gnutls.c or mbedtls.c).               *)
(*                                                                         *)
(* One http_t object and the resources behind it: file descriptors and TLS *)
(* objects.  http_init() climbs the stack one call at a time, and each     *)
(* call may fail; http_transaction() sends a request and collects the      *)
(* reply; http_exit() takes everything down.  The caller is any that       *)
(* follows the calls with http_exit() the way send_update() and            *)
(* server_transaction() do: not at all when http_init() failed.            *)
(***************************************************************************)
EXTENDS Integers

CONSTANTS
  Fd,        \* file descriptors the process may have
  MaxRsp,    \* max_rsp_len, in units of what one read returns
  MaxReply,  \* the longest reply of a server, in the same units
  Backends,  \* TLS libraries the binary may be built with
  Ports,     \* ports the configuration may name, 0 for none
  NumRecords \* DNS records of the remote host

Protos == {"plain", "openssl", "gnutls", "mbedtls"}
Family == {"v4", "v6"}
Record == [fam : Family, state : {"up", "refuses", "nosocket"}]
Index  == 1..NumRecords
NoFd   == 0
TcpErrors == {"REMOTE_ADDR", "SOCKET_CREATE", "CONNECT"}
RC     == {"OK", "TLS", "SEND", "RECV"} \cup TcpErrors

ASSUME TransportAssumption ==
  /\ Fd \subseteq Nat \ {0} /\ Fd # {}
  /\ MaxRsp \in Nat \ {0} /\ MaxReply \in Nat /\ NumRecords \in Nat
  /\ Backends \subseteq Protos \ {"plain"}
  /\ Ports \subseteq Nat

\* Nothing of a request, a part of it, all of it, or more than that.
Amount == {"nothing", "part", "whole", "more"}

\* The calls ssl_open() makes, in order, for each library; "plain" is
\* ssl_enabled = 0, and "tcp" is the call of tcp_init().
Follows ==
  [plain   |-> [begin |-> "tcp", tcp |-> "ready"],
   openssl |-> [begin |-> "tcp", tcp |-> "ctx", ctx |-> "ca", ca |-> "ssl",
                ssl |-> "sni", sni |-> "handshake", handshake |-> "cert",
                cert |-> "ready"],
   gnutls  |-> [begin |-> "ca", ca |-> "ssl", ssl |-> "sni", sni |-> "priority",
                priority |-> "tcp", tcp |-> "handshake", handshake |-> "cert",
                cert |-> "ready"],
   mbedtls |-> [begin |-> "tcp", tcp |-> "seed", seed |-> "ca", ca |-> "net",
                net |-> "config", config |-> "ssl", ssl |-> "sni",
                sni |-> "handshake", handshake |-> "ready"]]

TlsStages == {"ctx", "ca", "ssl", "sni", "priority", "seed", "net", "config",
              "handshake", "cert"}
TcpStages == {"tcp", "resolve", "socket", "connect"}
Stage == TlsStages \cup TcpStages
           \cup {"idle", "ready", "open", "send", "recv", "reply", "close"}

VARIABLES
  tls,              \* the TLS library of this build
  at,               \* the call in progress
  ssl_enabled, initialized, connected,  \* fields of http_t
  live,             \* TLS objects that are allocated: "ctx", "ssl"
  leaked,           \* has one become unreachable?
  tcp_initialized, socket, port,        \* fields of tcp_sock_t
  force, mode,      \* the family asked for, and the one tcp_init() tries now
  net, ai, sd,      \* getaddrinfo()'s answer; the locals ai and sd
  netfd,            \* the connection mbedtls_net_connect() makes for itself
  fds,              \* open file descriptors
  rc, status,       \* the code of the last call, trans->status
  rsp_len, rest,    \* trans->rsp_len, and what the connection will yet deliver
  sent, stalled     \* how much of the request was sent; did a write time out?

httpVars == <<tls, ssl_enabled, initialized, connected, live, leaked>>
tcpVars  == <<tcp_initialized, socket, port, force, mode, net, ai, sd, netfd, fds>>
rspVars  == <<rc, status, rsp_len, rest, sent, stalled>>
tvars    == <<at, httpVars, tcpVars, rspVars>>

\* Every field keeps its range.
TransportType ==
  /\ tls \in Backends /\ at \in Stage
  /\ ssl_enabled \in BOOLEAN /\ initialized \in BOOLEAN /\ connected \in BOOLEAN
  /\ live \subseteq {"ctx", "ssl"} /\ leaked \in BOOLEAN
  /\ tcp_initialized \in BOOLEAN /\ socket \in Fd \cup {NoFd} /\ port \in Nat
  /\ force \in Family /\ mode \in Family \cup {"auto"}
  /\ net \in [Index -> Record] /\ ai \in Nat
  /\ sd \in Fd \cup {NoFd} /\ netfd \in Fd \cup {NoFd} /\ fds \subseteq Fd
  /\ rc \in RC /\ status \in {0, 200, 500}
  /\ rsp_len \in 0..MaxRsp /\ rest \in 0..MaxReply
  /\ sent \in Amount /\ stalled \in BOOLEAN

Proto == IF ssl_enabled THEN tls ELSE "plain"

-----------------------------------------------------------------------------
(* http_init() *)

\* The caller sets ssl_enabled and asks for a family.  What the DNS and the
\* network say is what they say until the call returns.
HttpInit(s, f) ==
  /\ at = "idle"
  /\ ssl_enabled' = s /\ force' = f /\ mode' = f
  /\ net' \in [Index -> Record]
  /\ rc' = "OK" /\ ai' = 0 /\ sd' = NoFd
  /\ at' = Follows[IF s THEN tls ELSE "plain"].begin
  /\ UNCHANGED <<tls, initialized, connected, live, leaked, tcp_initialized,
                 socket, port, netfd, fds, status, rsp_len, rest, sent, stalled>>

\* tcp_init(): the default port stays in the object.
TcpInit ==
  /\ at = "tcp"
  /\ port' = IF port # 0 THEN port ELSE IF ssl_enabled THEN 443 ELSE 80
  /\ at' = IF tcp_initialized THEN Follows[Proto]["tcp"] ELSE "resolve"
  /\ UNCHANGED <<httpVars, tcp_initialized, socket, force, mode, net, ai, sd,
                 netfd, fds, rspVars>>

\* Mutant of Candidates: the hint is not set.
CandidatesUnspec == Index

\* The records getaddrinfo() returns for the family, in its order.
Candidates == {i \in Index : mode = "auto" \/ net[i].fam = mode}
FirstOf(S) == {i \in S : \A j \in S : i <= j}

\* Which free descriptor the kernel takes makes no difference.
FreeFd == CHOOSE d \in Fd : d \notin fds

\* Mutant of TcpFailed: no second attempt with TCP_AUTO.
TcpFailedForGood(code) ==
  /\ rc' = code /\ at' = "idle" /\ UNCHANGED mode

\* The end of a tcp_init() that failed: once more with TCP_AUTO, or give up.
\* Its callers only pass the code on.
TcpFailed(code) ==
  IF mode # "auto"
    THEN mode' = "auto" /\ at' = "resolve" /\ UNCHANGED rc
    ELSE rc' = code /\ at' = "idle" /\ UNCHANGED mode

\* getaddrinfo().
Resolve ==
  /\ at = "resolve"
  /\ IF Candidates = {}
       THEN TcpFailed("REMOTE_ADDR") /\ UNCHANGED ai
       ELSE ai' \in FirstOf(Candidates) /\ at' = "socket" /\ UNCHANGED <<mode, rc>>
  /\ UNCHANGED <<httpVars, tcp_initialized, socket, port, force, net, sd, netfd,
                 fds, status, rsp_len, rest, sent, stalled>>

\* A socket() that fails ends the loop over the records.
Socket ==
  /\ at = "socket"
  /\ IF net[ai].state = "nosocket" \/ fds = Fd
       THEN TcpFailed("SOCKET_CREATE") /\ UNCHANGED <<sd, fds>>
       ELSE /\ sd' = FreeFd /\ fds' = fds \cup {sd'}
            /\ at' = "connect" /\ UNCHANGED <<mode, rc>>
  /\ UNCHANGED <<httpVars, tcp_initialized, socket, port, force, net, ai, netfd,
                 status, rsp_len, rest, sent, stalled>>

NextRecord == {j \in Candidates : j > ai}

\* connect(), and the next record if it fails.
Connect ==
  /\ at = "connect"
  /\ IF net[ai].state = "up"
       THEN /\ socket' = sd /\ tcp_initialized' = TRUE
            /\ at' = Follows[Proto]["tcp"]
            /\ UNCHANGED <<ai, fds, mode, rc>>
       ELSE /\ fds' = fds \ {sd}
            /\ IF NextRecord # {}
                 THEN ai' \in FirstOf(NextRecord) /\ at' = "socket" /\ UNCHANGED <<mode, rc>>
                 ELSE TcpFailed("CONNECT") /\ UNCHANGED ai
            /\ UNCHANGED <<socket, tcp_initialized>>
  /\ sd' = NoFd
  /\ UNCHANGED <<httpVars, port, force, net, netfd, status, rsp_len, rest, sent,
                 stalled>>

\* tcp_exit().
TcpExit(others) ==
  /\ fds' = (fds \ others) \ (IF tcp_initialized THEN {socket} ELSE {})
  /\ socket' = IF tcp_initialized THEN NoFd ELSE socket
  /\ tcp_initialized' = FALSE

\* ssl_close(); mbedtls has a second connection to close.
SslClose ==
  /\ live' = IF ssl_enabled THEN {} ELSE live
  /\ connected' = FALSE
  /\ netfd' = IF ssl_enabled THEN NoFd ELSE netfd
  /\ TcpExit(IF ssl_enabled THEN {netfd} ELSE {})

\* One call of ssl_open() that succeeds.  A handshake that OpenSSL reports with
\* 0 counts as one.
TlsStep ==
  /\ at \in TlsStages
  /\ at' = Follows[tls][at]
  /\ live' = live \cup ({at} \cap {"ctx", "ssl"})
  /\ leaked' = (leaked \/ at \in live)
  /\ connected' = (connected \/ at = "handshake")
  /\ IF at = "net"
       THEN fds # Fd /\ netfd' = FreeFd /\ fds' = fds \cup {netfd'}
       ELSE UNCHANGED <<netfd, fds>>
  /\ UNCHANGED <<tls, ssl_enabled, initialized, tcp_initialized, socket, port,
                 force, mode, net, ai, sd, rspVars>>

\* Mutant of NothingToRelease: a session that could not be allocated is released.
NothingToReleaseCa == tls = "gnutls" /\ at = "ca"

\* GnuTLS returns at once from these, before there is anything to release.
NothingToRelease == tls = "gnutls" /\ at \in {"ca", "ssl"}

\* One that fails: ssl_fail(), and the code goes up to the caller; the
\* http_exit() in http_init() finds initialized = 0.  "net" is a connect() too.
TlsFail ==
  /\ at \in TlsStages
  /\ rc' = IF at = "net" THEN "CONNECT" ELSE "TLS"
  /\ at' = "idle"
  /\ IF NothingToRelease
       THEN UNCHANGED <<live, connected, netfd, fds, socket, tcp_initialized>>
       ELSE SslClose
  /\ UNCHANGED <<tls, ssl_enabled, initialized, leaked, port, force, mode, net, ai,
                 sd, status, rsp_len, rest, sent, stalled>>

InitDone ==
  /\ at = "ready"
  /\ initialized' = TRUE /\ at' = "open"
  /\ UNCHANGED <<tls, ssl_enabled, connected, live, leaked, tcpVars, rspVars>>

-----------------------------------------------------------------------------
(* http_transaction() and http_exit() *)

\* send_update() without a request goes straight to http_exit().
Abandon ==
  /\ at = "open" /\ at' = "close"
  /\ UNCHANGED <<httpVars, tcpVars, rspVars>>

HttpTransaction ==
  /\ at = "open" /\ initialized
  /\ rsp_len' = 0 /\ sent' = "nothing" /\ stalled' = FALSE /\ status' = 0
  /\ rest' \in 0..MaxReply
  /\ at' = "send"
  /\ UNCHANGED <<httpVars, tcpVars, rc>>

\* ssl_send(): a write that timed out is repeated.
SendStall ==
  /\ at = "send"
  /\ stalled' = TRUE
  /\ UNCHANGED <<at, httpVars, tcpVars, rc, status, rsp_len, rest, sent>>

\* OpenSSL's loop looks at the error of an earlier write when the last one
\* succeeded, and writes the request again.
WriteAgain == Proto = "openssl" /\ stalled

\* Nobody looks at how much send(), gnutls_record_send() or mbedtls_ssl_write()
\* took; SSL_write() takes everything.
Taken == IF Proto = "openssl" THEN {"whole"} ELSE {"part", "whole"}

SendOk ==
  /\ at = "send"
  /\ sent' \in IF sent = "nothing" THEN Taken ELSE {"more"}
  /\ at' = IF WriteAgain THEN "send" ELSE "recv"
  /\ UNCHANGED <<httpVars, tcpVars, rc, status, rsp_len, rest, stalled>>

SendFail ==
  /\ at = "send"
  /\ rc' = "SEND" /\ at' = "reply"
  /\ UNCHANGED <<httpVars, tcpVars, status, rsp_len, rest, sent, stalled>>

\* Mutant of HasRoom: one too many.
HasRoomForOne == rsp_len <= MaxRsp

HasRoom == rsp_len < MaxRsp

\* ssl_recv(): reads that time out are repeated and change nothing.
RecvData ==
  /\ at = "recv" /\ rest > 0 /\ HasRoom
  /\ rsp_len' = rsp_len + 1 /\ rest' = rest - 1
  /\ UNCHANGED <<at, httpVars, tcpVars, rc, status, sent, stalled>>

\* The connection ended, by the server's will or not, or the buffer is full.  A
\* TLS library may refuse to read into no space.
RecvEnd ==
  /\ at = "recv"
  /\ rest = 0 \/ rsp_len = MaxRsp
  /\ rc' \in IF Proto = "plain" THEN {IF rsp_len = 0 THEN "RECV" ELSE "OK"}
             ELSE {"OK"} \cup (IF rsp_len = MaxRsp THEN {"RECV"} ELSE {})
  /\ rsp_len' = IF rc' # "OK" /\ Proto # "plain" THEN 0 ELSE rsp_len
  /\ connected' = (connected /\ ~(Proto = "mbedtls" /\ rc' = "OK"))
  /\ at' = "reply"
  /\ UNCHANGED <<tls, ssl_enabled, initialized, live, leaked, tcpVars, status,
                 rest, sent, stalled>>

\* A reset, or a signal.  tcp_recv() still stores the length, the others do not.
RecvFail ==
  /\ at = "recv"
  /\ rc' = "RECV" /\ at' = "reply"
  /\ rsp_len' = IF Proto = "plain" THEN rsp_len ELSE 0
  /\ UNCHANGED <<httpVars, tcpVars, status, rest, sent, stalled>>

\* http_response_parse(): also after an error.  No server accepts a part of a
\* request.
HttpResponseParse ==
  /\ at = "reply"
  /\ status' \in IF rsp_len = 0 THEN {0} ELSE {0, 500} \cup (IF sent = "part" THEN {} ELSE {200})
  /\ at' = "close"
  /\ UNCHANGED <<httpVars, tcpVars, rc, rsp_len, rest, sent, stalled>>

\* Mutant of MustClose: the wrong flag.
MustCloseConnected == connected

MustClose == initialized

\* The exchange is forgotten with the connection.
HttpExit ==
  /\ at = "close"
  /\ at' = "idle" /\ initialized' = FALSE
  /\ rest' = 0 /\ sent' = "nothing" /\ stalled' = FALSE
  /\ IF MustClose
       THEN SslClose
       ELSE UNCHANGED <<live, connected, netfd, fds, socket, tcp_initialized>>
  /\ UNCHANGED <<tls, ssl_enabled, leaked, port, force, mode, net, ai, sd, rc,
                 status, rsp_len>>

\* http_destruct() when the context goes, and http_construct() of the next one.
HttpDestruct ==
  /\ at = "idle"
  /\ TcpExit({})
  /\ leaked' = (leaked \/ live # {})
  /\ live' = {} /\ initialized' = FALSE /\ connected' = FALSE /\ ssl_enabled' = FALSE
  /\ port' \in Ports
  /\ UNCHANGED <<at, tls, force, mode, net, ai, sd, netfd, rspVars>>

-----------------------------------------------------------------------------
(* The specification *)

TransportInit ==
  /\ tls \in Backends /\ at = "idle"
  /\ ssl_enabled = FALSE /\ initialized = FALSE /\ connected = FALSE
  /\ live = {} /\ leaked = FALSE
  /\ tcp_initialized = FALSE /\ socket = NoFd /\ port \in Ports
  /\ force = "v4" /\ mode = "v4"
  /\ net = [i \in Index |-> [fam |-> "v4", state |-> "refuses"]]
  /\ ai = 0 /\ sd = NoFd /\ netfd = NoFd /\ fds = {}
  /\ rc = "OK" /\ status = 0 /\ rsp_len = 0 /\ rest = 0 /\ sent = "nothing" /\ stalled = FALSE

\* The steps inside the three calls.
Stack ==
  \/ TcpInit \/ Resolve \/ Socket \/ Connect
  \/ TlsStep \/ TlsFail \/ InitDone
  \/ SendStall \/ SendOk \/ SendFail
  \/ RecvData \/ RecvEnd \/ RecvFail \/ HttpResponseParse

Client ==
  \/ \E s \in BOOLEAN, f \in Family : HttpInit(s, f)
  \/ Abandon \/ HttpTransaction \/ HttpExit \/ HttpDestruct

TransportNext == Stack \/ Client

TransportSpec == TransportInit /\ [][TransportNext]_tvars

-----------------------------------------------------------------------------
(* Properties *)

\* Between two uses nothing is open: whatever call failed on the way up, all
\* descriptors are closed, and all TLS objects are freed.  The exception is the
\* session gnutls.c allocates before a tcp_init() that fails.
NothingLeft ==
  at = "idle" =>
    /\ fds = {} /\ ~tcp_initialized /\ ~initialized
    /\ (live # {} \/ leaked) => tls = "gnutls"

\* ssl_close() may be the next call.
Releases ==
  \/ at \in TlsStages /\ ~NothingToRelease
  \/ at = "close" /\ ssl_enabled

\* The socket and the session are there whenever they are used or released:
\* no second close() of a descriptor, no second free of a session.
HandlesValid ==
  /\ tcp_initialized => socket \in fds /\ socket # netfd
  /\ initialized => tcp_initialized
  /\ at \in {"open", "send", "recv", "reply", "close"} => initialized
  /\ ssl_enabled /\ initialized => "ssl" \in live
  /\ tls = "gnutls" /\ Releases => "ssl" \in live

\* tcp_init() gives up only if no record accepts the connection, or the loop
\* met a family without sockets before the first one that does.  The second
\* connection of mbedtls.c, which fails with the same code, is left aside.
ReachesServer ==
  at = "idle" /\ rc \in TcpErrors /\ tls # "mbedtls" =>
    \A i \in Index : net[i].state = "up" => \E j \in Index : j < i /\ net[j].state = "nosocket"

\* The family asked for is left only if none of its records can be reached.
FamilyHonoured ==
  tcp_initialized /\ net[ai].fam # force =>
    \A i \in Index : net[i] = [fam |-> force, state |-> "up"] =>
      \E j \in Index : j < i /\ net[j] = [fam |-> force, state |-> "nosocket"]
=============================================================================
