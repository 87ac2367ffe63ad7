------------------------------- MODULE CheckIp -------------------------------
(***************************************************************************)
(* How the daemon learns its address: get_address_backend() of ddns.c and  *)
(* everything below it, on top of the HTTP client of Transport.            *)
(*                                                                         *)
(* A command, an interface or a checkip server says something; the first   *)
(* acceptable IPv6 address in it is taken, or else the first acceptable    *)
(* IPv4 address.  When the checkip server fails, the built-in one is tried *)
(* with the same http_t object, whose name, path and TLS setting are       *)
(* replaced for the time of the call.                                      *)
(***************************************************************************)
EXTENDS Transport, Sequences, FiniteSetsExt

CONSTANTS
  Configs,    \* sections and global options
  MaxWords    \* addresses in the text a source returns

\* The addresses that can be told apart: Internet addresses, the ones
\* is_address_valid() calls invalid (loopback, link local, ...) and the
\* resolvers of Cloudflare it ignores.
Word == [fam : Family, kind : {"internet", "special", "resolver"}]
Text == UNION {[1..n -> Word] : n \in 0..MaxWords}
None == [fam |-> "none", kind |-> "none"]

\* checkip_ssl is an int: 0, 1, or DDNS_CHECKIP_SSL_UNSUPPORTED, which is -1.
SslOff == 0
SslOn  == 1
SslUnsupported == -1

\* source is where the address comes from; builtin says that the configured
\* checkip server is the built-in one.
Config == [source : {"cmd", "iface", "remote"}, ssl : {SslOff, SslOn},
           builtin : BOOLEAN, force : Family, port : Ports,
           verify_addr : BOOLEAN, allow_ipv6 : BOOLEAN]

ASSUME CheckIpAssumption == Configs \subseteq Config /\ MaxWords \in Nat

VARIABLES
  conf,         \* the section and the global options
  where,        \* where get_address_backend() is
  name,         \* info->checkip_name: "own" or the "builtin" server
  checkip_ssl,  \* info->checkip_ssl
  text, result  \* what the source said, and the address found in it

cvars == <<conf, where, name, checkip_ssl, text, result>>

CheckIpType ==
  /\ conf \in Configs
  /\ where \in {"start", "remote", "fallback", "done"}
  /\ name \in {"own", "builtin"} /\ checkip_ssl \in {SslOff, SslOn, SslUnsupported}
  /\ text \in Text /\ result \in Word \cup {None}

\* Every variable keeps the range its C type and its use give it.
TypeOK == TransportType /\ CheckIpType

-----------------------------------------------------------------------------
(* Finding an address in a text *)

\* is_address_valid(): verify-address = false ends it before allow_ipv6 is read.
IsAddressValid(w) ==
  /\ w.kind # "resolver"
  /\ \/ ~conf.verify_addr
     \/ w.kind = "internet" /\ (w.fam = "v4" \/ conf.allow_ipv6)

\* parse_ipv4_address() and parse_ipv6_address() of the words of t at the places
\* in S: the first valid address of the family.
ParseFamily(t, S, f) ==
  LET hits == {i \in S : t[i].fam = f /\ IsAddressValid(t[i])}
  IN IF hits = {} THEN None ELSE t[Min(hits)]

ParseMyAddress(t, S) ==
  IF ParseFamily(t, S, "v6") # None THEN ParseFamily(t, S, "v6") ELSE ParseFamily(t, S, "v4")

\* The address found in the whole text.
AddressIn(t) == ParseMyAddress(t, DOMAIN t)

-----------------------------------------------------------------------------
(* get_address_backend() *)

Finish(t, r) == text' = t /\ result' = r /\ where' = "done"

\* get_address_cmd(): popen() may fail or the command may print nothing.
GetAddressCmd ==
  /\ where = "start" /\ conf.source = "cmd"
  /\ \E t \in Text : Finish(t, AddressIn(t))
  /\ UNCHANGED <<conf, name, checkip_ssl, tvars>>

\* get_address_iface(): the valid addresses of the interface, and then a second
\* look at the text made of them.  Without getifaddrs() the only address is an
\* IPv4 one.
GetAddressIface ==
  /\ where = "start" /\ conf.source = "iface"
  /\ \E t \in Text :
       Finish(t, ParseMyAddress(t, {i \in DOMAIN t : IsAddressValid(t[i])}))
  /\ UNCHANGED <<conf, name, checkip_ssl, tvars>>

\* server_transaction(): any value of checkip_ssl but 0 switches TLS on.
Ask(ssl) == HttpInit(ssl # SslOff, conf.force)

GetAddressRemote ==
  /\ where = "start" /\ conf.source = "remote"
  /\ where' = "remote" /\ Ask(checkip_ssl)
  /\ UNCHANGED <<conf, name, checkip_ssl, text, result>>

\* The exchange is over, and there is something to parse.
Answered == rc = "OK" /\ status = 200 /\ rsp_len > 0

\* get_address_remote() found an address.
RemoteOk ==
  /\ where = "remote" /\ at = "idle" /\ Answered
  /\ \E t \in Text : AddressIn(t) # None /\ Finish(t, AddressIn(t))
  /\ UNCHANGED <<conf, name, checkip_ssl, tvars>>

\* It found none, and the built-in server is not the one that failed.
Fallback ==
  /\ where = "remote" /\ at = "idle" /\ ~conf.builtin
  /\ Answered => \E t \in Text : AddressIn(t) = None
  /\ name' = "builtin" /\ checkip_ssl' = SslUnsupported
  /\ where' = "fallback" /\ Ask(SslUnsupported)
  /\ UNCHANGED <<conf, text, result>>

GiveUp ==
  /\ where = "remote" /\ at = "idle" /\ conf.builtin
  /\ Answered => \E t \in Text : AddressIn(t) = None
  /\ Finish(<<>>, None)
  /\ UNCHANGED <<conf, name, checkip_ssl, tvars>>

\* Mutant of Restore: the backup is restored only after a success.
RestoreOnSuccess ==
  IF result' = None THEN UNCHANGED <<name, checkip_ssl>>
                    ELSE name' = "own" /\ checkip_ssl' = conf.ssl

Restore == name' = "own" /\ checkip_ssl' = conf.ssl

\* The second get_address_remote() is over: the backup is restored.
EndFallback ==
  /\ where = "fallback" /\ at = "idle"
  /\ \/ Answered /\ \E t \in Text : Finish(t, AddressIn(t))
     \/ ~Answered /\ Finish(<<>>, None)
  /\ Restore
  /\ UNCHANGED <<conf, tvars>>

\* The next round of get_address() ...
Again ==
  /\ where = "done" /\ where' = "start"
  /\ text' = <<>> /\ result' = None
  /\ UNCHANGED <<conf, name, checkip_ssl, tvars>>

\* ... or a new context, with the port of the configuration.
NewContext ==
  /\ where = "done" /\ where' = "start"
  /\ HttpDestruct /\ port' = conf.port
  /\ text' = <<>> /\ result' = None
  /\ UNCHANGED <<conf, name, checkip_ssl>>

-----------------------------------------------------------------------------
(* The specification *)

Init ==
  /\ TransportInit
  /\ conf \in Configs /\ port = conf.port
  /\ where = "start" /\ name = "own" /\ checkip_ssl = conf.ssl
  /\ text = <<>> /\ result = None

\* The calls server_transaction() makes after http_init().
Exchange ==
  /\ where \in {"remote", "fallback"}
  /\ Stack \/ HttpTransaction \/ HttpExit
  /\ UNCHANGED cvars

Next ==
  \/ GetAddressCmd \/ GetAddressIface \/ GetAddressRemote
  \/ RemoteOk \/ Fallback \/ GiveUp \/ EndFallback
  \/ Again \/ NewContext \/ Exchange

vars == <<tvars, cvars>>

Spec == Init /\ [][Next]_vars

-----------------------------------------------------------------------------
(* Properties *)

\* After a call the section asks its own server again, with its own setting.
SettingsRestored == where \in {"start", "remote", "done"} => name = "own" /\ checkip_ssl = conf.ssl

\* The built-in server is asked where it listens.
FallbackPort ==
  where = "fallback" /\ at \in {"resolve", "socket", "connect"} =>
    <<ssl_enabled, port>> \in {<<FALSE, 80>>, <<TRUE, 443>>}
=============================================================================
