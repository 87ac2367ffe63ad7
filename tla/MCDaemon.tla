------------------------------ MODULE MCDaemon ------------------------------
(* Configurations of Daemon for TLC. *)
EXTENDS Daemon

Section(prefix, domain, hostnames) ==
  [title |-> <<prefix, domain>>, hostnames |-> hostnames,
   ssl |-> TRUE, checkip_ssl |-> TRUE, checkip_server |-> FALSE]
NoTls(section)     == [section EXCEPT !.checkip_ssl = FALSE]
OwnServer(section) == [section EXCEPT !.checkip_server = TRUE]

\* The link order of the plugins, and the other extreme.
LinkOrder    == [f \in DOMAIN Files |-> f]
SomeOrders   == {LinkOrder, Reverse(LinkOrder)}

\* The copies of cloudflare.com and of dnsomatic.com.
SomeFailing == {Clone(2, 1), Clone(10, 2)}

\* A static system and an alias, a copy, a guess, a custom section with too many
\* hostnames, and a provider nobody knows.
SomeConfigs ==
  { <<OwnServer(Section("default", "dyndns.org", 1)), Section("default", "dynv6.com", 1)>>,
    <<NoTls(Section("ipv6", "dnsomatic.com", 1))>>,
    <<Section("", "he.net", 2), Section("custom", "", 3)>>,
    <<Section("default", "freedns.afraid.org", 1), Section("default", "unknown.org", 1)>> }
=============================================================================
