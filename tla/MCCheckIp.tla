------------------------------ MODULE MCCheckIp ------------------------------
(* Configurations of CheckIp for TLC. *)
EXTENDS CheckIp

\* All options where they matter: the ones of the parser where the text comes
\* from a local source, the ones of the connection where it comes from a server.
MCConfigs ==
  {c \in Config :
     IF c.source = "remote" THEN c.verify_addr /\ c.allow_ipv6
     ELSE c.ssl = SslOff /\ ~c.builtin /\ c.force = "v4" /\ c.port = 0}
=============================================================================
