------------------------------- MODULE MCDdns -------------------------------
(* Configurations of Ddns for TLC. *)
EXTENDS Ddns

OneInfoTwoAliases == [p \in 1..1 |-> 2]
OneInfo           == [p \in 1..1 |-> 1]

\* A cache file for each alias, as long as system and host names differ ...
OwnFile    == [a \in Alias |-> a]
\* ... and one for all, for sections of one system with the same host name.
SharedFile == [a \in Alias |-> <<1, 1>>]
=============================================================================
