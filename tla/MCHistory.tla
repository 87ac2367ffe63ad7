------------------------------ MODULE MCHistory -----------------------------
(* Configurations of DdnsHistory for TLC. *)
EXTENDS MCDdns, DdnsHistory
=============================================================================
