------------------------------ MODULE MCUpdate ------------------------------
(* Configurations of Update for TLC. *)
EXTENDS Update

\* Another name first; both types of the name; round-robin; the apex, and a name
\* that is too long; a record of the same name in another domain of the account.
SomeZones ==
  { <<Record("1", "ww", "A"), Record("12", "www", "A")>>,
    <<Record("12", "www", "AAAA"), Record("1", "www", "A")>>,
    <<Record("1", "www", "A"), Record("12", "www", "A")>>,
    <<Record("1", "@", "A"), Record("12", "mail", "A")>>,
    <<Record("1", "www", "A"), RecordIn("xample.com", "12", "www", "A")>> }
SomeAliases   == {"www", "@", "12"}
SomeAccounts  == {<<"example.com">>, <<"xample.com", "example.com">>, <<"other.org", "example.com">>}
SomeCuts(f) ==
  CASE f = "www" -> {"ww", "w"} [] f = "ww" -> {"w"} [] f = "12" -> {"1"}
    [] f \in {"example.com", "xample.com", "other.org"} -> {"", "e"} [] OTHER -> {}

\* The full names are those of "example.com"; a domain cut to "" ends them all.
SomeEndsWith(host, d) == d \notin {"other.org", "e"}
SomeLonger(host, d) ==
  (CASE d = "example.com" -> 0 [] d = "xample.com" -> 1 [] OTHER -> 11)
  + (CASE host = "www" -> 4 [] host = "12" -> 3 [] OTHER -> 0)
SomeShortened(host, d) ==
  CASE d = "example.com" /\ host = "www" -> "ww"
    [] d = "example.com" /\ host = "12" -> "1"
    [] d = "xample.com" -> host
    [] OTHER -> "www.example.c"
SomeTemplates == {<<>>, <<"%h", "%i">>, <<"%u", "%p", "%h", "%i">>, <<"%h", "%%", "%i">>, <<"%x">>}
=============================================================================
