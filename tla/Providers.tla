------------------------------ MODULE Providers ------------------------------
(***************************************************************************)
(* The provider plugins, src/plugins/*.c: what each of them puts into the  *)
(* registry, the request it prints and how it reads the answer.            *)
(*                                                                         *)
(* A plugin file is a record of                                            *)
(*   systems   its static ddns_system_t objects, in file order             *)
(*   inits     the calls of PLUGIN_INIT: register or register_v6 of the    *)
(*             n-th system with a request format                           *)
(*   exits     the systems PLUGIN_EXIT unregisters                         *)
(*   args      what request() hands to snprintf() behind the format        *)
(*   accepts   status codes response() takes besides those of              *)
(*             http_status_valid()                                         *)
(*   rules     the strstr() tests of response() in their order             *)
(*                                                                         *)
(* A name "default@foo.org" is the pair <<"default", "foo.org">>.  A       *)
(* format is the sequence of what its conversions print; constant text is  *)
(* left out, except that the query key of an address may ask for one       *)
(* family ("ip4", "ip6") or for neither ("ip").  An answer is the set of   *)
(* the words strstr() may find in it: "address" stands for alias->address, *)
(* and "" is found in every answer.                                        *)
(***************************************************************************)
EXTENDS Naturals, Sequences

NoName == <<>>

\* checkip_ssl: a table that does not mention it leaves 0, which is none of
\* the three values ddns.h defines.
Unset == "unset"
Unsupported == "unsupported"
Supported == "supported"
Required == "required"

Sys(prefix, domain, ssl) ==
  [name |-> <<prefix, domain>>, alias |-> NoName, ssl |-> ssl, nousername |-> FALSE]
Alias(prefix, domain, sys) == [sys EXCEPT !.alias = <<prefix, domain>>]
System(name, ssl) == Sys("default", name, ssl)
System6(name, ssl) == Sys("ipv6", name, ssl)

Reg(n, fmt)   == [v6 |-> FALSE, sys |-> n, req |-> fmt]      \* plugin_register()
RegV6(n, fmt) == [v6 |-> TRUE,  sys |-> n, req |-> fmt]      \* plugin_register_v6()
Both(n, fmt)  == <<Reg(n, fmt), RegV6(n, fmt)>>

If(words, rc) == [words |-> words, rc |-> rc]
Anything      == ""                                        \* strstr(body, "")
Else(rc)      == If({Anything}, rc)
OkIf(words)   == <<If(words, "OK"), Else("NOTOK")>>
OkAlways      == <<Else("OK")>>

File(systems, inits, exits, args, rules) ==
  [systems |-> systems, inits |-> inits, exits |-> exits, args |-> args,
   rules |-> rules, accepts |-> {}]

\* The formats that many files share, behind the "GET %s?".
NameIpBasic     == <<"url", "name", "ip", "host", "basic", "agent">>
UserPassNameIp  == <<"url", "user", "pass", "name", "ip", "host", "agent">>
UserPassNameIp4 == <<"url", "user", "pass", "name", "ip4", "host", "agent">>
UserPassNameIp6 == <<"url", "user", "pass", "name", "ip6", "host", "agent">>
NamePassIp      == <<"url", "name", "pass", "ip", "host", "agent">>
NamePassIp4     == <<"url", "name", "pass", "ip4", "host", "agent">>
NamePassIp6     == <<"url", "name", "pass", "ip6", "host", "agent">>

----------------------------------------------------------------------------
\* common.c: the request and the response of the dyndns2 protocol.

CommonRequestSwapped == <<"server_url", "address", "alias", "wildcard", "server_name",
                          "encoded_password", "user_agent">>
CommonRequest == <<"server_url", "alias", "address", "wildcard", "server_name",
                   "encoded_password", "user_agent">>
CommonResponse ==
  << If({"good", "nochg", "OK"}, "OK"),
     If({"dnserr", "911", "abuse"}, "RETRY_LATER"),
     If({"badauth", "!donator"}, "AUTH_FAIL"),
     If({"nohost"}, "NOHOST"),
     If({"nofqdn"}, "NOHOST"),
     Else("NOTOK") >>

DyndnsReq   == <<"url", "name", "ip", "wild", "host", "basic", "agent">>
DyndnsReqV6 == <<"url", "name", "ip6", "wild", "host", "basic", "agent">>

\* dyndns.c, the tables of its thirty systems.
DyndnsSystems1 ==
  << System("dyndns.org", Unsupported), System("dnsomatic.com", Unset),
     System("selfhost.de", Unsupported), System("no-ip.com", Unsupported),
     System("noip.com", Unsupported),
     Alias("dyndns", "3322.org", System("3322.org", Unset)),
     Alias("dyndns", "he.net", System("he.net", Unset)),
     System("tunnelbroker.net", Unsupported), System("spdyn.de", Unsupported),
     System6("spdyn.de", Unsupported) >>
DyndnsSystems2 ==
  << Sys("ipv4", "nsupdate.info", Unset), System6("nsupdate.info", Unset),
     System("loopia.com", Unset), System("domains.google.com", Supported),
     System("dynu.com", Unset), System("dy.fi", Unset), System("do.de", Unsupported),
     System("domopoli", Unsupported), System("inwx.com", Unsupported),
     System6("inwx.com", Unsupported) >>
DyndnsSystems3 ==
  << System("itsdns.de", Unsupported), System("opendns.com", Unsupported),
     System("joker.com", Unsupported), System("schokokeks.org", Unsupported),
     System("variomedia.de", Unsupported), System("udmedia.de", Unsupported),
     System("dyndns.it", Unsupported), System("infomaniak.com", Unsupported),
     System("oray.com", Unsupported), System("simply.com", Unsupported) >>

Dyndns ==
  LET V4Only == {1, 7, 8, 9, 10, 11, 12, 13, 19, 20, 23, 27, 29, 30}
      Inits[n \in 0..30] ==
        IF n = 0 THEN <<>>
        ELSE Inits[n - 1] \o (IF n \in V4Only
               THEN <<Reg(n, IF n = 20 THEN DyndnsReqV6 ELSE DyndnsReq)>>
               ELSE <<Reg(n, DyndnsReq),
                      RegV6(n, IF n = 15 THEN DyndnsReqV6 ELSE DyndnsReq)>>)
  IN File(DyndnsSystems1 \o DyndnsSystems2 \o DyndnsSystems3, Inits[30],
          [n \in 1..30 |-> n], CommonRequest, CommonResponse)

----------------------------------------------------------------------------
\* The other plugins that print one request and read one answer.

AllInkl ==
  File(<<System("all-inkl.com", Unsupported)>>,
       Both(1, <<"url", "ip", "host", "basic", "agent">>), <<1>>,
       <<"server_url", "address", "server_name", "encoded_password", "user_agent">>,
       OkAlways)

Changeip ==
  File(<<System("changeip.com", Unset), System("ovh.com", Unsupported),
         System("strato.com", Unsupported)>>,
       <<Reg(1, NameIpBasic)>> \o Both(2, NameIpBasic) \o Both(3, NameIpBasic), <<1, 2, 3>>,
       <<"server_url", "alias", "address", "server_name", "encoded_password", "user_agent">>,
       CommonResponse)

\* keepip is chosen by ddns_get_tcp_force(), that is by the name's prefix.
CoreNetworks ==
  File(<<System("core-networks.de", Unsupported)>>,
       Both(1, <<"url", "name", "ip", "keep", "host", "basic", "agent">>), <<1>>,
       <<"server_url", "alias", "address", "keepip", "server_name", "encoded_password", "user_agent">>,
       OkIf({"good"}))

\* The request carries no address: the server takes the one it is sent from.
Ddnss ==
  File(<<System("ddnss.de", Unsupported)>>,
       <<Reg(1, <<"url", "user", "pass", "name", "host", "agent">>)>>, <<1>>,
       <<"server_url", "username", "password", "alias", "server_name", "user_agent">>,
       OkIf({"Updated", "No change"}))

Desec ==
  File(<<System("desec.io", Unsupported), System6("desec.io", Supported)>>,
       <<Reg(1, UserPassNameIp4), Reg(2, UserPassNameIp6)>>, <<1, 2>>,
       <<"server_url", "username", "password", "alias", "address", "server_name", "user_agent">>,
       OkIf({"good", "address"}))

\* PLUGIN_EXIT forgets the second system.
Dhis ==
  File(<<System("dhis.org", Unsupported), System6("dhis.org", Unset)>>,
       <<Reg(1, NamePassIp), Reg(2, NamePassIp)>>, <<1>>,
       <<"server_url", "alias", "password", "address", "server_name", "user_agent">>,
       OkIf({"address"}))

Dnsever ==
  File(<<System("dnsever.com", Unsupported)>>, <<Reg(1, NameIpBasic)>>, <<1>>,
       <<"server_url", "alias", "address", "server_name", "encoded_password", "user_agent">>,
       OkAlways)

\* The words are the number sscanf() finds behind the first line feed.
Dnsexit ==
  File(<<System("dnsexit.com", Unset)>>, Both(1, UserPassNameIp), <<1>>,
       <<"server_url", "username", "password", "alias", "address", "server_name", "user_agent">>,
       <<If({"0", "1"}, "OK"), If({"4", "11"}, "RETRY_LATER"), Else("NOTOK")>>)

\* PLUGIN_EXIT forgets the second system.
Dnshome ==
  File(<<System("dnshome.de", Unsupported), System6("dnshome.de", Supported)>>,
       <<Reg(1, NameIpBasic), Reg(2, <<"url", "name", "ip6", "host", "basic", "agent">>)>>, <<1>>,
       <<"server_url", "alias", "address", "server_name", "encoded_password", "user_agent">>,
       OkAlways)

\* response() looks for two words and returns 0 without them, too.
Dnsmadeeasy ==
  File(<<System("dnsmadeeasy.com", Unsupported)>>, <<Reg(1, UserPassNameIp)>>, <<1>>,
       <<"server_url", "username", "password", "alias", "address", "server_name", "user_agent">>,
       <<If({"success", "ip-same"}, "OK"), Else("OK")>>)

Dnsmax ==
  File(<<System("dnsmax.com", Unsupported), System("thatip.com", Unsupported)>>,
       <<Reg(1, UserPassNameIp), Reg(2, UserPassNameIp)>>, <<1, 2>>,
       <<"server_url", "username", "password", "alias", "address", "server_name", "user_agent">>,
       OkIf({"address"}))

Domaindiscount24 ==
  File(<<System("domaindiscount24.com", Unsupported), System("moniker.com", Unsupported)>>,
       <<Reg(1, NamePassIp), Reg(2, NamePassIp)>>, <<1, 2>>,
       <<"server_url", "alias", "password", "address", "server_name", "user_agent">>,
       OkIf({"success"}))

\* check_response_code() also takes 204, and strstr(body, "") never fails.
Domeneshop ==
  [File(<<System("domene.shop", Unsupported)>>, <<Reg(1, NameIpBasic)>>, <<1>>,
        <<"server_url", "alias", "address", "server_name", "encoded_password", "user_agent">>,
        OkAlways)
   EXCEPT !.accepts = {204}]

\* The alias loses its ".duckdns.org".
Duckdns ==
  File(<<System("duckdns.org", Unset)>>,
       <<Reg(1, NamePassIp), RegV6(1, NamePassIp6)>>, <<1>>,
       <<"server_url", "subdomain", "username", "address", "server_name", "user_agent">>,
       OkIf({"OK", "good"}))

\* The password is sent as its MD5 digest.
Duiadns ==
  File(<<System("duiadns.net", Unset), System6("duiadns.net", Unset)>>,
       <<Reg(1, NamePassIp4), Reg(2, NamePassIp6)>>, <<1, 2>>,
       <<"server_url", "alias", "md5", "address", "server_name", "user_agent">>,
       OkIf({"Hostname "}))

\* An empty address is sent as "auto".
Dynv6 ==
  File(<<Alias("default", "ipv4.dynv6.com", Sys("ipv4", "dynv6.com", Unsupported)),
         Alias("default", "dynv6.com", System6("dynv6.com", Unsupported))>>,
       <<Reg(1, <<"url", "ip4", "name", "pass", "host", "agent">>),
         Reg(2, <<"url", "ip6", "name", "pass", "host", "agent">>)>>, <<1, 2>>,
       <<"server_url", "address", "alias", "username", "server_name", "user_agent">>,
       OkIf({"updated", "unchanged"}))

EasydnsRules ==
  << If({"NOERROR", "no update required", "OK"}, "OK"), If({"ACCESS"}, "AUTH_FAIL"),
     If({"TOOSOON"}, "RETRY_LATER"), If({"TOO_FREQ"}, "TOO_FREQUENT"), Else("NOTOK") >>
NameIpWild == <<"url", "name", "ip", "wild", "host", "basic", "agent">>

Easydns ==
  File(<<System("easydns.com", Unsupported)>>, Both(1, NameIpWild), <<1>>,
       <<"server_url", "alias", "address", "wildcard", "server_name", "encoded_password", "user_agent">>,
       EasydnsRules)

Zoneedit ==
  File(<<System("zoneedit.com", Unsupported)>>, Both(1, NameIpWild), <<1>>,
       <<"server_url", "alias", "address", "wildcard", "server_name", "encoded_password", "user_agent">>,
       EasydnsRules)

Freemyip ==
  File(<<[System("freemyip.com", Unset) EXCEPT !.nousername = TRUE]>>,
       <<Reg(1, <<"url", "pass", "name", "host", "agent">>)>>, <<1>>,
       <<"server_url", "password", "alias", "server_name", "user_agent">>,
       OkIf({"OK"}))

Giradns ==
  LET Req == <<"url", "user", "pass", "ip", "host", "agent">>
  IN File(<<System("gira.de", Unset), System6("gira.de", Unset)>>,
          <<Reg(1, Req), Reg(2, Req)>>, <<1, 2>>,
          <<"server_url", "username", "password", "address", "server_name", "user_agent">>,
          OkIf({"OK"}))

Goip ==
  File(<<System("goip.de", Unsupported), System6("goip.de", Supported)>>,
       <<Reg(1, UserPassNameIp), Reg(2, UserPassNameIp6)>>, <<1, 2>>,
       <<"server_url", "username", "password", "alias", "address", "server_name", "user_agent">>,
       OkIf({"address"}))

Ipv64 ==
  File(<<Alias("default", "ipv64.net", Sys("ipv4", "ipv64.net", Unsupported)),
         System6("ipv64.net", Unsupported)>>,
       <<Reg(1, NameIpBasic), Reg(2, <<"url", "name", "ip6", "host", "basic", "agent">>)>>, <<1, 2>>,
       <<"server_url", "alias", "address", "server_name", "encoded_password", "user_agent">>,
       OkAlways)

\* response() has no way to return 0.
Mydns ==
  File(<<System("mydns.jp", Unsupported), System6("mydns.jp", Supported)>>,
       <<Reg(1, <<"url", "user", "pass", "ip4", "host", "agent">>),
         Reg(2, <<"url", "user", "pass", "ip6", "host", "agent">>)>>, <<1, 2>>,
       <<"server_url", "username", "password", "address", "server_name", "user_agent">>,
       <<Else("NOTOK")>>)

Myonlineportal ==
  File(<<System("myonlineportal.net", Unset), System6("myonlineportal.net", Unset)>>,
       <<Reg(1, UserPassNameIp), Reg(2, UserPassNameIp6)>>, <<1, 2>>,
       <<"server_url", "username", "password", "alias", "address", "server_name", "user_agent">>,
       OkIf({"good", "nochg"}))

Namecheap ==
  File(<<System("namecheap.com", Unsupported)>>, <<Reg(1, UserPassNameIp)>>, <<1>>,
       <<"server_url", "username", "password", "alias", "address", "server_name", "user_agent">>,
       OkIf({"<ErrCount>0</ErrCount>"}))

Regfish ==
  File(<<System("regfish.de", Unset)>>,
       <<Reg(1, NamePassIp), RegV6(1, NamePassIp6)>>, <<1>>,
       <<"server_url", "alias", "username", "address", "server_name", "user_agent">>,
       OkIf({"success", "100", "101"}))

Sitelutions ==
  File(<<System("sitelutions.com", Unsupported)>>, <<Reg(1, UserPassNameIp)>>, <<1>>,
       <<"server_url", "username", "password", "alias", "address", "server_name", "user_agent">>,
       <<If({"success"}, "OK"), If({"dberror"}, "RETRY_LATER"), Else("NOTOK")>>)

\* A static system that already has the name of a clone of default@he.net.
Tunnelbroker ==
  File(<<Alias("ipv6tb", "he.net", System6("he.net", Unset))>>,
       <<Reg(1, <<"url", "ip", "user", "pass", "name", "host", "agent">>)>>, <<1>>,
       <<"server_url", "address", "username", "md5", "alias", "server_name", "user_agent">>,
       OkIf({"address", "already associated"}))

Twodns ==
  File(<<System("twodns.de", Unsupported)>>, <<Reg(1, NameIpBasic)>>, <<1>>,
       <<"server_url", "alias", "address", "server_name", "encoded_password", "user_agent">>,
       OkAlways)

----------------------------------------------------------------------------
\* The plugins with a setup() and the custom{} provider: what they register.
\* What they do is in module Update; their response() looks for the address,
\* for "success" in a JSON text, or for the configured words.

GenericResponses == {"OK", "good", "true", "updated", "success", "nochg"}
Generic ==
  File(<<Sys("custom", "", Unsupported)>>,
       <<Reg(1, <<"url", "name", "host", "basic", "agent">>)>>, <<1>>,
       <<"url", "arg", "server_name", "encoded_password", "user_agent">>,
       OkIf(GenericResponses))

Freedns ==
  File(<<System("freedns.afraid.org", Unset)>>,
       Both(1, <<"url", "name", "ip", "host", "agent">>), <<1>>,
       <<"server_url", "data", "address", "server_name", "user_agent">>,
       OkIf({"address"}))

Dnspod ==
  LET Req == <<"url", "host", "agent", "length", "body">>
  IN File(<<System("dnspod.cn", Unsupported), System6("dnspod.cn", Supported)>>,
          <<Reg(1, Req), Reg(2, Req)>>, <<1, 2>>,
          <<"url", "server_name", "user_agent", "length", "data">>, OkIf({"address"}))

Cloudxns ==
  File(<<System("cloudxns.net", Unsupported)>>,
       <<Reg(1, <<"url", "name", "host", "agent", "user", "date", "pass", "length", "body">>)>>, <<1>>,
       <<"server_url", "data", "server_name", "user_agent", "username", "date", "md5",
         "length", "data">>, OkIf({"address"}))

Yandex ==
  File(<<System("pdd.yandex.ru", Unsupported)>>,
       <<Reg(1, <<"url", "host", "pass", "agent", "length", "body">>)>>, <<1>>,
       <<"url", "server_name", "password", "user_agent", "length", "data">>,
       OkIf({"success"}))

Cloudflare ==
  File(<<System("cloudflare.com", Supported)>>,
       Both(1, <<"name", "name", "agent", "pass", "length", "body">>), <<1>>,
       <<"data", "data", "user_agent", "password", "length", "data">>,
       OkIf({"success"}))

\* request() prints with its own format, not with info->system->server_req.
Porkbun ==
  File(<<System("porkbun.com", Supported)>>,
       Both(1, <<"name", "agent", "length", "body">>), <<1>>,
       <<"data", "user_agent", "length", "data">>, OkIf({"success"}))

\* The order in which src/Makefile.am names the files, in which they are linked and
\* their constructors run.  (plugins/Makefile.am has another order; configure.ac
\* builds nothing from it.)
Files ==
  << Changeip, Cloudflare, Cloudxns, Ddnss, Dhis, Dnsexit, Dnspod, Duckdns,
     Duiadns, Dyndns, Dynv6, Easydns, Freedns, Freemyip, Generic, Giradns,
     Sitelutions, Tunnelbroker, Yandex, Zoneedit, Goip, Domaindiscount24, Desec,
     AllInkl, CoreNetworks, Dnsever, Dnshome, Dnsmadeeasy, Dnsmax, Mydns,
     Myonlineportal, Namecheap, Regfish, Twodns, Ipv64, Porkbun, Domeneshop >>

----------------------------------------------------------------------------
\* What the code does with the tables.

\* The name plugin_register_v6() gives a clone, and plugin_unregister() looks for.
V6Name(name) == IF name[1] = "default" THEN <<"ipv6", name[2]>> ELSE name

\* http_status_valid()
StatusValid(status) ==
  IF status = 200 THEN "OK"
  ELSE IF status \in {401, 403} THEN "AUTH_FAIL"
  ELSE IF status >= 500 /\ status < 600 THEN "RETRY_LATER"
  ELSE "NOTOK"

\* response(): the status first, then the first test that finds a word.
Response(file, status, words) ==
  LET rc  == IF status \in file.accepts THEN "OK" ELSE StatusValid(status)
      hit == {n \in DOMAIN file.rules : file.rules[n].words \cap (words \cup {Anything}) # {}}
  IN IF rc # "OK" THEN rc
     ELSE file.rules[CHOOSE n \in hit : \A m \in hit : n <= m].rc

\* request(): what each conversion of the format is handed.
Request(req, args) ==
  [n \in DOMAIN req |-> <<req[n], IF n \in DOMAIN args THEN args[n] ELSE "garbage">>]
=============================================================================
