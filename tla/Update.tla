------------------------------- MODULE Update -------------------------------
(***************************************************************************)
(* One alias at one provider: send_update() of src/src/ddns.c with the     *)
(* setup(), request() and response() of the plugin, round after round, and *)
(* the provider's zone behind it.                                          *)
(*                                                                         *)
(* Most plugins send one request.  Six of them first ask the provider for  *)
(* the record: cloudflare.c and porkbun.c (two queries, JSON), yandex.c    *)
(* (JSON), cloudxns.c (two queries), dnspod.c and freedns.c (text).  The   *)
(* provider is external: it answers a query from the zone, and applies an  *)
(* update or refuses it.  Any transaction may fail and any answer may come *)
(* with an error status or cut short: the end of the connection is the end *)
(* of the reply, and nothing compares it with its length.                  *)
(***************************************************************************)
EXTENDS Providers, Json

CONSTANTS
  Zones,        \* zones the provider may hold: sequences of records
  Aliases,      \* hostnames the section may give
  Templates,    \* ddns-path of a custom section: sequences of its specifiers
  Statuses,     \* status codes of an answer besides 200
  Ids, NewIds,  \* IDs of records, and of those the provider creates
  Hosts,        \* names of records
  Long,         \* those of them that are longer than an ID
  Own, Domains, \* the domain of the alias, and all that an account may hold
  Accounts,     \* the domains of an account: sequences of them
  Cuts(_),      \* what may be left of a field: its beginnings
  EndsWith(_, _),  \* is the domain a suffix of the full name of the host?
  Longer(_, _),    \* by how many characters that name is longer
  Shortened(_, _), \* its beginning, two characters less than that many
  MaxRounds        \* updates of the alias

\* What the plugins look for in a JSON answer besides the alias.
Reserved == {"success", "ok", "id", "name", "records", "record_id", "type", "subdomain", "A"}

\* IDs are told apart from host names and from what stands for no ID, and none
\* is named like a key of the answers: get_result_value() and get_record_id()
\* look for a key anywhere in the text, and get_record_id() takes a host "A" for
\* a type.  The IDs of a zone are distinct.
NoId == {"none", "0", "-1", "partial"}
Zone(ids) == Seq([id : ids, domain : Domains, host : Hosts \cup Aliases,
                  type : {"A", "AAAA"}, value : {"A", "AAAA"} \X Nat])
Distinct(z) == \A i, j \in DOMAIN z : z[i].id = z[j].id => i = j
ASSUME NamesAssumption ==
  /\ Hosts \cap Reserved = {} /\ Ids \cap (Hosts \cup NoId \cup Reserved) = {}
  /\ NewIds \subseteq Ids /\ Aliases \subseteq Hosts \cup (Ids \ NewIds)
  /\ "www" \in Hosts /\ "1" \in Ids \ NewIds
ASSUME ZonesAssumption ==
  \A z \in Zones : /\ z \in Zone(Ids \ NewIds) /\ Distinct(z)
                   /\ \A i \in DOMAIN z : z[i].host \in Hosts
ASSUME AccountsAssumption == Own \in Domains /\ Accounts \subseteq Seq(Domains)
ASSUME BoundsAssumption == MaxRounds \in Nat

VARIABLES
  obj,          \* the plugin: file, call of PLUGIN_INIT, domain and family
  path,         \* the ddns-path, of a custom section
  given, name,  \* alias->name in the configuration, and now
  zone,         \* the provider's records
  account,      \* the domains of the account, for cloudxns.c
  domain,       \* the one it chose: its ID and its name as it came
  prefix,       \* the host name it has made of the alias
  pc,           \* idle, zone, record, edit, answer, done
  id,           \* the record setup() has found, or none
  query,        \* how the answer came that setup() read: whole, cut, denied...
  act,          \* what the provider did with the update
  reply,        \* how its answer to the update came
  open, failed, \* connections not closed, failed queries
  wild,         \* was a token read that jsmn_parse() did not write?
  rc,           \* what send_update() returned
  round

cx   == <<account, domain, prefix>>
vars == <<obj, path, given, name, zone, cx, pc, id, query, act, reply, open, failed, wild, rc, round>>

This           == Files[obj.file]
Call           == This.inits[obj.call]
Plugin(d)      == obj.domain = d
IsCustom       == Plugin("")                        \* custom{}
OneOf(ds)      == obj.domain \in ds
V6             == obj.v6
Type           == IF V6 THEN "AAAA" ELSE "A"          \* of alias->address
Address        == <<Type, round>>                     \* a new one in each round
Asks           == {"cloudflare.com", "porkbun.com", "pdd.yandex.ru", "cloudxns.net", "dnspod.cn",
                   "freedns.afraid.org"}
SystemName     == This.systems[Call.sys].name[2]
Nothing        == [kind |-> "none"]
NoDomain       == [id |-> "none", name |-> "none"]

RecordIn(d, i, host, type) == [id |-> i, domain |-> d, host |-> host, type |-> type, value |-> <<type, 0>>]
Record(i, host, type)      == RecordIn(Own, i, host, type)
IsId(a)   == a \in {zone[i].id : i \in DOMAIN zone}   \* 32 hexadecimal digits
HostOf(a) == IF IsId(a) THEN (CHOOSE r \in ToSet(zone) : r.id = a).host ELSE a

\* The records of a set, in their order; those of a name that have one of the
\* types, and those of a domain.
Those(recs, S) ==
  LET upto[n \in 0..Len(recs)] ==
        IF n = 0 THEN <<>> ELSE upto[n - 1] \o (IF recs[n] \in S THEN <<recs[n]>> ELSE <<>>)
  IN upto[Len(recs)]
Matching(recs, host, types) == Those(recs, {r \in ToSet(recs) : r.host = host /\ r.type \in types})
InDomain(recs, d)           == Those(recs, {r \in ToSet(recs) : r.domain = d})
AnyType == {"A", "AAAA"}

\* Every call in the PLUGIN_INIT of every file registers one.
Plugins ==
  LET Named(f, c) == Files[f].systems[Files[f].inits[c].sys].name
  IN UNION {{[file |-> f, call |-> c, domain |-> Files[f].systems[1].name[2],
              v6 |-> Files[f].inits[c].v6 \/ Named(f, c)[1] = "ipv6"]
             : c \in DOMAIN Files[f].inits} : f \in DOMAIN Files}

Init ==
  /\ obj \in Plugins
  /\ path \in (IF IsCustom THEN Templates ELSE {<<>>})
  /\ zone \in (IF OneOf(Asks) THEN Zones ELSE {<<Record("1", "www", Type)>>})
  /\ (\A r \in ToSet(zone) : r.domain = Own) \/ Plugin("cloudxns.net")
  /\ account \in (IF Plugin("cloudxns.net") THEN Accounts ELSE {<<Own>>})
  /\ domain = NoDomain /\ prefix = "none"
  /\ given \in (IF OneOf(Asks) THEN Aliases ELSE {"www"})
  /\ IsId(given) => Plugin("cloudflare.com") /\ \E r \in ToSet(zone) : r.id = given /\ r.type = Type
  /\ name = given /\ pc = "idle" /\ id = "none" /\ query = "whole" /\ act = Nothing /\ reply = "none"
  /\ open = 0 /\ failed = 0 /\ wild = FALSE /\ rc = "OK" /\ round = 0

----------------------------------------------------------------------------
\* JSON answers of the provider (external).

Answer(result, ok, first) ==
  LET r == Member("result", result)
      s == Member("success", <<Prim(ok)>>)
  IN Object(IF first THEN <<s, r>> ELSE <<r, s>>)
Item(r)      == Object(<<Member("id", <<Str(r.id)>>), Member("name", <<Str(r.host)>>)>>)
Items(recs)  == Array([i \in DOMAIN recs |-> Item(recs[i])])
ZoneItem     == Array(<<Object(<<Member("id", <<Str("zone")>>)>>)>>)

\* yandex: the members of a record, in the one or the other order.
YandexItem(r, late) ==
  LET i == Member("record_id", <<Prim(r.id)>>)
      t == Member("type", <<Str(r.type)>>)
      s == Member("subdomain", <<Str(r.host)>>)
  IN Object(IF late THEN <<t, s, i>> ELSE <<i, t, s>>)
YandexAnswer(recs, late) ==
  Object(<<Member("records", Array([i \in DOMAIN recs |-> YandexItem(recs[i], late)])),
           Member("success", <<Str("ok")>>)>>)

----------------------------------------------------------------------------
\* send_update() and the frame of setup().

FirstStep ==
  CASE OneOf({"cloudflare.com", "porkbun.com", "cloudxns.net"}) -> "zone"
    [] OneOf({"pdd.yandex.ru", "dnspod.cn", "freedns.afraid.org"}) -> "record"
    [] OTHER -> "edit"

StartUpdate ==
  /\ pc \in {"idle", "done"} /\ round < MaxRounds
  /\ round' = round + 1 /\ pc' = FirstStep
  /\ id' = "none" /\ query' = "whole" /\ act' = Nothing /\ reply' = "none"
  /\ domain' = NoDomain /\ prefix' = "none"
  /\ UNCHANGED <<obj, path, given, name, zone, account, open, failed, wild, rc>>

SetupReturns(code) == pc' = "done" /\ rc' = code

\* A query whose transaction fails.  json_extract() of cloudflare.c and of
\* porkbun.c leaves without http_exit(); the others close first and look then.
Leaks == OneOf({"cloudflare.com", "porkbun.com"})
QueryFails ==
  /\ pc \in {"zone", "record"}
  /\ failed' = failed + 1 /\ open' = open + (IF Leaks THEN 1 ELSE 0)
  /\ SetupReturns(IF Plugin("freedns.afraid.org") THEN "ERROR" ELSE "TCP_ERROR")
  /\ UNCHANGED <<obj, path, given, name, zone, cx, id, query, act, reply, wild, round>>

\* check_response_code() of the two JSON plugins; http_status_valid() else.
\* freedns.c returns RC_ERROR whatever the status.  A status that counts as a
\* success (304 in cloudflare.c) lets json_extract() read the body: QueryArrives.
StatusCode(status) ==
  IF Plugin("cloudflare.com")
  THEN IF status \in {200, 304} THEN "OK" ELSE IF status = 403 THEN "AUTH_FAIL"
       ELSE IF status = 429 THEN "RETRY_LATER" ELSE "NOTOK"
  ELSE IF Plugin("porkbun.com")
  THEN IF status = 200 THEN "OK" ELSE IF status = 401 THEN "AUTH_FAIL"
       ELSE IF status = 429 THEN "RETRY_LATER" ELSE "NOTOK"
  ELSE StatusValid(status)

QueryRefused ==
  /\ pc \in {"zone", "record"}
  /\ \E status \in Statuses :
       /\ StatusCode(status) # "OK"
       /\ SetupReturns(IF Plugin("freedns.afraid.org") THEN "ERROR" ELSE StatusCode(status))
  /\ UNCHANGED <<obj, path, given, name, zone, cx, id, query, act, reply, open, failed, wild, round>>

\* What json_extract() reads: a whole answer of another kind is one that denies
\* the query, or one of a status that has no body.
Denied == Object(<<Member("success", <<Prim("false")>>), Member("result", <<Prim("null")>>)>>)
QueryArrives(text) ==
  Arrives(text) \cup {<<"denied", Denied>>}
  \cup {<<"empty", <<>>>> : status \in {s \in Statuses : StatusCode(s) = "OK"}}

\* json_extract() of a text: NOHOST when the key is not found; json_copy_value()
\* takes a string that fits into MAX_ID.
TooLong(v)  == v.tok.type # "string" \/ v.tok.v \in Long
Copied(v) ==
  [rc  |-> IF ~v.found THEN "NOHOST" ELSE IF TooLong(v) THEN "BUFFER_OVERFLOW" ELSE "OK",
   val |-> v.tok.v, wild |-> v.wild]
Extract(text, key) == Copied(GetResultValue(text, key, IF Plugin("porkbun.com") THEN 1 ELSE 0))

\* The first query of cloudflare.c and porkbun.c.
ReadZone(x, how) ==
  /\ IF x.rc = "OK" THEN pc' = "record" /\ UNCHANGED rc ELSE SetupReturns(x.rc)
  /\ wild' = (wild \/ x.wild) /\ query' = how
QueryZone ==
  /\ pc = "zone" /\ OneOf({"cloudflare.com", "porkbun.com"})
  /\ \E first \in BOOLEAN :
     \E a \in QueryArrives(Answer(IF Plugin("porkbun.com") THEN Items(zone) ELSE ZoneItem, "true", first)) :
       ReadZone(Extract(a[2], "id"), a[1])
  /\ UNCHANGED <<obj, path, given, name, zone, cx, id, act, reply, open, failed, round>>

\* setup() ends: a host that is not found will be created.
Found(x) ==
  IF x.rc \in {"OK", "NOHOST"} THEN pc' = "edit" /\ UNCHANGED rc ELSE SetupReturns(x.rc)

\* get_record_type()
GetRecordTypeSwapped == IF V6 THEN "A" ELSE "AAAA"
GetRecordType == Type

\* strcpy() of the alias to hostname_id, or of the "id" that was found.
ById(x) == IF x.rc = "OK" THEN name ELSE "none"
ByName(x) == IF x.rc = "OK" THEN x.val ELSE "none"

Read(x, how) == Found(x) /\ wild' = (wild \/ x.wild) /\ query' = how
ReadName(x, how) ==
  Read(x, how) /\ id' = ById(x) /\ name' = IF x.rc = "OK" THEN x.val ELSE name
ReadId(x, how) == Read(x, how) /\ id' = ByName(x) /\ UNCHANGED name

\* The second query of cloudflare.c: the name of the given record, which takes
\* the place of the id in the alias; or the records of the name, by type.
QueryById ==
  /\ pc = "record" /\ Plugin("cloudflare.com") /\ IsId(name)
  /\ \E a \in QueryArrives(Answer(Item(CHOOSE r \in ToSet(zone) : r.id = name), "true", FALSE)) :
       ReadName(Extract(a[2], "name"), a[1])
  /\ UNCHANGED <<obj, path, given, zone, cx, act, reply, open, failed, round>>

QueryByName ==
  /\ pc = "record" /\ Plugin("cloudflare.com") /\ ~IsId(name)
  /\ \E first \in BOOLEAN :
     \E a \in QueryArrives(Answer(Items(Matching(zone, name, {GetRecordType})), "true", first)) :
       ReadId(Extract(a[2], "id"), a[1])
  /\ UNCHANGED <<obj, path, given, zone, cx, act, reply, open, failed, round>>

\* The second query of porkbun.c asks for no name and for no type.
QueryAnyRecord ==
  /\ pc = "record" /\ Plugin("porkbun.com")
  /\ \E a \in QueryArrives(Answer(Items(zone), "true", FALSE)) :
       ReadId(Extract(a[2], "id"), a[1])
  /\ UNCHANGED <<obj, path, given, zone, cx, act, reply, open, failed, round>>

----------------------------------------------------------------------------
\* yandex.c: get_record_id() walks over the tokens with four flags, and an
\* object resets three of them.

Walk0 == [state |-> "unknown", sub |-> "none", type |-> "none", idkey |-> 0, id |-> "0"]
WalkDone(w) == w.sub = "value" /\ w.type = "value" /\ w.id # "0"

WalkValueAnyType(w, tok, host) ==
  [w EXCEPT !.sub   = IF @ = "keyword" /\ IsString(tok, host) THEN "value" ELSE @,
            !.type  = IF @ = "keyword" THEN "value" ELSE @,
            !.id    = IF w.idkey = 1 THEN tok.v ELSE @,
            !.idkey = 0]
WalkValue(w, tok, host) ==
  [w EXCEPT !.sub   = IF @ = "keyword" /\ IsString(tok, host) THEN "value" ELSE @,
            !.type  = IF @ = "keyword" /\ IsString(tok, "A") THEN "value" ELSE @,
            !.id    = IF w.idkey = 1 THEN tok.v ELSE @,
            !.idkey = 0]

WalkToken(w, tok, host) ==
  IF tok.type = "array" THEN (IF w.state = "records" THEN [w EXCEPT !.state = "record_id"] ELSE w)
  ELSE IF tok.type = "object"
  THEN IF w.state = "record_id" THEN [w EXCEPT !.sub = "none", !.type = "none", !.idkey = 0] ELSE w
  ELSE IF IsString(tok, "records") THEN [w EXCEPT !.state = "records"]
  ELSE IF w.state # "record_id" THEN w
  ELSE IF IsString(tok, "subdomain") THEN [w EXCEPT !.sub = "keyword"]
  ELSE IF IsString(tok, "type") THEN [w EXCEPT !.type = "keyword"]
  ELSE IF IsString(tok, "record_id") THEN [w EXCEPT !.idkey = 1]
  ELSE WalkValue(w, tok, host)

\* The walk behind the first n tokens; the object that holds all is left out.
WalkOn(w, tok, host) == IF WalkDone(w) THEN w ELSE WalkToken(w, tok, host)
Walk(toks, host) ==
  LET at[n \in 0..Len(toks)] == IF n < 2 THEN Walk0 ELSE WalkOn(at[n - 1], toks[n], host)
  IN at

GetRecordId(text, host) ==
  LET toks == GetTokens(text)
      w    == Walk(toks, host)[Len(toks)]
  IN IF WalkDone(w) THEN w.id ELSE IF w.state = "record_id" THEN "none" ELSE "-1"

QueryYandex ==
  /\ pc = "record" /\ Plugin("pdd.yandex.ru")
  /\ \E late \in BOOLEAN : \E a \in Arrives(YandexAnswer(zone, late)) :
       LET i == GetRecordId(a[2], name)
       IN /\ IF Success(a[2]) /\ i # "-1" THEN pc' = "edit" /\ id' = i /\ UNCHANGED rc
             ELSE SetupReturns("INVALID_OPTION") /\ UNCHANGED id
          /\ query' = IF late /\ a[1] = "whole" THEN "late" ELSE a[1]
  /\ UNCHANGED <<obj, path, given, name, zone, cx, act, reply, open, failed, wild, round>>

----------------------------------------------------------------------------
\* The plugins that read text: a list of records, cut behind one of them or
\* inside the last field that is read of it: the host in cloudxns.c, the ID in
\* dnspod.c, the key in freedns.c.

\* Of a field that is cut, nothing is not read as a host, and sscanf("%d") fails.
CutBehind(recs) == {<<"cut", SubSeq(recs, 1, n)>> : n \in 0..(Len(recs) - 1)}
ListArrives(recs) ==
  {<<"whole", recs>>} \cup CutBehind(recs)
  \cup UNION {{<<"cut", [SubSeq(recs, 1, n) EXCEPT ![n].host = h]>> : h \in Cuts(recs[n].host)} : n \in DOMAIN recs}
IdArrives(recs) ==
  {<<"whole", recs>>} \cup CutBehind(recs)
  \cup UNION {{<<"cut", [SubSeq(recs, 1, n) EXCEPT ![n].id = i]>> : i \in Cuts(recs[n].id)} : n \in DOMAIN recs}
KeyArrives(recs) ==
  {<<"whole", recs>>} \cup CutBehind(recs)
  \cup {<<"cut", [SubSeq(recs, 1, n) EXCEPT ![n].id = "partial"]>> : n \in DOMAIN recs}
FirstId(recs) == IF recs = <<>> THEN "0" ELSE recs[1].id

FindsUnchecked(i) == pc' = "edit" /\ id' = i /\ UNCHANGED rc
Finds(i) == IF i # "0" THEN pc' = "edit" /\ id' = i /\ UNCHANGED rc
            ELSE SetupReturns("INVALID_OPTION") /\ UNCHANGED id

\* cloudxns.c: the list of the account's domains.  The first one that is a suffix
\* of the alias is taken, with or without a dot before it.  It has lost its last
\* character, the dot; of a domain that is cut that may be all there is.
Listed(d, text) == [id |-> d, name |-> text]
DomainsArrive ==
  LET whole == [i \in DOMAIN account |-> Listed(account[i], account[i])]
  IN {<<"whole", whole>>} \cup CutBehind(whole)
     \cup UNION {{<<"cut", [SubSeq(whole, 1, n) EXCEPT ![n] = Listed(account[n], d)]>>
                   : d \in Cuts(account[n])} : n \in DOMAIN account}

QueryDomains ==
  /\ pc = "zone" /\ Plugin("cloudxns.net")
  /\ \E a \in DomainsArrive :
       LET found == {i \in DOMAIN a[2] : EndsWith(name, a[2][i].name)}
       IN /\ IF found # {} THEN pc' = "record" /\ domain' = a[2][Min(found)] /\ UNCHANGED rc
             ELSE SetupReturns("INVALID_OPTION") /\ UNCHANGED domain
          /\ query' = a[1]
  /\ UNCHANGED <<obj, path, given, name, zone, account, prefix, id, act, reply, open, failed, wild, round>>

\* Then its records.  strlcpy() copies one character less than the prefix has;
\* of a prefix that would have none it copies nothing at all, and what is then
\* compared and sent was on the stack before.
PrefixMade ==
  CASE Longer(name, domain.name) = 0 -> {"@"}
    [] Longer(name, domain.name) = 1 -> Hosts \cup {""}
    [] OTHER                         -> {Shortened(name, domain.name)}

QueryCloudxns ==
  /\ pc = "record" /\ Plugin("cloudxns.net")
  /\ \E p \in PrefixMade : \E a \in ListArrives(InDomain(zone, domain.id)) :
       /\ Finds(FirstId(Matching(a[2], p, AnyType))) /\ query' = a[1] /\ prefix' = p
  /\ UNCHANGED <<obj, path, given, name, zone, account, domain, act, reply, open, failed, wild, round>>

\* dnspod.c: one record of the sub-domain, of whatever type.
QueryDnspod ==
  /\ pc = "record" /\ Plugin("dnspod.cn")
  /\ \E a \in IdArrives(Matching(zone, name, AnyType)) :
       /\ Finds(FirstId(a[2])) /\ query' = a[1]
  /\ UNCHANGED <<obj, path, given, name, zone, cx, act, reply, open, failed, wild, round>>

\* freedns.c: the first line with the name; the key may be cut.
FreednsSetup(recs) ==
  LET i == FirstId(Matching(recs, name, AnyType))
  IN IF i # "0" THEN pc' = "edit" /\ id' = i /\ UNCHANGED rc
     ELSE SetupReturns("ERROR") /\ UNCHANGED id

QueryFreedns ==
  /\ pc = "record" /\ Plugin("freedns.afraid.org")
  /\ \/ \E a \in KeyArrives(zone) :
          FreednsSetup(a[2]) /\ query' = a[1]
     \/ SetupReturns("AUTH_FAIL") /\ query' = "whole" /\ UNCHANGED id
  /\ UNCHANGED <<obj, path, given, name, zone, cx, act, reply, open, failed, wild, round>>

----------------------------------------------------------------------------
\* The update request, and what the provider makes of it (external).

\* generic.c: custom_server_url() stops at a specifier it does not know, and
\* "%%" becomes a "%" that is read again.  The request is sent all the same.
CustomUrl(tmpl) ==
  LET bad == {i \in DOMAIN tmpl : tmpl[i] \notin {"%u", "%p", "%h", "%i"}}
  IN IF bad = {} THEN tmpl ELSE SubSeq(tmpl, 1, Min(bad) - 1)

\* The request as pairs of what the provider expects and what it is given.
Sent ==
  IF IsCustom
  THEN {<<"url", s>> : s \in ToSet(CustomUrl(path))}
       \cup (IF path = <<>> THEN {<<"name", "alias">>, <<"name", "address">>} ELSE {})
  ELSE ToSet(Request(Call.req, This.args))

\* Every field is what the provider expects: no conversion without an argument,
\* and none that prints another field.
Meant == {"alias", "arg", "subdomain", "data"}
Right(s) ==
  CASE s[1] = "name"   -> s[2] \in Meant
    [] s[1] = "ip"     -> s[2] = "address"
    [] s[1] = "ip4"    -> s[2] = "address" /\ ~V6
    [] s[1] = "ip6"    -> s[2] = "address" /\ V6
    [] s[1] = "pass"   -> s[2] \in {"password", "md5", "username"}
    [] s[1] = "user"   -> s[2] = "username"
    [] s[1] = "basic"  -> s[2] = "encoded_password"
    [] s[1] = "host"   -> s[2] = "server_name"
    [] s[1] = "url"    -> s[2] \in {"server_url", "url"}
    [] s[1] = "body"   -> s[2] = "data"
    [] s[1] = "agent"  -> s[2] = "user_agent"
    [] OTHER           -> s[2] # "garbage"
Understood ==
  IF IsCustom THEN CustomUrl(path) = path ELSE \A s \in Sent : Right(s)

\* The provider edits the record of this ID (or of the name), or adds one.
Target ==
  IF OneOf(Asks) THEN {i \in DOMAIN zone : zone[i].id = id}
  ELSE {i \in DOMAIN zone : zone[i].host = name}
NewHost == IF Plugin("cloudxns.net") THEN prefix ELSE name
Creates == id = "none" /\ OneOf({"cloudflare.com", "porkbun.com", "pdd.yandex.ru"})

NewType(r) == IF OneOf({"cloudflare.com", "porkbun.com", "dnspod.cn"}) THEN Type ELSE r.type
Edited(r)  == [r EXCEPT !.value = Address, !.type = NewType(r),
                        !.host = IF Plugin("freedns.afraid.org") THEN @ ELSE NewHost]
FreshIds   == {i \in NewIds : ~IsId(i)}
FreshId    == CHOOSE i \in FreshIds : TRUE

Apply ==
  /\ pc = "edit" /\ Understood
  /\ \/ /\ Creates /\ FreshIds # {}
        /\ zone' = Append(zone, [Record(FreshId, name, IF Plugin("pdd.yandex.ru") THEN "A" ELSE Type) EXCEPT !.value = Address])
        /\ act' = [kind |-> "create", host |-> name, twin |-> \E i \in DOMAIN zone : zone[i].host = name /\ zone[i].type = Type]
     \/ \E i \in Target :
          /\ zone' = [zone EXCEPT ![i] = Edited(@)]
          /\ act' = [kind |-> "edit", record |-> zone[i]]
  /\ pc' = "answer"
  /\ UNCHANGED <<obj, path, given, name, cx, id, query, reply, open, failed, wild, rc, round>>

Refuse ==
  /\ pc = "edit" /\ pc' = "answer" /\ act' = [kind |-> "refused"]
  /\ UNCHANGED <<obj, path, given, name, zone, cx, id, query, reply, open, failed, wild, rc, round>>

----------------------------------------------------------------------------
\* The answer to the update.

Applied == act.kind \in {"edit", "create"}

OkWords(rules)   == (UNION {rules[n].words : n \in {n \in DOMAIN rules : rules[n].rc = "OK"}}) \ {Anything}
Words(rules)     == (UNION {rules[n].words : n \in DOMAIN rules}) \ {Anything}
\* What the tables of the plugins have in common.
ASSUME TablesAssumption ==
  \A o \in Plugins :
    LET rules == Files[o.file].rules
    IN /\ o.v6 \in BOOLEAN /\ (o.domain = "pdd.yandex.ru" => ~o.v6)
       /\ DOMAIN rules = 1..Len(rules) /\ Len(rules) \in Nat
       /\ \E n \in DOMAIN rules : Anything \in rules[n].words
       /\ "refused" \notin OkWords(rules) /\ ("1" \in OkWords(rules) => o.domain = "dnsexit.com")
       /\ \/ o.domain = "mydns.jp"
          \/ /\ rules[1].rc = "OK" /\ OkWords(rules) \subseteq rules[1].words
             /\ OkWords(rules) = {} => Anything \in rules[1].words
\* The word of the answer (external).
Says(rules) ==
  IF Applied THEN (IF OkWords(rules) = {} THEN {"done"} ELSE OkWords(rules))
  ELSE (Words(rules) \ OkWords(rules)) \cup {"refused"}

\* Two providers are documented to refuse with a word that the plugin takes for a
\* success: Loopia with "[200 OK] nohost" (common.c), of which the end may be cut,
\* and freedns with the address (freedns.c).
RefusesWithSuccess ==
  IF Applied THEN {}
  ELSE IF SystemName = "loopia.com" THEN {{"OK", "nohost"}, {"OK"}}
  ELSE IF Plugin("freedns.afraid.org") THEN {{"address"}} ELSE {}

\* http_response_parse(): what response() is given of an answer that is whole,
\* or is cut in the status line, in the header, or in the body.  Cut in the
\* header, all that has come is the body: the status line, and any word that a
\* header may hold.  dnsexit.c reads a number, and no line of a header is one.
CutNumber(w) == IF w = "11" THEN {{}, {"1"}} ELSE {{}}
HeaderWords(rules) == IF Plugin("dnsexit.com") THEN {{}} ELSE {{"OK", w} : w \in Words(rules) \cup {"OK"}}
ResponseArrives(rules) ==
  {[how |-> "whole",  status |-> 200, words |-> {w}] : w \in Says(rules)}
  \cup {[how |-> "mixed",  status |-> 200, words |-> ws] : ws \in RefusesWithSuccess}
  \cup {[how |-> "status", status |-> s, words |-> {}] : s \in Statuses}
  \cup {[how |-> "line",   status |-> 0,   words |-> {}],
        [how |-> "reason", status |-> 200, words |-> {}]}
  \cup {[how |-> "header", status |-> 200, words |-> ws] : ws \in HeaderWords(rules)}
  \cup {[how |-> "body", status |-> 200, words |-> ws] : ws \in UNION {CutNumber(w) : w \in Says(rules)}}

UpdateReturns(code, how) ==
  /\ rc' = code /\ pc' = "done" /\ reply' = how

\* response() of the plugins that look for words.
AnswerWords ==
  /\ pc = "answer" /\ ~OneOf({"cloudflare.com", "porkbun.com", "pdd.yandex.ru"})
  /\ \E a \in ResponseArrives(This.rules) :
       UpdateReturns(Response(This, a.status, a.words), a.how)
  /\ UNCHANGED <<obj, path, given, name, zone, cx, id, query, act, open, failed, wild, round>>

\* response() of cloudflare.c, porkbun.c and yandex.c.
JsonResponseInner(text) ==
  IF Plugin("pdd.yandex.ru") THEN [ok |-> Success(text), wild |-> FALSE] ELSE CheckSuccess(ParseJson(text), 1)
JsonResponse(text) ==
  IF Plugin("pdd.yandex.ru") THEN [ok |-> Success(text), wild |-> FALSE] ELSE CheckSuccessOnly(text)
ReadAnswer(r, how) ==
  /\ UpdateReturns(IF r.ok THEN "OK" ELSE "NOTOK", how)
  /\ wild' = (wild \/ r.wild)
AnswerJson ==
  /\ pc = "answer" /\ OneOf({"cloudflare.com", "porkbun.com", "pdd.yandex.ru"})
  /\ \/ \E first \in BOOLEAN :
        LET result == <<Str("record")>>
            full   == IF Plugin("pdd.yandex.ru")
                      THEN Object(<<Member("record", result),
                                    Member("success", <<Str(IF Applied THEN "ok" ELSE "error")>>)>>)
                      ELSE Answer(result, IF Applied THEN "true" ELSE "false", first)
        IN \E a \in Arrives(full) :
             ReadAnswer(JsonResponse(a[2]), a[1])
     \/ \E status \in Statuses :
          /\ UpdateReturns(IF StatusCode(status) = "OK" THEN "NOTOK" ELSE StatusCode(status), "status")
          /\ UNCHANGED wild
  /\ UNCHANGED <<obj, path, given, name, zone, cx, id, query, act, open, failed, round>>

\* http_init() or the transaction fails, with the update applied or not:
\* send_update() closes the connection in both cases.
UpdateFails ==
  /\ pc \in {"edit", "answer"} /\ UpdateReturns("TCP_ERROR", "lost")
  /\ UNCHANGED <<obj, path, given, name, zone, cx, id, query, act, open, failed, wild, round>>

Query ==
  \/ QueryFails \/ QueryRefused \/ QueryZone \/ QueryById \/ QueryByName \/ QueryAnyRecord
  \/ QueryYandex \/ QueryDomains \/ QueryCloudxns \/ QueryDnspod \/ QueryFreedns

Next == StartUpdate \/ Query \/ Apply \/ Refuse \/ AnswerWords \/ AnswerJson \/ UpdateFails

Spec == Init /\ [][Next]_vars

----------------------------------------------------------------------------
(***************************************************************************)
(* Properties.                                                             *)
(***************************************************************************)

\* Every variable has a value of its type, and an ID that setup() hands on is
\* one of the zone, except for an ID or a key that was cut.  The connections
\* left open are never more than the queries that failed.
TypeOK ==
  /\ pc \in {"idle", "zone", "record", "edit", "answer", "done"}
  /\ query \in {"whole", "cut", "stray", "late", "denied", "empty"} /\ round \in 0..MaxRounds
  /\ reply \in {"none", "whole", "cut", "stray", "mixed", "status", "line", "reason", "header", "body", "lost"}
  /\ id \in Ids \cup NoId \cup UNION {Cuts(i) : i \in Ids} /\ (query # "cut" => id = "none" \/ IsId(id))
  /\ account \in Seq(Domains) /\ domain.id \in Domains \cup {"none"}
  /\ act.kind \in {"none", "refused", "edit", "create"} /\ wild \in BOOLEAN
  /\ open \in 0..failed /\ failed \in 0..MaxRounds

\* The format a plugin registers and the arguments its request() prints fit: no
\* conversion is left without an argument or shows another field, and an IPv6
\* system never puts its address where an IPv4 one belongs.
RequestRight == ~IsCustom => \A s \in Sent : Right(s)

\* When send_update() reports success the provider has applied the update.  The
\* code is wrong in four ways: a plugin that does not read the body; an answer
\* cut inside its header, which then passes for the body; a result number of
\* dnsexit.com that lost its last digit; and a refusal that holds a word of
\* success.  No other refusal that arrives is taken for a success: whole, cut in
\* the body or with an error status, and of whichever plugin.
ReadsBody == \A n \in DOMAIN This.rules :
               This.rules[n].rc = "OK" => Anything \notin This.rules[n].words
AcceptedMeansDone ==
  pc = "done" /\ rc = "OK" =>
    \/ Applied
    \/ ~ReadsBody
    \/ reply \in {"header", "mixed"}
    \/ reply = "body" /\ Plugin("dnsexit.com")


\* An applied update whose answer arrives whole is taken for a success, or the
\* alias would be sent again for ever; mydns.jp is such an alias.
DoneMeansAccepted ==
  pc = "done" /\ Applied /\ reply = "whole" => rc = "OK" \/ Plugin("mydns.jp")

\* An update changes the record of the alias, in the domain of the alias and of
\* the address family, and no other.  Not so in porkbun.c (first record of the
\* zone), dnspod.c (any type; any record when the ID was cut), freedns.c (any
\* type) and yandex.c (the ID of the record before, when the server puts record_id
\* last).  cloudxns.c takes the record of the prefix in the domain it has chosen:
\* the right one only where that is the alias's domain and the prefix its name,
\* which is so for the domain itself when no suffix of it comes before.
CutTo(host, left) == query = "cut" /\ left \in Cuts(host)
Named(r) ==
  LET host == r.domain = Own /\ r.host = HostOf(given)
      type == r.type = Type
  IN \/ host /\ type
     \/ Plugin("porkbun.com")
     \/ Plugin("dnspod.cn") /\ (host \/ query = "cut")
     \/ Plugin("freedns.afraid.org") /\ host
     \/ Plugin("cloudxns.net") /\ r.domain = domain.id /\ (r.host = prefix \/ CutTo(r.host, prefix))
     \/ Plugin("pdd.yandex.ru") /\ query = "late"
OnlyNamedRecord == act.kind = "edit" => Named(act.record)

\* A record is created only where the provider has none of that name and type:
\* setup() must not take an answer it cannot read for "no such host".  It does
\* so for every answer that is no whole success: cut or garbled, one that denies
\* the query, and a 304, which has no body.
CreatesOnlyMissing ==
  act.kind = "create" =>
    \/ ~act.twin /\ act.host = HostOf(given)
    \/ query \in {"cut", "stray", "denied", "empty"}

\* A Cloudflare alias that is given as a record ID updates that record, in every
\* round: the code says that it uses "the id already provided by the user", and
\* the manual that this is how one of several records of a name is updated.
IdNamesRecord == IsId(given) /\ act.kind = "edit" => act.record.id = given

\* A plugin reads only tokens that the second pass has written, though nothing
\* looks at its result: a text that is cut leaves containers open but no token
\* unwritten.  The exceptions are a closing bracket too many, and porkbun.c,
\* which looks one token behind the array when there is no "success".
TokensWritten ==
  [][wild' # wild => query' = "stray" \/ reply' = "stray" \/ Plugin("porkbun.com")]_vars
=============================================================================
