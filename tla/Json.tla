-------------------------------- MODULE Json --------------------------------
(***************************************************************************)
(* The JSON reader: jsmn (src/include/jsmn.h, built with JSMN_STRICT and   *)
(* without parent links), the two passes of parse_json() in src/src/json.c *)
(* and the searches that the plugins do in the tokens.                     *)
(*                                                                         *)
(* A text is a sequence of lexemes: brackets, colons, commas, strings and  *)
(* primitives with their value, a string whose closing quote is missing    *)
(* (Cut), and any other character (Bad).  A primitive swallows the lexeme  *)
(* behind it unless that is a closer or a comma; no text here has such a   *)
(* pair.                                                                   *)
(***************************************************************************)
EXTENDS Naturals, Sequences, FiniteSetsExt, SequencesExt

LBrace   == <<"lbrace">>
RBrace   == <<"rbrace">>
LBracket == <<"lbracket">>
RBracket == <<"rbracket">>
Colon    == <<"colon">>
CommaLex == <<"comma">>
Str(v)   == <<"str", v>>
Prim(v)  == <<"prim", v>>
Cut      == <<"cut">>
Bad      == <<"bad">>

\* open: start is set and end is not, as for a container that is not closed yet.
Token(type, v) == [type |-> type, v |-> v, open |-> type \in {"object", "array"}, size |-> 0]
Uninit         == [type |-> "uninit", v |-> "nil", open |-> FALSE, size |-> 0]

\* The parser: the tokens written, the superior token (0 for none), the result.
Start == [toks |-> <<>>, super |-> 0, rc |-> "OK"]
Fail(p, rc) == [p EXCEPT !.rc = rc]

OpenTokens(p) == {i \in DOMAIN p.toks : p.toks[i].open}
SuperIs(p, types) == p.super # 0 /\ p.toks[p.super].type \in types

\* jsmn_alloc_token() and jsmn_fill_token(), counted in the superior token.
Alloc(p, tok) ==
  LET grown == IF p.super = 0 THEN p.toks ELSE [p.toks EXCEPT ![p.super].size = @ + 1]
  IN [p EXCEPT !.toks = Append(grown, tok)]

\* An object or an array can't become a key; its token is left half written.
OpenContainer(p, type) ==
  IF SuperIs(p, {"object"}) THEN [Fail(p, "INVAL") EXCEPT !.toks = Append(@, Uninit)]
  ELSE [Alloc(p, Token(type, "nil")) EXCEPT !.super = Len(p.toks) + 1]

CloseContainer(p, type) ==
  LET open == OpenTokens(p)
      i    == Max(open)
      rest == open \ {i}
  IN IF open = {} \/ p.toks[i].type # type THEN Fail(p, "INVAL")
     ELSE [p EXCEPT !.toks[i].open = FALSE, !.super = IF rest = {} THEN 0 ELSE Max(rest)]

\* A comma behind a value leads back to the innermost open container.
Comma(p) ==
  IF p.super = 0 \/ SuperIs(p, {"object", "array"}) \/ OpenTokens(p) = {} THEN p
  ELSE [p EXCEPT !.super = Max(OpenTokens(p))]

\* A primitive must not be a key, nor the second value of one, nor end the text.
Primitive(p, v, last) ==
  IF SuperIs(p, {"object"}) \/ (SuperIs(p, {"string"}) /\ p.toks[p.super].size # 0)
  THEN Fail(p, "INVAL")
  ELSE IF last THEN Fail(p, "PART") ELSE Alloc(p, Token("primitive", v))

\* One turn of the loop of jsmn_parse().
Step(p, lex, last) ==
  CASE lex[1] = "lbrace"   -> OpenContainer(p, "object")
    [] lex[1] = "lbracket" -> OpenContainer(p, "array")
    [] lex[1] = "rbrace"   -> CloseContainer(p, "object")
    [] lex[1] = "rbracket" -> CloseContainer(p, "array")
    [] lex[1] = "str"      -> Alloc(p, Token("string", lex[2]))
    [] lex[1] = "colon"    -> [p EXCEPT !.super = Len(p.toks)]
    [] lex[1] = "comma"    -> Comma(p)
    [] lex[1] = "prim"     -> Primitive(p, lex[2], last)
    [] lex[1] = "cut"      -> Fail(p, "PART")
    [] lex[1] = "bad"      -> Fail(p, "INVAL")

\* The loop: the parser behind the first n lexemes.  An error ends it.
Turn(p, lex, last) == IF p.rc = "OK" THEN Step(p, lex, last) ELSE p
Loop(text) ==
  LET at[n \in 0..Len(text)] == IF n = 0 THEN Start ELSE Turn(at[n - 1], text[n], n = Len(text))
  IN at

\* jsmn_parse() with a token array: an open container at the end is an error.
End(p) == IF p.rc = "OK" /\ OpenTokens(p) # {} THEN Fail(p, "PART") ELSE p
Fill(text) == End(Loop(text)[Len(text)])

\* jsmn_parse() without one: brackets are not matched, only characters and
\* strings can be wrong.
Counted(text) == {i \in DOMAIN text : text[i][1] \in {"lbrace", "lbracket", "str", "prim"}}
Lexical(text) ==
  /\ \A i \in DOMAIN text : text[i] \notin {Cut, Bad}
  /\ text = <<>> \/ text[Len(text)][1] # "prim"

\* parse_json(): the array has the size of the first pass, and what the second
\* pass returns is not looked at.
Allocated(toks, n) == toks \o [i \in 1..(n - Len(toks)) |-> Uninit]
ParseJson(text) ==
  IF ~Lexical(text) \/ Counted(text) = {} THEN <<>>
  ELSE Allocated(Fill(text).toks, Cardinality(Counted(text)))

\* get_tokens() of yandex.c looks at the result.
ObjectTokens(p) ==
  IF p.rc # "OK" \/ p.toks = <<>> THEN <<>>
  ELSE IF p.toks[1].type # "object" THEN <<>> ELSE p.toks
GetTokens(text) == ObjectTokens(Fill(text))

----------------------------------------------------------------------------
\* Searches.  Each returns what it found and whether it read a token that was
\* never written or lies behind the array.

IsString(tok, v) == tok.type = "string" /\ tok.v = v         \* jsoneq()

\* check_success() on tokens + from, with the length of the whole array.
CheckSuccess(toks, from) ==
  LET At(i) == IF from + i + 1 <= Len(toks) THEN toks[from + i + 1] ELSE Uninit
      last  == Len(toks) - 1
      hits  == {i \in 1..last : IsString(At(i), "success")}
      first == Min(hits)
      read  == IF hits = {} THEN 1..last ELSE 1..(IF first < last THEN first + 1 ELSE first)
  IN [ok   |-> hits # {} /\ first < last /\ At(first + 1).type = "primitive" /\ At(first + 1).v = "true",
      wild |-> \E i \in read : At(i) = Uninit]

CheckSuccessOnly(text) == CheckSuccess(ParseJson(text), 0)

\* get_result_value(): the token behind the first key of this name, anywhere.
ValueOf(toks, key, success) ==
  LET hits == {i \in 2..(Len(toks) - 1) : IsString(toks[i], key)}
      None(wild) == [found |-> FALSE, tok |-> Uninit, wild |-> wild]
  IN IF toks = <<>> THEN None(FALSE)
     ELSE IF toks[1] = Uninit THEN None(TRUE)
     ELSE IF toks[1].type # "object" THEN None(FALSE)
     ELSE IF ~success.ok THEN None(success.wild)
     ELSE IF hits = {} THEN None(Uninit \in ToSet(toks))
     ELSE [found |-> TRUE, tok |-> toks[Min(hits) + 1], wild |-> success.wild]
ResultValue(toks, key, from) == ValueOf(toks, key, CheckSuccess(toks, from))
GetResultValue(text, key, from) == ResultValue(ParseJson(text), key, from)

\* success() of yandex.c: the string "ok" behind some "success".
OkBehind(toks, i)   == IsString(toks[i], "success") /\ IsString(toks[i + 1], "ok")
HasSuccess(toks)    == \E i \in 2..(Len(toks) - 1) : OkBehind(toks, i)
HasSuccessKey(toks) == \E i \in 2..(Len(toks) - 1) : IsString(toks[i], "success")
\* (mutant) the value is not looked at
SuccessKey(text) == HasSuccessKey(GetTokens(text))
Success(text) == HasSuccess(GetTokens(text))

----------------------------------------------------------------------------
\* The texts a provider sends (external), and what may become of them.

Commas(texts) ==
  LET upto[n \in 0..Len(texts)] ==
        IF n = 0 THEN <<>> ELSE IF n = 1 THEN texts[1] ELSE upto[n - 1] \o <<CommaLex>> \o texts[n]
  IN upto[Len(texts)]
Member(key, val) == <<Str(key), Colon>> \o val
Object(members)  == <<LBrace>> \o Commas(members) \o <<RBrace>>
Array(elements)  == <<LBracket>> \o Commas(elements) \o <<RBracket>>

\* Whole, cut behind a lexeme or inside a string, or with a bracket too many.
Arrives(text) ==
  {<<"whole", text>>, <<"stray", <<RBrace>> \o text>>}
  \cup {<<"cut", SubSeq(text, 1, n)>> : n \in 0..(Len(text) - 1)}
  \cup {<<"cut", SubSeq(text, 1, n - 1) \o <<Cut>>>> : n \in {n \in DOMAIN text : text[n][1] = "str"}}
=============================================================================
