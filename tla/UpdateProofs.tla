---------------------------- MODULE UpdateProofs ----------------------------
(***************************************************************************)
(* Update, for every zone, alias and ID: what the plugins read out of the  *)
(* provider's answers, and what they make of it.                           *)
(***************************************************************************)
EXTENDS Update, JsonProofs

-----------------------------------------------------------------------------
(* The texts of the providers *)

\* A value that json_extract() copies out of an answer.
LEMMA ExtractValue ==
  ASSUME NEW V, "nil" \in V, NEW T \in Seq(Lexemes(V)), NEW a \in Arrives(T),
         NEW key, NEW vals, KeyHas(T, key, {Str(v) : v \in vals}), Extract(a[2], key).rc = "OK"
  PROVE  Extract(a[2], key).val \in vals
<1> DEFINE S == {Str(v) : v \in vals}
           from == IF Plugin("porkbun.com") THEN 1 ELSE 0
           toks == ParseJson(a[2])
           x == ResultValue(toks, key, from)
<1>1. \A s \in S : IsCounted(s)
  BY LexFacts
<1>2. toks \in Seq(TokenSet(V)) /\ KeyReads(toks, key, S)
  <2> HIDE DEF S
  <2> QED BY <1>1, ArrivesKey DEF S
<1>3. Extract(a[2], key) = Copied(x)
  BY DEF Extract, GetResultValue
<1> HIDE DEF S, from, toks, x
<1>4. x.found /\ x.tok.type = "string" /\ Extract(a[2], key).val = x.tok.v
  BY <1>3 DEF Copied, TooLong
<1>5. PICK s \in S : Writes(x.tok, s)
  BY <1>2, <1>4, ValueFound DEF x
<1>6. PICK v \in vals : s = Str(v)
  BY <1>5 DEF S
<1> QED BY <1>4, <1>5, <1>6, LexFacts DEF Writes

Names == Hosts \cup Aliases
Vals  == Ids \cup Names \cup Reserved \cup AnyType
         \cup {"nil", "true", "false", "null", "result", "zone", "record", "error"}
Lex   == Lexemes(Vals)

\* The values of the answers, and which of them differ.
LEMMA ValsFacts ==
  /\ "nil" \in Vals /\ Reserved \subseteq Vals /\ Ids \subseteq Vals /\ Names \subseteq Vals
  /\ {"true", "false", "null", "result", "zone", "record", "error", "A", "AAAA"} \subseteq Vals
  /\ Ids \cap Reserved = {} /\ Names \cap Reserved = {} /\ Ids \cap NoId = {} /\ NewIds \subseteq Ids
  /\ \A v \in Vals : Str(v) \in Lex /\ Prim(v) \in Lex
<1>1. Ids \cap Reserved = {} /\ Ids \cap NoId = {} /\ NewIds \subseteq Ids
  BY NamesAssumption
<1>2. Names \cap Reserved = {}
  BY NamesAssumption DEF Names
<1>3. \A v \in Vals : Str(v) \in Lex /\ Prim(v) \in Lex
  BY DEF Lex, Lexemes
<1>4. "nil" \in Vals /\ Reserved \subseteq Vals /\ Ids \subseteq Vals /\ Names \subseteq Vals
  BY DEF Vals
<1>5. {"true", "false", "null", "result", "zone", "record", "error", "A", "AAAA"} \subseteq Vals
  BY DEF Vals, AnyType
<1> QED BY <1>1, <1>2, <1>3, <1>4, <1>5

\* Lexemes of strings and primitives are told apart by their values.
LEMMA StrIs ==
  /\ \A v, w : Str(v) = Str(w) => v = w
  /\ \A v, w : Prim(v) = Prim(w) => v = w
  /\ \A v, w : Str(v) # Prim(w)
  /\ \A v : Str(v) \notin Punctuation /\ Prim(v) \notin Punctuation
<1>1. /\ \A v, w : Str(v) = Str(w) => v = w
      /\ \A v, w : Prim(v) = Prim(w) => v = w
      /\ \A v, w : Str(v) # Prim(w)
  BY DEF Str, Prim
<1>2. \A v : Str(v) \notin Punctuation /\ Prim(v) \notin Punctuation
  BY LexFacts, TextOne DEF Punctuation, Str, Prim, LBrace, RBrace, LBracket, RBracket, Colon, CommaLex
<1> QED BY <1>1, <1>2

\* A member with a string or a primitive.
LEMMA MemberType ==
  ASSUME NEW V, NEW key \in V, NEW v \in Lexemes(V)
  PROVE  Member(key, <<v>>) \in Seq(Lexemes(V))
<1>1. Str(key) \in Lexemes(V) /\ Colon \in Lexemes(V)
  BY DEF Lexemes
<1>2. <<Str(key), Colon>> \in Seq(Lexemes(V)) /\ <<v>> \in Seq(Lexemes(V))
  BY <1>1
<1> QED BY <1>2 DEF Member

\* An object of two members.
LEMMA ObjectOfTwo ==
  ASSUME NEW V, NEW marks, marks \cap Punctuation = {}, NEW W \in SUBSET Seq(Lexemes(V)), NEW a, NEW b,
         Text(V, a, marks, W), Text(V, b, marks, W)
  PROVE  Text(V, Object(<<a, b>>), marks, W)
<1> DEFINE t == <<a, b>>
<1>1. a \in Seq(Lexemes(V)) /\ b \in Seq(Lexemes(V))
  BY DEF Text
<1>2. t \in Seq(Seq(Lexemes(V))) /\ Len(t) = 2 /\ t[1] = a /\ t[2] = b
  BY <1>1
<1> HIDE DEF t
<1>3. \A i \in 1..Len(t) : Text(V, t[i], marks, W)
  BY <1>2
<1> QED BY <1>2, <1>3, TextBuilt DEF t

\* An answer of Cloudflare or Porkbun from its members.
LEMMA AnswerText ==
  ASSUME NEW marks, marks \cap Punctuation = {}, NEW W \in SUBSET Seq(Lex), NEW result, NEW ok, NEW first,
         Str("result") \notin marks, Text(Vals, result, marks, W), Text(Vals, Member("success", <<Prim(ok)>>), marks, W)
  PROVE  Text(Vals, Answer(result, ok, first), marks, W)
<1>1. Text(Vals, Member("result", result), marks, W)
  BY ValsFacts, TextBuilt DEF Lex
<1> DEFINE r == Member("result", result)
           s == Member("success", <<Prim(ok)>>)
<1> HIDE DEF r, s
<1>2. Text(Vals, Object(<<s, r>>), marks, W) /\ Text(Vals, Object(<<r, s>>), marks, W)
  BY <1>1, ObjectOfTwo DEF r, s, Lex
<1>3. Answer(result, ok, first) = IF first THEN Object(<<s, r>>) ELSE Object(<<r, s>>)
  BY DEF Answer, r, s
<1> QED BY <1>2, <1>3

\* A list of records, and one record, with the values of a key.
LEMMA ItemText ==
  ASSUME NEW marks, marks \cap Punctuation = {}, NEW W \in SUBSET Seq(Lex), NEW r,
         Text(Vals, Member("id", <<Str(r.id)>>), marks, W), Text(Vals, Member("name", <<Str(r.host)>>), marks, W)
  PROVE  Text(Vals, Item(r), marks, W)
BY ObjectOfTwo DEF Item, Lex

\* The keys of the list of records that a provider returns.
LEMMA IdsText ==
  ASSUME NEW recs, NEW n \in Nat, DOMAIN recs = 1..n, NEW first,
         \A i \in 1..n : recs[i].id \in Ids /\ recs[i].host \in Names
  PROVE  LET T == Answer(Items(recs), "true", first) IN
         T \in Seq(Lex) /\ KeyHas(T, "id", {Str(v) : v \in {recs[i].id : i \in 1..n}})
<1> DEFINE vals == {Str(v) : v \in {recs[i].id : i \in 1..n}}
           marks == {Str("id")}
           W == {Member("id", <<v>>) : v \in vals}
           items == [i \in DOMAIN recs |-> Item(recs[i])]
<1>0. \A i \in 1..n : recs[i].id \in Vals /\ recs[i].id # "id" /\ recs[i].host \in Vals /\ recs[i].host # "id"
  BY ValsFacts DEF Reserved
<1>1. \A v \in vals : v \in Lex /\ v # Str("id")
  BY <1>0, ValsFacts, StrIs
<1>2. "id" \in Vals /\ "name" \in Vals /\ "success" \in Vals
  BY ValsFacts DEF Reserved
<1>3. W \in SUBSET Seq(Lex)
  BY <1>1, <1>2, MemberType DEF Lex
<1>4. marks \cap Punctuation = {} /\ Str("result") \notin marks /\ Str("name") \notin marks /\ Str("success") \notin marks
  BY StrIs
<1>5. ASSUME NEW i \in 1..n PROVE Text(Vals, Item(recs[i]), marks, W)
  <2>1. Text(Vals, Member("id", <<Str(recs[i].id)>>), marks, W)
    <3>1. Member("id", <<Str(recs[i].id)>>) \in W
      OBVIOUS
    <3> HIDE DEF W
    <3> QED BY <1>3, <3>1, TextWindow DEF Lex
  <2>2. Text(Vals, <<Str(recs[i].host)>>, marks, W)
    <3>1. Str(recs[i].host) \in Lex /\ Str(recs[i].host) \notin marks
      BY <1>0, ValsFacts, StrIs
    <3> QED BY <3>1, TextOne DEF Lex
  <2> HIDE DEF W, marks
  <2>3. Text(Vals, Member("name", <<Str(recs[i].host)>>), marks, W)
    BY <1>2, <1>3, <1>4, <2>2, TextBuilt DEF Lex
  <2> QED BY <1>3, <1>4, <2>1, <2>3, ItemText
<1> HIDE DEF W, marks, vals
<1>6. items \in Seq(Seq(Lex)) /\ Len(items) = n /\ \A i \in 1..n : items[i] = Item(recs[i])
  <2>1. \A i \in 1..n : Item(recs[i]) \in Seq(Lex)
    BY <1>5 DEF Text, Lex
  <2> QED BY <2>1
<1> HIDE DEF items
<1>7. Text(Vals, Array(items), marks, W)
  BY <1>3, <1>4, <1>5, <1>6, TextBuilt DEF Lex
<1>8. Text(Vals, Items(recs), marks, W)
  BY <1>7 DEF Items, items
<1>9. Text(Vals, Member("success", <<Prim("true")>>), marks, W)
  <2>1. Prim("true") \in Lex /\ Prim("true") \notin marks
    BY ValsFacts, StrIs DEF marks
  <2>2. Text(Vals, <<Prim("true")>>, marks, W)
    BY <2>1, TextOne DEF Lex
  <2> QED BY <1>2, <1>3, <1>4, <2>2, TextBuilt DEF Lex
<1>10. Text(Vals, Answer(Items(recs), "true", first), marks, W)
  BY <1>3, <1>4, <1>8, <1>9, AnswerText
<1> QED BY <1>1, <1>2, <1>10, MemberKey DEF Lex, marks, W, vals

\* The record that a provider returns for an ID.
LEMMA NameText ==
  ASSUME NEW r, r.id \in Ids, r.host \in Names
  PROVE  LET T == Answer(Item(r), "true", FALSE) IN
         T \in Seq(Lex) /\ KeyHas(T, "name", {Str(v) : v \in {r.host}})
<1> DEFINE vals == {Str(v) : v \in {r.host}}
           marks == {Str("name")}
           W == {Member("name", <<v>>) : v \in vals}
<1>0. r.id \in Vals /\ r.id # "name" /\ r.host \in Vals /\ r.host # "name"
  BY ValsFacts DEF Reserved
<1>1. \A v \in vals : v \in Lex /\ v # Str("name")
  BY <1>0, ValsFacts, StrIs
<1>2. "id" \in Vals /\ "name" \in Vals /\ "success" \in Vals
  BY ValsFacts DEF Reserved
<1>3. W \in SUBSET Seq(Lex)
  BY <1>1, <1>2, MemberType DEF Lex
<1>4. marks \cap Punctuation = {} /\ Str("result") \notin marks /\ Str("id") \notin marks /\ Str("success") \notin marks
  BY StrIs
<1>5. Text(Vals, Member("name", <<Str(r.host)>>), marks, W)
  <2>1. Member("name", <<Str(r.host)>>) \in W
    OBVIOUS
  <2> HIDE DEF W
  <2> QED BY <1>3, <2>1, TextWindow DEF Lex
<1>6. /\ Text(Vals, <<Str(r.id)>>, marks, W) /\ Text(Vals, <<Prim("true")>>, marks, W)
  <2>1. Str(r.id) \in Lex /\ Str(r.id) \notin marks /\ Prim("true") \in Lex /\ Prim("true") \notin marks
    BY <1>0, ValsFacts, StrIs
  <2> QED BY <2>1, TextOne DEF Lex
<1> HIDE DEF W, marks, vals
<1>7. Text(Vals, Member("id", <<Str(r.id)>>), marks, W) /\ Text(Vals, Member("success", <<Prim("true")>>), marks, W)
  BY <1>2, <1>3, <1>4, <1>6, TextBuilt DEF Lex
<1>8. Text(Vals, Item(r), marks, W)
  BY <1>3, <1>4, <1>5, <1>7, ItemText
<1>9. Text(Vals, Answer(Item(r), "true", FALSE), marks, W)
  BY <1>3, <1>4, <1>7, <1>8, AnswerText
<1> QED BY <1>1, <1>2, <1>9, MemberKey DEF Lex, marks, W, vals

\* A result without a "success" leaves the one of the answer.
Free(t) == \A W \in SUBSET Seq(Lex) : Text(Vals, t, {Str("success")}, W)

\* It has "success" once, with the given value.
LEMMA SuccessText ==
  ASSUME NEW ok \in {"true", "false"}, NEW first, NEW result, Free(result)
  PROVE  LET T == Answer(result, ok, first) IN
         T \in Seq(Lex) /\ KeyHas(T, "success", {Prim(ok)})
<1> DEFINE vals == {Prim(ok)}
           marks == {Str("success")}
           W == {Member("success", <<v>>) : v \in vals}
<1>1. \A v \in vals : v \in Lex /\ v # Str("success")
  BY ValsFacts, StrIs
<1>2. "success" \in Vals
  BY ValsFacts DEF Reserved
<1>3. W \in SUBSET Seq(Lex)
  BY <1>1, <1>2, MemberType DEF Lex
<1>4. marks \cap Punctuation = {} /\ Str("result") \notin marks
  BY StrIs
<1>5. Text(Vals, Member("success", <<Prim(ok)>>), marks, W)
  <2>1. Member("success", <<Prim(ok)>>) \in W
    OBVIOUS
  <2> HIDE DEF W
  <2> QED BY <1>3, <2>1, TextWindow DEF Lex
<1>6. Text(Vals, result, marks, W)
  BY <1>3 DEF Free
<1> HIDE DEF W, marks, vals
<1>7. Text(Vals, Answer(result, ok, first), marks, W)
  BY <1>3, <1>4, <1>5, <1>6, AnswerText
<1> QED BY <1>1, <1>2, <1>7, MemberKey DEF Lex, marks, W, vals

\* The parts of the answers.
LEMMA FreeParts ==
  /\ \A v \in Vals : v # "success" => Free(<<Str(v)>>)
  /\ \A key \in Vals : \A t : key # "success" /\ Free(t) => Free(Member(key, t))
  /\ \A r : r.id \in Ids /\ r.host \in Names => Free(Item(r))
<1> DEFINE marks == {Str("success")}
<1>0. marks \cap Punctuation = {} /\ \A v : v # "success" => Str(v) \notin marks
  BY StrIs
<1>1. ASSUME NEW v \in Vals, v # "success" PROVE Free(<<Str(v)>>)
  <2>1. Str(v) \in Lex /\ Str(v) \notin marks
    BY <1>0, <1>1, ValsFacts
  <2> HIDE DEF marks
  <2>2. \A W \in SUBSET Seq(Lex) : Text(Vals, <<Str(v)>>, marks, W)
    BY <2>1, TextOne DEF Lex
  <2> QED BY <2>2 DEF Free, marks
<1>2. ASSUME NEW key \in Vals, NEW t, key # "success", Free(t) PROVE Free(Member(key, t))
  <2>1. Str(key) \notin marks
    BY <1>0, <1>2
  <2>2. ASSUME NEW W \in SUBSET Seq(Lex) PROVE Text(Vals, Member(key, t), marks, W)
    <3>1. Text(Vals, t, marks, W)
      BY <1>2 DEF Free
    <3> HIDE DEF marks
    <3> QED BY <1>0, <2>1, <3>1, TextBuilt DEF Lex
  <2> QED BY <2>2 DEF Free
<1>3. ASSUME NEW r, r.id \in Ids, r.host \in Names PROVE Free(Item(r))
  <2>1. r.id \in Vals /\ r.id # "success" /\ r.host \in Vals /\ r.host # "success" /\ "id" \in Vals /\ "name" \in Vals
    BY <1>3, ValsFacts DEF Reserved
  <2>2. Free(Member("id", <<Str(r.id)>>)) /\ Free(Member("name", <<Str(r.host)>>))
    BY <1>1, <1>2, <2>1
  <2>3. ASSUME NEW W \in SUBSET Seq(Lex) PROVE Text(Vals, Item(r), marks, W)
    <3>1. Text(Vals, Member("id", <<Str(r.id)>>), marks, W) /\ Text(Vals, Member("name", <<Str(r.host)>>), marks, W)
      BY <2>2 DEF Free
    <3> HIDE DEF marks
    <3> QED BY <1>0, <3>1, ItemText
  <2> QED BY <2>3 DEF Free
<1> QED BY <1>1, <1>2, <1>3

\* So has the answer of Yandex to an update.
LEMMA YandexDoneText ==
  ASSUME NEW ok \in {"ok", "error"}
  PROVE  LET T == Object(<<Member("record", <<Str("record")>>), Member("success", <<Str(ok)>>)>>) IN
         T \in Seq(Lex) /\ KeyHas(T, "success", {Str(ok)})
<1> DEFINE vals == {Str(ok)}
           marks == {Str("success")}
           W == {Member("success", <<v>>) : v \in vals}
<1>0. ok \in Vals /\ ok # "success" /\ "success" \in Vals /\ "record" \in Vals
  BY ValsFacts DEF Reserved
<1>1. \A v \in vals : v \in Lex /\ v # Str("success")
  BY <1>0, ValsFacts, StrIs
<1>3. W \in SUBSET Seq(Lex)
  BY <1>0, <1>1, MemberType DEF Lex
<1>4. marks \cap Punctuation = {} /\ Str("record") \notin marks
  BY StrIs
<1>5. Text(Vals, Member("success", <<Str(ok)>>), marks, W)
  <2>1. Member("success", <<Str(ok)>>) \in W
    OBVIOUS
  <2> HIDE DEF W
  <2> QED BY <1>3, <2>1, TextWindow DEF Lex
<1>6. Text(Vals, <<Str("record")>>, marks, W)
  <2>1. Str("record") \in Lex /\ Str("record") \notin marks
    BY <1>0, ValsFacts, StrIs
  <2> QED BY <2>1, TextOne DEF Lex
<1> HIDE DEF W, marks, vals
<1>7. Text(Vals, Member("record", <<Str("record")>>), marks, W)
  BY <1>0, <1>3, <1>4, <1>6, TextBuilt DEF Lex
<1>8. Text(Vals, Object(<<Member("record", <<Str("record")>>), Member("success", <<Str(ok)>>)>>), marks, W)
  BY <1>3, <1>4, <1>5, <1>7, ObjectOfTwo DEF Lex
<1> QED BY <1>0, <1>1, <1>8, MemberKey DEF Lex, marks, W, vals

-----------------------------------------------------------------------------
(* Lists of records *)

\* What is selected of a list: records of it that are wanted, and none only when
\* it has none.
Selects(recs, S, m) ==
  /\ m \in Seq({recs[i] : i \in 1..Len(recs)})
  /\ \A k \in 1..Len(m) : \E i \in 1..Len(recs) : m[k] = recs[i] /\ recs[i] \in S
  /\ Len(m) = 0 => \A i \in 1..Len(recs) : recs[i] \notin S

\* The selection goes over the list from its first record to the last.
LEMMA ThoseSelects ==
  ASSUME NEW R, NEW recs \in Seq(R), NEW W
  PROVE  Selects(recs, W, Those(recs, W))
<1> DEFINE N == Len(recs)
           Q == {recs[i] : i \in 1..N}
           S == Seq(Q)
           Fits(i) == recs[i] \in W
           Body(u, n) == u \o (IF Fits(n) THEN <<recs[n]>> ELSE <<>>)
           step == [x \in S \X (1..N) |-> Body(x[1], x[2])]
           Is(g) == g = [n \in 0..N |-> IF n = 0 THEN <<>> ELSE Body(g[n - 1], n)]
<1>1. N \in Nat /\ <<>> \in S
  OBVIOUS
<1>2. ASSUME NEW u \in S, NEW n \in 1..N PROVE Body(u, n) \in S
  <2>1. <<recs[n]>> \in S /\ <<>> \in S
    <3>1. recs[n] \in Q
      OBVIOUS
    <3> HIDE DEF Q
    <3> QED BY <3>1
  <2> DEFINE t == IF Fits(n) THEN <<recs[n]>> ELSE <<>>
  <2>2. t \in S
    <3> HIDE DEF S, Fits
    <3> QED BY <2>1
  <2> HIDE DEF t, Q
  <2>3. u \o t \in S
    BY <2>2
  <2> QED BY <2>3 DEF t
<1> HIDE DEF S, Fits
<1>3. step \in [S \X (1..N) -> S]
  <2>1. ASSUME NEW x \in S \X (1..N) PROVE Body(x[1], x[2]) \in S
    <3>1. x[1] \in S /\ x[2] \in 1..N
      OBVIOUS
    <3> HIDE DEF Body, N
    <3> QED BY <1>2, <3>1, Zenon
  <2> HIDE DEF Body
  <2> QED BY <2>1
<1>4. PICK g : Iterates(g, S, N, <<>>, step)
  <2> HIDE DEF step, N
  <2> QED BY <1>1, <1>3, Recursion
<1>5. g \in [0..N -> S] /\ g[0] = <<>>
  BY <1>4 DEF Iterates
<1>6. ASSUME NEW n \in 1..N PROVE g[n] = Body(g[n - 1], n)
  <2> HIDE DEF Body, N
  <2>1. n - 1 \in 0..N
    BY <1>1
  <2>2. <<g[n - 1], n>> \in S \X (1..N)
    BY <1>5, <2>1
  <2>3. step[<<g[n - 1], n>>] = Body(g[n - 1], n)
    BY <2>2
  <2> QED BY <1>4, <2>3 DEF Iterates
<1>7. Is(g)
  <2> HIDE DEF Body
  <2> DEFINE h == [n \in 0..N |-> IF n = 0 THEN <<>> ELSE Body(g[n - 1], n)]
  <2>1. ASSUME NEW n \in 0..N PROVE g[n] = h[n]
    <3>1. h[n] = IF n = 0 THEN <<>> ELSE Body(g[n - 1], n)
      OBVIOUS
    <3> QED BY <1>1, <1>5, <1>6, <3>1
  <2>2. g = [n \in 0..N |-> g[n]] /\ h = [n \in 0..N |-> h[n]]
    BY <1>5
  <2> HIDE DEF N, h
  <2>3. g = h
    BY <2>1, <2>2, Zenon
  <2> QED BY <2>3 DEF h
<1> DEFINE at == CHOOSE h : Is(h)
<1>8. Those(recs, W) = at[N]
  BY Zenon DEF Those, Fits
<1>9. Is(at)
  <2> HIDE DEF Is
  <2> QED BY <1>7
<1>10. at = [n \in 0..N |-> IF n = 0 THEN <<>> ELSE Body(at[n - 1], n)]
  <2> HIDE DEF Body, N, at
  <2> QED BY <1>9
<1> HIDE DEF at, Is
<1>11. at[0] = <<>> /\ \A n \in 1..N : at[n] = Body(at[n - 1], n)
  <2> HIDE DEF N, Body
  <2> QED BY <1>1, <1>10
<1> DEFINE Good(m, n) ==
             /\ m \in Seq(Q)
             /\ \A k \in 1..Len(m) : \E i \in 1..N : m[k] = recs[i] /\ Fits(i)
             /\ Len(m) = 0 => \A i \in 1..n : ~Fits(i)
           I == {n \in 0..N : Good(at[n], n)}
<1>12. 0 \in I
  <2>1. <<>> \in Seq(Q) /\ Len(<<>>) = 0 /\ 1..0 = {}
    OBVIOUS
  <2>2. Good(<<>>, 0)
    <3> HIDE DEF Q, N
    <3> QED BY <2>1
  <2> HIDE DEF Good, N
  <2> QED BY <1>1, <1>11, <2>2
<1>13. ASSUME NEW n \in 0..(N - 1), n \in I PROVE n + 1 \in I
  <2> HIDE DEF N
  <2>0. n + 1 \in 1..N /\ n + 1 \in 0..N /\ (n + 1) - 1 = n /\ \A i \in 1..(n + 1) : i \in 1..n \/ i = n + 1
    BY <1>1
  <2>1. at[n + 1] = Body(at[n], n + 1) /\ Good(at[n], n)
    <3> HIDE DEF Body, Good
    <3> QED BY <1>11, <1>13, <2>0
  <2> DEFINE m == at[n]
             l == at[n + 1]
  <2>a. m \in Seq(Q) /\ recs[n + 1] \in Q /\ Len(m) \in Nat
    BY <2>0, <2>1
  <2>2. CASE Fits(n + 1)
    <3>1. l = m \o <<recs[n + 1]>>
      BY <2>1, <2>2
    <3> HIDE DEF m, l, Q
    <3>2. l \in Seq(Q) /\ Len(l) = Len(m) + 1 /\ l[Len(m) + 1] = recs[n + 1] /\ \A k \in 1..Len(m) : l[k] = m[k]
      BY <2>a, <3>1
    <3>3. ASSUME NEW k \in 1..Len(l) PROVE \E i \in 1..N : l[k] = recs[i] /\ Fits(i)
      <4>1. CASE k \in 1..Len(m)
        BY <2>1, <3>2, <4>1 DEF m
      <4>2. CASE k = Len(m) + 1
        BY <2>0, <2>2, <3>2, <4>2
      <4> QED BY <2>a, <3>2, <4>1, <4>2
    <3>4. Len(l) # 0
      BY <2>a, <3>2
    <3>5. Good(l, n + 1)
      BY <3>2, <3>3, <3>4
    <3> QED BY <2>0, <3>5 DEF l
  <2>3. CASE ~Fits(n + 1)
    <3>1. l = m \o <<>>
      BY <2>1, <2>3
    <3> HIDE DEF m, l, Q
    <3>2. l = m
      BY <2>a, <3>1
    <3>3. Good(m, n)
      BY <2>1 DEF m
    <3>4. Good(l, n + 1)
      BY <2>0, <2>3, <3>2, <3>3
    <3> QED BY <2>0, <3>4 DEF l
  <2> QED BY <2>2, <2>3
<1> HIDE DEF I, Good
<1>14. N \in I
  <2> HIDE DEF N
  <2>1. \A n \in 0..N : n \in I
    BY <1>1, <1>12, <1>13, Upto
  <2> QED BY <1>1, <2>1
<1>15. Good(at[N], N)
  BY <1>14 DEF I
<1> QED BY <1>8, <1>15 DEF Selects, Good, Fits

\* The records a query asks for, in the order of the zone: those of the name and
\* of a type, and of those the ones of a domain.
SelectsNamed(recs, host, types, m) ==
  /\ m \in Seq({recs[i] : i \in 1..Len(recs)})
  /\ \A k \in 1..Len(m) :
       \E i \in 1..Len(recs) : m[k] = recs[i] /\ recs[i].host = host /\ recs[i].type \in types
  /\ Len(m) = 0 => \A i \in 1..Len(recs) : ~(recs[i].host = host /\ recs[i].type \in types)
LEMMA MatchingSelects ==
  ASSUME NEW R, NEW recs \in Seq(R), NEW host, NEW types
  PROVE  SelectsNamed(recs, host, types, Matching(recs, host, types))
<1> DEFINE W == {r \in ToSet(recs) : r.host = host /\ r.type \in types}
<1>1. \A i \in 1..Len(recs) : recs[i] \in W <=> recs[i].host = host /\ recs[i].type \in types
  BY DEF ToSet
<1> HIDE DEF W
<1>2. Selects(recs, W, Those(recs, W))
  BY ThoseSelects
<1>3. Matching(recs, host, types) = Those(recs, W)
  BY DEF Matching, W
<1> QED BY <1>1, <1>2, <1>3 DEF Selects, SelectsNamed

\* The records of a domain.
LEMMA InDomainSelects ==
  ASSUME NEW R, NEW recs \in Seq(R), NEW d
  PROVE  /\ InDomain(recs, d) \in Seq({recs[i] : i \in 1..Len(recs)})
         /\ \A k \in 1..Len(InDomain(recs, d)) :
              \E i \in 1..Len(recs) : InDomain(recs, d)[k] = recs[i] /\ recs[i].domain = d
<1> DEFINE W == {r \in ToSet(recs) : r.domain = d}
<1>1. \A i \in 1..Len(recs) : recs[i] \in W => recs[i].domain = d
  OBVIOUS
<1> HIDE DEF W
<1>2. Selects(recs, W, Those(recs, W))
  BY ThoseSelects
<1>3. InDomain(recs, d) = Those(recs, W)
  BY DEF InDomain, W
<1> QED BY <1>1, <1>2, <1>3 DEF Selects

-----------------------------------------------------------------------------
(* The walk of yandex.c *)

\* The state of the walk, and the walk as a function of the lexemes.
Steps(state, sub, type, idkey, id0) ==
  [state |-> state, sub |-> sub, type |-> type, idkey |-> idkey, id |-> id0]
WalkSet(V) ==
  [state : {"unknown", "records", "record_id"}, sub : {"none", "keyword", "value"},
   type : {"none", "keyword", "value"}, idkey : {0, 1}, id : V \cup {"0"}]
WalkLex(w, lex, host) == WalkOn(w, [type |-> LexType(lex), v |-> LexValue(lex)], host)
Walks(T, host, W) ==
  /\ W[1] = Walk0
  /\ \A i \in 2..Len(T) : W[i] = IF IsCounted(T[i]) THEN WalkLex(W[i - 1], T[i], host) ELSE W[i - 1]

\* A step looks at the type and the value of the token only.
LEMMA WalkLexIs ==
  ASSUME NEW w, NEW tok, NEW lex, Writes(tok, lex), NEW host
  PROVE  WalkOn(w, tok, host) = WalkLex(w, lex, host)
<1> DEFINE t == [type |-> LexType(lex), v |-> LexValue(lex)]
<1>1. tok.type = t.type /\ tok.v = t.v
  BY DEF Writes
<1> HIDE DEF t
<1>2. \A s : IsString(tok, s) = IsString(t, s)
  BY <1>1 DEF IsString
<1>3. WalkValue(w, tok, host) = WalkValue(w, t, host)
  BY <1>1, <1>2 DEF WalkValue
<1>4. WalkToken(w, tok, host) = WalkToken(w, t, host)
  BY <1>1, <1>2, <1>3 DEF WalkToken
<1> QED BY <1>4 DEF WalkOn, WalkLex, t

\* One turn of get_record_id() keeps the types.
LEMMA WalkType ==
  ASSUME NEW V, NEW w \in WalkSet(V), NEW tok \in TokenSet(V), NEW host
  PROVE  WalkOn(w, tok, host) \in WalkSet(V)
<1>0. tok.v \in V
  BY DEF TokenSet
<1>1. WalkValue(w, tok, host) \in WalkSet(V)
  BY <1>0 DEF WalkValue, WalkSet
<1>a. /\ [w EXCEPT !.state = "record_id"] \in WalkSet(V) /\ [w EXCEPT !.state = "records"] \in WalkSet(V)
      /\ [w EXCEPT !.sub = "none", !.type = "none", !.idkey = 0] \in WalkSet(V)
      /\ [w EXCEPT !.sub = "keyword"] \in WalkSet(V) /\ [w EXCEPT !.type = "keyword"] \in WalkSet(V)
      /\ [w EXCEPT !.idkey = 1] \in WalkSet(V)
  BY DEF WalkSet
<1>2. WalkToken(w, tok, host) \in WalkSet(V)
  BY <1>1, <1>a, Zenon DEF WalkToken
<1> QED BY <1>2 DEF WalkOn

\* The recursion of the walk.
WalkRun(toks, host, w) ==
  /\ w[0] = Walk0 /\ (1 \in 1..Len(toks) => w[1] = Walk0)
  /\ \A n \in 2..Len(toks) : w[n] = WalkOn(w[n - 1], toks[n], host)

\* The walk is the run of these turns over the tokens.
LEMMA WalkRuns ==
  ASSUME NEW V, NEW toks \in Seq(TokenSet(V)), NEW host
  PROVE  WalkRun(toks, host, Walk(toks, host))
<1> DEFINE N == Len(toks)
           S == WalkSet(V)
           Body(w, n) == IF n < 2 THEN Walk0 ELSE WalkOn(w, toks[n], host)
           step == [x \in S \X (1..N) |-> Body(x[1], x[2])]
           Is(g) == g = [n \in 0..N |-> Body(g[n - 1], n)]
<1>1. N \in Nat /\ Walk0 \in S
  BY DEF Walk0, WalkSet
<1>2. ASSUME NEW u \in S, NEW n \in 1..N PROVE Body(u, n) \in S
  <2>1. toks[n] \in TokenSet(V)
    OBVIOUS
  <2>2. WalkOn(u, toks[n], host) \in S
    BY <2>1, WalkType
  <2> HIDE DEF S
  <2> QED BY <1>1, <2>2
<1> HIDE DEF S
<1>3. step \in [S \X (1..N) -> S]
  <2>1. ASSUME NEW x \in S \X (1..N) PROVE Body(x[1], x[2]) \in S
    <3>1. x[1] \in S /\ x[2] \in 1..N
      OBVIOUS
    <3> HIDE DEF Body, N
    <3> QED BY <1>2, <3>1, Zenon
  <2> HIDE DEF Body
  <2> QED BY <2>1
<1>4. PICK g : Iterates(g, S, N, Walk0, step)
  <2> HIDE DEF step, N
  <2> QED BY <1>1, <1>3, Recursion
<1>5. g \in [0..N -> S] /\ g[0] = Walk0
  BY <1>4 DEF Iterates
<1>6. ASSUME NEW n \in 1..N PROVE g[n] = Body(g[n - 1], n)
  <2> HIDE DEF Body, N
  <2>1. n - 1 \in 0..N
    BY <1>1
  <2>2. <<g[n - 1], n>> \in S \X (1..N)
    BY <1>5, <2>1
  <2>3. step[<<g[n - 1], n>>] = Body(g[n - 1], n)
    BY <2>2
  <2> QED BY <1>4, <2>3 DEF Iterates
<1>7. Is(g)
  <2> DEFINE h == [n \in 0..N |-> Body(g[n - 1], n)]
  <2>0. Body(g[0 - 1], 0) = Walk0
    OBVIOUS
  <2> HIDE DEF Body
  <2>1. ASSUME NEW n \in 0..N PROVE g[n] = h[n]
    <3>1. h[n] = Body(g[n - 1], n)
      OBVIOUS
    <3>2. CASE n = 0
      BY <1>5, <2>0, <3>1, <3>2
    <3>3. CASE n \in 1..N
      BY <1>6, <3>1, <3>3
    <3> QED BY <1>1, <3>2, <3>3
  <2>2. g = [n \in 0..N |-> g[n]] /\ h = [n \in 0..N |-> h[n]]
    BY <1>5
  <2> HIDE DEF N, h
  <2>3. g = h
    BY <2>1, <2>2, Zenon
  <2> QED BY <2>3 DEF h
<1> DEFINE at == CHOOSE h : Is(h)
<1>8. Walk(toks, host) = at
  BY Zenon DEF Walk
<1>9. Is(at)
  <2> HIDE DEF Is
  <2> QED BY <1>7
<1>10. at = [n \in 0..N |-> Body(at[n - 1], n)]
  <2> HIDE DEF Body, N, at
  <2> QED BY <1>9
<1> HIDE DEF at, Is
<1>11. \A n \in 0..N : at[n] = Body(at[n - 1], n)
  <2> HIDE DEF N, Body
  <2> QED BY <1>10
<1>12. WalkRun(toks, host, at)
  <2>1. 0 \in 0..N /\ (1 \in 1..Len(toks) => 1 \in 0..N) /\ \A n \in 2..Len(toks) : n \in 0..N /\ ~(n < 2)
    BY <1>1
  <2> QED BY <1>11, <2>1 DEF WalkRun
<1> QED BY <1>8, <1>12

\* The walk over the tokens of a whole answer is one over its lexemes.
LEMMA WalkByLex ==
  ASSUME NEW V, NEW T, Whole(V, T), NEW host
  PROVE  \E W : Walks(T, host, W) /\ W[Len(T)] = Walk(GetTokens(T), host)[Len(GetTokens(T))]
<1> DEFINE N == Len(T)
           at == Loop(T)
           toks == at[N].toks
           w == Walk(toks, host)
           W == [i \in 0..N |-> w[Len(at[i].toks)]]
<1>1. "nil" \in V /\ T \in Seq(Lexemes(V)) /\ N \in Nat /\ N >= 1 /\ T[1] = LBrace /\ Runs(V, T, at)
  BY LoopRuns DEF Whole
<1>2. /\ GetTokens(T) = toks /\ ParseJson(T) = toks /\ Len(toks) \in Nat
      /\ \A i \in 1..N : IsCounted(T[i]) => Wrote(T, at, Len(at[i].toks), i)
  BY WholeTokens
<1>3. toks \in Seq(TokenSet(V))
  BY <1>1, <1>2, TokensType
<1> HIDE DEF at, w, toks
<1>4. WalkRun(toks, host, w)
  BY <1>3, WalkRuns DEF w
<1>5. ASSUME NEW i \in 1..N PROVE at[i].rc = "OK" /\ i - 1 \in 0..N /\ Len(at[i].toks) \in Nat /\ Len(at[i - 1].toks) \in Nat
  <2>1. N \in i..N /\ i \in 0..N /\ i - 1 \in 0..N
    BY <1>1
  <2>2. Later(at[N], at[i])
    BY <1>1, <2>1, RunsLater
  <2>3. at[N].rc = "OK"
    BY DEF Whole, at
  <2>4. at[i] \in ParserSet(V) /\ at[i - 1] \in ParserSet(V)
    BY <1>1, <2>1 DEF Runs
  <2>5. Len(at[i].toks) \in Nat /\ Len(at[i - 1].toks) \in Nat
    BY <2>4, ParserParts
  <2> QED BY <2>1, <2>2, <2>3, <2>5 DEF Later
<1>6. Len(at[1].toks) = 1 /\ 1 \in 1..Len(toks)
  <2>1. 1 \in 1..N /\ 1 - 1 = 0 /\ N \in 1..N
    BY <1>1
  <2>2. Wrote(T, at, Len(at[1].toks), 1)
    BY <1>1, <1>2, <2>1, LexFacts
  <2>3. at[0] = Start /\ Start.toks = <<>>
    BY <1>1 DEF Runs, Start
  <2> DEFINE x == Len(at[1].toks)
             y == Len(at[0].toks)
  <2>4. x \in Nat /\ y = x - 1 /\ y = 0
    BY <2>1, <2>2, <2>3 DEF Wrote
  <2>5. Len(at[1].toks) \in 1..Len(toks)
    BY <1>1, <2>1, <2>2, WroteStays DEF toks
  <2> HIDE DEF x, y
  <2>6. x = 1
    BY <2>4
  <2> QED BY <2>5, <2>6 DEF x
<1>7. W[1] = Walk0
  <2>1. 1 \in 0..N
    BY <1>1
  <2> QED BY <1>4, <1>6, <2>1 DEF WalkRun
<1>8. ASSUME NEW i \in 2..N PROVE W[i] = IF IsCounted(T[i]) THEN WalkLex(W[i - 1], T[i], host) ELSE W[i - 1]
  <2>0. i \in 1..N /\ i \in 0..N /\ i - 1 \in 0..N /\ i - 1 \in 1..N
    BY <1>1
  <2> DEFINE k == Len(at[i].toks)
             l == Len(at[i - 1].toks)
  <2>1. W[i] = w[k] /\ W[i - 1] = w[l]
    BY <2>0
  <2>2. k \in Nat /\ l \in Nat /\ at[i - 1].rc = "OK"
    BY <1>5, <2>0
  <2> HIDE DEF W
  <2>3. CASE IsCounted(T[i])
    <3>1. Wrote(T, at, k, i)
      BY <1>2, <2>0, <2>3
    <3>2. l = k - 1
      BY <3>1 DEF Wrote
    <3>3. k \in 1..Len(toks) /\ Writes(toks[k], T[i])
      <4>1. N \in i..N
        BY <1>1
      <4> QED BY <1>1, <3>1, <4>1, WroteStays DEF toks
    <3>4. l >= 1
      <4>1. 1 \in 0..N /\ i - 1 \in 1..N
        BY <1>1, <2>0
      <4>2. Later(at[i - 1], at[1])
        BY <1>1, <4>1, RunsLater
      <4> QED BY <1>6, <4>2 DEF Later, Continues
    <3> HIDE DEF k, l
    <3>5. k \in 2..Len(toks)
      BY <2>2, <3>2, <3>3, <3>4
    <3>6. w[k] = WalkOn(w[l], toks[k], host)
      BY <1>4, <3>2, <3>5 DEF WalkRun
    <3>7. w[k] = WalkLex(w[l], T[i], host)
      BY <3>3, <3>6, WalkLexIs
    <3> QED BY <2>1, <2>3, <3>7
  <2>4. CASE ~IsCounted(T[i])
    <3>1. Advances(at[i], at[i - 1], T[i])
      BY <1>1, <2>0, <2>2, RunsStep
    <3>2. k = l
      BY <2>4, <3>1 DEF Advances
    <3> QED BY <2>1, <2>4, <3>2
  <2> QED BY <2>3, <2>4
<1>9. W[N] = w[Len(toks)]
  BY <1>1 DEF toks
<1>10. Walks(T, host, W)
  <2> HIDE DEF W
  <2> QED BY <1>7, <1>8 DEF Walks
<1> HIDE DEF W
<1> QED BY <1>2, <1>9, <1>10 DEF w

Flags == {"none", "keyword", "value"}

\* A walk is made of its five parts.
LEMMA StepsIs ==
  /\ \A V : \A u \in WalkSet(V) : u = Steps(u.state, u.sub, u.type, u.idkey, u.id)
  /\ \A V : \A state \in {"unknown", "records", "record_id"} : \A s, t \in Flags : \A k \in {0, 1} : \A i \in V \cup {"0"} :
       LET u == Steps(state, s, t, k, i) IN
       u \in WalkSet(V) /\ u.state = state /\ u.sub = s /\ u.type = t /\ u.idkey = k /\ u.id = i
<1>1. \A V : \A u \in WalkSet(V) : u = Steps(u.state, u.sub, u.type, u.idkey, u.id)
  BY DEF WalkSet, Steps
<1>2. \A V : \A state \in {"unknown", "records", "record_id"} : \A s, t \in Flags : \A k \in {0, 1} : \A i \in V \cup {"0"} :
        LET u == Steps(state, s, t, k, i) IN
        u \in WalkSet(V) /\ u.state = state /\ u.sub = s /\ u.type = t /\ u.idkey = k /\ u.id = i
  BY DEF WalkSet, Steps, Flags
<1> QED BY <1>1, <1>2

\* One step of the walk, among the records.
StepsRight(V, s, t, k, i, host) ==
  LET w == Steps("record_id", s, t, k, i) IN
  /\ WalkLex(w, LBrace, host) = Steps("record_id", "none", "none", 0, i)
  /\ WalkLex(w, Str("record_id"), host) = Steps("record_id", s, t, 1, i)
  /\ WalkLex(w, Str("type"), host) = Steps("record_id", s, "keyword", k, i)
  /\ WalkLex(w, Str("subdomain"), host) = Steps("record_id", "keyword", t, k, i)
  /\ \A v \in V : WalkLex(w, Prim(v), host) = Steps("record_id", s, t, 0, IF k = 1 THEN v ELSE i)
  /\ \A v \in V : v \notin {"records", "subdomain", "type", "record_id"} =>
       WalkLex(w, Str(v), host) =
         Steps("record_id", IF s = "keyword" /\ v = host THEN "value" ELSE s,
               IF t = "keyword" /\ v = "A" THEN "value" ELSE t, 0, IF k = 1 THEN v ELSE i)

\* What the turn does for each lexeme of Yandex's answer.
LEMMA WalkLexSteps ==
  ASSUME NEW V, Reserved \subseteq V, NEW s \in Flags, NEW t \in Flags, NEW k \in {0, 1}, NEW i \in V \cup {"0"},
         ~(s = "value" /\ t = "value" /\ i # "0"), NEW host
  PROVE  StepsRight(V, s, t, k, i, host)
<1> DEFINE w == Steps("record_id", s, t, k, i)
<1>1. w \in WalkSet(V) /\ w.state = "record_id" /\ w.sub = s /\ w.type = t /\ w.idkey = k /\ w.id = i
  BY DEF WalkSet, Steps, Flags
<1> HIDE DEF w
<1>0. ~WalkDone(w)
  BY <1>1 DEF WalkDone
<1>2. \A lex : WalkLex(w, lex, host) = WalkToken(w, [type |-> LexType(lex), v |-> LexValue(lex)], host)
  BY <1>0 DEF WalkLex, WalkOn
<1>3. WalkLex(w, LBrace, host) = Steps("record_id", "none", "none", 0, i)
  <2> DEFINE o == [type |-> "object", v |-> "nil"]
             u == [w EXCEPT !.sub = "none", !.type = "none", !.idkey = 0]
  <2>1. WalkLex(w, LBrace, host) = WalkToken(w, o, host)
    BY <1>2, LexFacts
  <2>2. o.type = "object"
    OBVIOUS
  <2> HIDE DEF o
  <2>3. WalkToken(w, o, host) = u
    BY <1>1, <2>2 DEF WalkToken
  <2>4. u \in WalkSet(V) /\ u.state = "record_id" /\ u.sub = "none" /\ u.type = "none" /\ u.idkey = 0 /\ u.id = i
    BY <1>1 DEF WalkSet
  <2> HIDE DEF u
  <2>5. u = Steps(u.state, u.sub, u.type, u.idkey, u.id)
    BY <2>4, StepsIs
  <2> QED BY <2>1, <2>3, <2>4, <2>5
<1>4. ASSUME NEW v \in V
      PROVE  /\ v = "record_id" => WalkLex(w, Str(v), host) = Steps("record_id", s, t, 1, i)
             /\ v = "type" => WalkLex(w, Str(v), host) = Steps("record_id", s, "keyword", k, i)
             /\ v = "subdomain" => WalkLex(w, Str(v), host) = Steps("record_id", "keyword", t, k, i)
             /\ v \notin {"records", "subdomain", "type", "record_id"} =>
                WalkLex(w, Str(v), host) =
                  Steps("record_id", IF s = "keyword" /\ v = host THEN "value" ELSE s,
                        IF t = "keyword" /\ v = "A" THEN "value" ELSE t, 0, IF k = 1 THEN v ELSE i)
  <2> DEFINE o == [type |-> "string", v |-> v]
             u1 == [w EXCEPT !.idkey = 1]
             u2 == [w EXCEPT !.type = "keyword"]
             u3 == [w EXCEPT !.sub = "keyword"]
             u4 == WalkValue(w, o, host)
             sub == IF s = "keyword" /\ v = host THEN "value" ELSE s
             type == IF t = "keyword" /\ v = "A" THEN "value" ELSE t
             id0 == IF k = 1 THEN v ELSE i
  <2>1. WalkLex(w, Str(v), host) = WalkToken(w, o, host)
    BY <1>2, LexFacts
  <2>2. o.type = "string" /\ o.v = v /\ \A x : IsString(o, x) <=> v = x
    BY DEF IsString
  <2> HIDE DEF o
  <2>3. /\ v = "record_id" => WalkToken(w, o, host) = u1
        /\ v = "type" => WalkToken(w, o, host) = u2
        /\ v = "subdomain" => WalkToken(w, o, host) = u3
        /\ v \notin {"records", "subdomain", "type", "record_id"} => WalkToken(w, o, host) = u4
    <3> HIDE DEF u4
    <3> QED BY <1>1, <2>2 DEF WalkToken, u4
  <2>4. u4 \in WalkSet(V) /\ u4.state = "record_id" /\ u4.sub = sub /\ u4.type = type /\ u4.idkey = 0 /\ u4.id = id0
    <3>1. u4 = [w EXCEPT !.sub = sub, !.type = type, !.id = id0, !.idkey = 0]
      BY <1>1, <2>2 DEF WalkValue
    <3>2. sub \in Flags /\ type \in Flags /\ id0 \in V \cup {"0"}
      BY DEF Flags
    <3> HIDE DEF sub, type, id0, u4
    <3> QED BY <1>1, <3>1, <3>2 DEF WalkSet, Flags
  <2>5. /\ u1 \in WalkSet(V) /\ u1.state = "record_id" /\ u1.sub = s /\ u1.type = t /\ u1.idkey = 1 /\ u1.id = i
        /\ u2 \in WalkSet(V) /\ u2.state = "record_id" /\ u2.sub = s /\ u2.type = "keyword" /\ u2.idkey = k /\ u2.id = i
        /\ u3 \in WalkSet(V) /\ u3.state = "record_id" /\ u3.sub = "keyword" /\ u3.type = t /\ u3.idkey = k /\ u3.id = i
    BY <1>1 DEF WalkSet
  <2> HIDE DEF u1, u2, u3, u4, sub, type, id0
  <2>6. /\ u1 = Steps(u1.state, u1.sub, u1.type, u1.idkey, u1.id)
        /\ u2 = Steps(u2.state, u2.sub, u2.type, u2.idkey, u2.id)
        /\ u3 = Steps(u3.state, u3.sub, u3.type, u3.idkey, u3.id)
        /\ u4 = Steps(u4.state, u4.sub, u4.type, u4.idkey, u4.id)
    BY <2>4, <2>5, StepsIs
  <2>7. /\ u1 = Steps("record_id", s, t, 1, i) /\ u2 = Steps("record_id", s, "keyword", k, i)
        /\ u3 = Steps("record_id", "keyword", t, k, i) /\ u4 = Steps("record_id", sub, type, 0, id0)
    BY <2>4, <2>5, <2>6
  <2>8. v \notin {"records", "subdomain", "type", "record_id"} => WalkLex(w, Str(v), host) = Steps("record_id", sub, type, 0, id0)
    BY <2>1, <2>3, <2>7
  <2> QED BY <2>1, <2>3, <2>7, <2>8 DEF sub, type, id0
<1>5. ASSUME NEW v \in V PROVE WalkLex(w, Prim(v), host) = Steps("record_id", s, t, 0, IF k = 1 THEN v ELSE i)
  <2> DEFINE o == [type |-> "primitive", v |-> v]
             u == WalkValue(w, o, host)
             id0 == IF k = 1 THEN v ELSE i
  <2>1. WalkLex(w, Prim(v), host) = WalkToken(w, o, host)
    BY <1>2, LexFacts
  <2>2. o.type = "primitive" /\ o.v = v /\ \A x : ~IsString(o, x)
    BY DEF IsString
  <2> HIDE DEF o
  <2>3. WalkToken(w, o, host) = u
    <3> HIDE DEF u
    <3> QED BY <1>1, <2>2 DEF WalkToken, u
  <2>4. u \in WalkSet(V) /\ u.state = "record_id" /\ u.sub = s /\ u.type = t /\ u.idkey = 0 /\ u.id = id0
    <3>1. u = [w EXCEPT !.sub = s, !.type = t, !.id = id0, !.idkey = 0]
      BY <1>1, <2>2 DEF WalkValue
    <3>2. id0 \in V \cup {"0"}
      OBVIOUS
    <3> HIDE DEF id0, u
    <3> QED BY <1>1, <3>1, <3>2 DEF WalkSet, Flags
  <2> HIDE DEF u, id0
  <2>5. u = Steps(u.state, u.sub, u.type, u.idkey, u.id)
    BY <2>4, StepsIs
  <2>6. WalkLex(w, Prim(v), host) = Steps("record_id", s, t, 0, id0)
    BY <2>1, <2>3, <2>4, <2>5
  <2> QED BY <2>6 DEF id0
<1> QED
  <2>1. \A v \in V : WalkLex(w, Prim(v), host) = Steps("record_id", s, t, 0, IF k = 1 THEN v ELSE i)
    BY <1>5
  <2>2. "record_id" \in V /\ "type" \in V /\ "subdomain" \in V
    BY DEF Reserved
  <2>3. /\ WalkLex(w, Str("record_id"), host) = Steps("record_id", s, t, 1, i)
        /\ WalkLex(w, Str("type"), host) = Steps("record_id", s, "keyword", k, i)
        /\ WalkLex(w, Str("subdomain"), host) = Steps("record_id", "keyword", t, k, i)
    BY <1>4, <2>2
  <2>4. \A v \in V : v \notin {"records", "subdomain", "type", "record_id"} =>
          WalkLex(w, Str(v), host) =
            Steps("record_id", IF s = "keyword" /\ v = host THEN "value" ELSE s,
                  IF t = "keyword" /\ v = "A" THEN "value" ELSE t, 0, IF k = 1 THEN v ELSE i)
    BY <1>4
  <2> QED BY <1>3, <2>1, <2>3, <2>4 DEF w, StepsRight

\* The head of the answer, and the end of the walk.
LEMMA WalkLexHead ==
  ASSUME NEW host
  PROVE  /\ WalkLex(Walk0, Str("records"), host) = Steps("records", "none", "none", 0, "0")
         /\ WalkLex(Steps("records", "none", "none", 0, "0"), LBracket, host)
              = Steps("record_id", "none", "none", 0, "0")
<1>1. WalkLex(Walk0, Str("records"), host) = Steps("records", "none", "none", 0, "0")
  <2> DEFINE o == [type |-> "string", v |-> "records"]
  <2>1. WalkLex(Walk0, Str("records"), host) = WalkToken(Walk0, o, host)
    BY LexFacts DEF WalkLex, WalkOn, WalkDone, Walk0
  <2>2. o.type = "string" /\ IsString(o, "records")
    BY DEF IsString
  <2> HIDE DEF o
  <2>3. WalkToken(Walk0, o, host) = [Walk0 EXCEPT !.state = "records"]
    BY <2>2 DEF WalkToken
  <2> QED BY <2>1, <2>3 DEF Walk0, Steps
<1>2. WalkLex(Steps("records", "none", "none", 0, "0"), LBracket, host)
        = Steps("record_id", "none", "none", 0, "0")
  <2> DEFINE w == Steps("records", "none", "none", 0, "0")
             o == [type |-> "array", v |-> "nil"]
  <2>1. w.state = "records" /\ ~WalkDone(w)
    BY DEF Steps, WalkDone
  <2>2. WalkLex(w, LBracket, host) = WalkToken(w, o, host)
    BY <2>1, LexFacts DEF WalkLex, WalkOn
  <2>3. o.type = "array"
    OBVIOUS
  <2> HIDE DEF o
  <2>4. WalkToken(w, o, host) = [w EXCEPT !.state = "record_id"]
    BY <2>1, <2>3 DEF WalkToken
  <2> QED BY <2>2, <2>4 DEF Steps
<1> QED BY <1>1, <1>2

\* After the break nothing changes.
LEMMA WalkFrozen ==
  ASSUME NEW T, Len(T) \in Nat, NEW host, NEW W, Walks(T, host, W), NEW o \in 1..Len(T), WalkDone(W[o]), NEW n \in o..Len(T)
  PROVE  W[n] = W[o]
<1> DEFINE N == Len(T)
           I == {m \in 0..N : o <= m => W[m] = W[o]}
<1>1. 0 \in I
  OBVIOUS
<1>2. ASSUME NEW m \in 0..(N - 1), m \in I PROVE m + 1 \in I
  <2>0. m + 1 \in 0..N /\ (m + 1) - 1 = m
    OBVIOUS
  <2>1. CASE o <= m
    <3>1. W[m] = W[o] /\ m + 1 \in 2..N
      BY <1>2, <2>1
    <3>2. \A lex : WalkLex(W[m], lex, host) = W[m]
      BY <3>1 DEF WalkLex, WalkOn
    <3>3. W[m + 1] = W[m]
      BY <2>0, <3>1, <3>2 DEF Walks
    <3> QED BY <2>0, <3>1, <3>3
  <2>2. CASE o = m + 1
    BY <2>0, <2>2
  <2>3. CASE o > m + 1
    BY <2>0, <2>3
  <2> QED BY <2>0, <2>1, <2>2, <2>3
<1> HIDE DEF I
<1>3. \A m \in 0..N : m \in I
  <2> HIDE DEF N
  <2> QED BY <1>1, <1>2, Upto DEF N
<1> QED BY <1>3 DEF I

\* A text leads the walk from w to u, wherever it stands in an answer.
Leads(host, t, w, u) ==
  \A T \in Seq(Lex) : \A W : \A o \in Nat \ {0} :
    Walks(T, host, W) /\ Stands(T, o, t) /\ W[o] = w => W[o + Len(t)] = u

Joined(c, a, b) == a \in Seq(Lex) /\ b \in Seq(Lex) /\ c \in Seq(Lex) /\ c = a \o b

\* A walk over two parts of a text.
LEMMA LeadsCat ==
  ASSUME NEW host, NEW a, NEW b, NEW c, Joined(c, a, b),
         NEW w, NEW u, NEW x, Leads(host, a, w, u), Leads(host, b, u, x)
  PROVE  Leads(host, c, w, x)
<1> SUFFICES ASSUME NEW T \in Seq(Lex), NEW W, NEW o \in Nat \ {0}, Walks(T, host, W), Stands(T, o, c), W[o] = w
             PROVE  W[o + Len(c)] = x
  BY DEF Leads
<1>1. Splits(T, o, a, b, c)
  BY StandsSplit DEF Joined
<1>2. Stands(T, o, a) /\ Stands(T, o + Len(a), b) /\ o + Len(c) = (o + Len(a)) + Len(b) /\ Len(a) \in Nat
  BY <1>1 DEF Splits
<1>3. W[o + Len(a)] = u /\ o + Len(a) \in Nat \ {0}
  BY <1>2 DEF Leads
<1>4. W[(o + Len(a)) + Len(b)] = x
  BY <1>2, <1>3 DEF Leads
<1> QED BY <1>2, <1>4

\* A walk over one lexeme.
LEMMA LeadsOne ==
  ASSUME NEW host, NEW lex, NEW w
  PROVE  /\ IsCounted(lex) => Leads(host, <<lex>>, w, WalkLex(w, lex, host))
         /\ ~IsCounted(lex) => Leads(host, <<lex>>, w, w)
<1> SUFFICES ASSUME NEW T \in Seq(Lex), NEW W, NEW o \in Nat \ {0}, Walks(T, host, W), Stands(T, o, <<lex>>), W[o] = w
             PROVE  W[o + 1] = IF IsCounted(lex) THEN WalkLex(w, lex, host) ELSE w
  <2>1. Len(<<lex>>) = 1
    OBVIOUS
  <2> QED BY <2>1 DEF Leads
<1>1. o + 1 <= Len(T) /\ T[o + 1] = lex
  BY DEF Stands
<1>2. o + 1 \in 2..Len(T) /\ (o + 1) - 1 = o
  BY <1>1
<1> QED BY <1>1, <1>2 DEF Walks

\* A walk that has ended passes over any text.
LEMMA LeadsDone ==
  ASSUME NEW host, NEW w, WalkDone(w), NEW t
  PROVE  Len(t) \in Nat => Leads(host, t, w, w)
<1> SUFFICES ASSUME Len(t) \in Nat, NEW T \in Seq(Lex), NEW W, NEW o \in Nat \ {0}, Walks(T, host, W), Stands(T, o, t), W[o] = w
             PROVE  W[o + Len(t)] = w
  BY DEF Leads
<1>1. Len(T) \in Nat /\ o + Len(t) <= Len(T)
  BY DEF Stands
<1>2. o \in 1..Len(T) /\ o + Len(t) \in o..Len(T)
  BY <1>1
<1>3. WalkDone(W[o])
  OBVIOUS
<1>4. W[o + Len(t)] = W[o]
  BY <1>1, <1>2, <1>3, WalkFrozen
<1> QED BY <1>4

\* A member leads over its key and over its value.
LEMMA LeadsMember ==
  ASSUME NEW host, NEW key \in Vals, NEW t \in Seq(Lex), NEW w, NEW u, Leads(host, t, WalkLex(w, Str(key), host), u)
  PROVE  Leads(host, Member(key, t), w, u) /\ Member(key, t) \in Seq(Lex)
<1>1. Str(key) \in Lex /\ Colon \in Lex
  BY ValsFacts DEF Lex, Lexemes
<1> DEFINE kc == <<Str(key), Colon>>
           x == WalkLex(w, Str(key), host)
<1>2. kc \in Seq(Lex) /\ Len(kc) = 2 /\ kc[1] = Str(key) /\ kc[2] = Colon
  BY <1>1
<1> HIDE DEF kc, x
<1>5. Leads(host, kc, w, x)
  <2> SUFFICES ASSUME NEW T \in Seq(Lex), NEW W, NEW o \in Nat \ {0}, Walks(T, host, W), Stands(T, o, kc), W[o] = w
               PROVE  W[o + 2] = x
    BY <1>2 DEF Leads
  <2>1. o + 2 <= Len(T) /\ T[o + 1] = Str(key) /\ T[o + 2] = Colon
    BY <1>2 DEF Stands
  <2>2. o + 1 \in 2..Len(T) /\ (o + 1) - 1 = o /\ o + 2 \in 2..Len(T) /\ (o + 2) - 1 = o + 1
    BY <2>1
  <2>3. W[o + 1] = x
    BY <2>1, <2>2, LexFacts DEF Walks, x
  <2>4. W[o + 2] = W[o + 1]
    BY <2>1, <2>2, LexFacts DEF Walks
  <2> QED BY <2>3, <2>4
<1>6. Member(key, t) = kc \o t
  BY DEF Member, kc
<1> DEFINE m == Member(key, t)
<1>7. Joined(m, kc, t)
  BY <1>2, <1>6 DEF Joined
<1> HIDE DEF m
<1>8. Leads(host, m, w, u)
  BY <1>5, <1>7, LeadsCat DEF x
<1> QED BY <1>7, <1>8 DEF m, Joined

Joined3(c, a, b, d) == Joined(a \o b, a, b) /\ Joined(c, a \o b, d)

\* A walk over three parts.
LEMMA LeadsThree ==
  ASSUME NEW host, NEW a, NEW b, NEW d, NEW c, Joined3(c, a, b, d),
         NEW w, NEW u, NEW x, NEW y, Leads(host, a, w, u), Leads(host, b, u, x), Leads(host, d, x, y)
  PROVE  Leads(host, c, w, y)
<1> DEFINE ab == a \o b
<1>1. Joined(ab, a, b) /\ Joined(c, ab, d)
  BY DEF Joined3
<1> HIDE DEF ab
<1>2. Leads(host, ab, w, x)
  BY <1>1, LeadsCat
<1> QED BY <1>1, <1>2, LeadsCat

\* Two texts with a comma between them, and a container.
Enclosed(opener, t, closer) == <<opener>> \o t \o <<closer>>

\* A walk over two parts with a comma between them.
LEMMA LeadsComma ==
  ASSUME NEW host, NEW a \in Seq(Lex), NEW b \in Seq(Lex), NEW w, NEW u, NEW x, Leads(host, a, w, u), Leads(host, b, u, x)
  PROVE  Leads(host, Pair(a, b), w, x) /\ Pair(a, b) \in Seq(Lex)
<1> DEFINE m == <<CommaLex>>
<1>1. CommaLex \in Lex
  BY DEF Lex, Lexemes
<1>2. Joined3(Pair(a, b), a, m, b) /\ Pair(a, b) \in Seq(Lex)
  BY <1>1 DEF Joined3, Joined, Pair
<1>3. Leads(host, m, u, u)
  BY LexFacts, LeadsOne
<1> HIDE DEF m
<1> QED BY <1>2, <1>3, LeadsThree

\* A walk over a container.
LEMMA LeadsContainer ==
  ASSUME NEW host, NEW opener \in Lex, IsCounted(opener), NEW closer \in Lex, ~IsCounted(closer), NEW t \in Seq(Lex),
         NEW w, NEW u, Leads(host, t, WalkLex(w, opener, host), u)
  PROVE  Leads(host, Enclosed(opener, t, closer), w, u) /\ Enclosed(opener, t, closer) \in Seq(Lex)
<1> DEFINE l == <<opener>>
           r == <<closer>>
           x == WalkLex(w, opener, host)
           c == Enclosed(opener, t, closer)
<1>2. Joined3(c, l, t, r) /\ c \in Seq(Lex)
  BY DEF Joined3, Joined, Enclosed
<1>3. Leads(host, l, w, x) /\ Leads(host, r, u, u) /\ Leads(host, t, x, u)
  BY LeadsOne
<1> HIDE DEF l, r, x, c
<1> QED BY <1>2, <1>3, LeadsThree DEF c

\* Punctuation is in every answer's alphabet.
LEMMA LexPunctuation == Punctuation \subseteq Lex
BY DEF Punctuation, Lex, Lexemes

\* Objects of two and of three members.
Built(a, b, d) ==
  /\ Object(<<a, b>>) = Enclosed(LBrace, Pair(a, b), RBrace)
  /\ Object(<<a, b, d>>) = Enclosed(LBrace, Pair(Pair(a, b), d), RBrace)

\* An object of three members, written out.
LEMMA ObjectBuilt ==
  ASSUME NEW a \in Seq(Lex), NEW b \in Seq(Lex), NEW d \in Seq(Lex)
  PROVE  Built(a, b, d)
<1>1. CommaLex \in Lex
  BY LexPunctuation DEF Punctuation
<1>4. Commas(<<a, b>>) = Pair(a, b) /\ Commas(<<a, b, d>>) = Pair(Pair(a, b), d)
  <2>1. FewCommas(a, b, d)
    BY <1>1, CommasFew
  <2> QED BY <2>1 DEF FewCommas
<1> QED BY <1>4 DEF Built, Object, Enclosed

Object3(a, b, d) == Object(<<a, b, d>>)

\* A walk over such an object.
LEMMA LeadsObject ==
  ASSUME NEW host, NEW a \in Seq(Lex), NEW b \in Seq(Lex), NEW d \in Seq(Lex), NEW w, NEW w0, NEW w1, NEW w2, NEW w3,
         w0 = WalkLex(w, LBrace, host), Leads(host, a, w0, w1), Leads(host, b, w1, w2), Leads(host, d, w2, w3)
  PROVE  Leads(host, Object3(a, b, d), w, w3) /\ Object3(a, b, d) \in Seq(Lex)
<1> DEFINE ab == Pair(a, b)
           abd == Pair(ab, d)
           c == Enclosed(LBrace, abd, RBrace)
<1>1. LBrace \in Lex /\ RBrace \in Lex /\ IsCounted(LBrace) /\ ~IsCounted(RBrace)
  BY LexPunctuation, LexFacts DEF Punctuation
<1>2. Object3(a, b, d) = c
  BY ObjectBuilt DEF Built, Object3
<1>4. Leads(host, ab, w0, w2) /\ ab \in Seq(Lex)
  BY LeadsComma
<1> HIDE DEF ab
<1>5. Leads(host, abd, w0, w3) /\ abd \in Seq(Lex)
  BY <1>4, LeadsComma
<1> HIDE DEF abd
<1>6. Leads(host, c, w, w3) /\ c \in Seq(Lex)
  BY <1>1, <1>5, LeadsContainer
<1> HIDE DEF c
<1> QED BY <1>2, <1>6

\* A member with a string or a primitive.
LEMMA LeadsValue ==
  ASSUME NEW host, NEW key \in Vals, NEW lex \in Lex, IsCounted(lex), NEW w, NEW u, NEW x,
         u = WalkLex(w, Str(key), host), x = WalkLex(u, lex, host)
  PROVE  Leads(host, Member(key, <<lex>>), w, x) /\ Member(key, <<lex>>) \in Seq(Lex)
<1>1. Leads(host, <<lex>>, u, x) /\ <<lex>> \in Seq(Lex)
  BY LeadsOne
<1> QED BY <1>1, LeadsMember

\* The three members of a record of yandex.
MembersLead(s, t, i, host, v) ==
  LET w == Steps("record_id", s, t, 0, i) IN
  /\ v \in Ids => Leads(host, Member("record_id", <<Prim(v)>>), w, Steps("record_id", s, t, 0, v))
  /\ v \in AnyType /\ s # "keyword" =>
       Leads(host, Member("type", <<Str(v)>>), w,
             Steps("record_id", s, IF v = "A" THEN "value" ELSE "keyword", 0, i))
  /\ v \in Names =>
       Leads(host, Member("subdomain", <<Str(v)>>), w,
             Steps("record_id", IF v = host THEN "value" ELSE "keyword", t, 0, i))

\* What each member of a record does to the flags of the walk.
LEMMA YandexMembers ==
  ASSUME NEW s \in Flags, NEW t \in Flags, NEW i \in Vals \cup {"0"}, ~(s = "value" /\ t = "value" /\ i # "0"),
         NEW host \in Names, NEW v \in Vals
  PROVE  MembersLead(s, t, i, host, v)
<1> DEFINE w == Steps("record_id", s, t, 0, i)
<1>0. Reserved \subseteq Vals /\ {"record_id", "type", "subdomain"} \subseteq Vals /\ Str(v) \in Lex /\ Prim(v) \in Lex
  BY ValsFacts DEF Reserved
<1>a. /\ StepsRight(Vals, s, t, 0, i, host) /\ StepsRight(Vals, s, t, 1, i, host)
      /\ StepsRight(Vals, s, "keyword", 0, i, host) /\ StepsRight(Vals, "keyword", t, 0, i, host)
  <2>1. "keyword" \in Flags /\ "keyword" # "value" /\ 0 \in {0, 1} /\ 1 \in {0, 1}
    BY DEF Flags
  <2> QED BY <1>0, <2>1, WalkLexSteps
<1>1. ASSUME v \in Ids PROVE Leads(host, Member("record_id", <<Prim(v)>>), w, Steps("record_id", s, t, 0, v))
  <2>1. WalkLex(w, Str("record_id"), host) = Steps("record_id", s, t, 1, i)
    BY <1>0, <1>a DEF StepsRight
  <2>2. WalkLex(Steps("record_id", s, t, 1, i), Prim(v), host) = Steps("record_id", s, t, 0, v)
    BY <1>0, <1>a DEF StepsRight
  <2> HIDE DEF w
  <2> QED BY <1>0, <2>1, <2>2, LexFacts, LeadsValue
<1>2. ASSUME v \in AnyType, s # "keyword"
      PROVE  Leads(host, Member("type", <<Str(v)>>), w, Steps("record_id", s, IF v = "A" THEN "value" ELSE "keyword", 0, i))
  <2>1. WalkLex(w, Str("type"), host) = Steps("record_id", s, "keyword", 0, i)
    BY <1>0, <1>a DEF StepsRight
  <2>2. v \notin {"records", "subdomain", "type", "record_id"} /\ "keyword" \in Flags /\ "keyword" # "value"
    BY <1>2 DEF AnyType, Flags
  <2>3. WalkLex(Steps("record_id", s, "keyword", 0, i), Str(v), host)
          = Steps("record_id", IF s = "keyword" /\ v = host THEN "value" ELSE s,
                  IF "keyword" = "keyword" /\ v = "A" THEN "value" ELSE "keyword", 0, IF 0 = 1 THEN v ELSE i)
    BY <1>a, <2>2 DEF StepsRight
  <2>4. WalkLex(Steps("record_id", s, "keyword", 0, i), Str(v), host)
          = Steps("record_id", s, IF v = "A" THEN "value" ELSE "keyword", 0, i)
    BY <1>2, <2>3
  <2> HIDE DEF w
  <2> QED BY <1>0, <2>1, <2>4, LexFacts, LeadsValue
<1>3. ASSUME v \in Names
      PROVE  Leads(host, Member("subdomain", <<Str(v)>>), w, Steps("record_id", IF v = host THEN "value" ELSE "keyword", t, 0, i))
  <2>1. WalkLex(w, Str("subdomain"), host) = Steps("record_id", "keyword", t, 0, i)
    BY <1>0, <1>a DEF StepsRight
  <2>2. v \notin {"records", "subdomain", "type", "record_id", "A"} /\ "keyword" \in Flags /\ "keyword" # "value"
    BY <1>3, ValsFacts DEF Flags, Reserved
  <2>3. WalkLex(Steps("record_id", "keyword", t, 0, i), Str(v), host)
          = Steps("record_id", IF "keyword" = "keyword" /\ v = host THEN "value" ELSE "keyword",
                  IF t = "keyword" /\ v = "A" THEN "value" ELSE t, 0, IF 0 = 1 THEN v ELSE i)
    BY <1>a, <2>2 DEF StepsRight
  <2>4. WalkLex(Steps("record_id", "keyword", t, 0, i), Str(v), host)
          = Steps("record_id", IF v = host THEN "value" ELSE "keyword", t, 0, i)
    BY <2>2, <2>3
  <2> HIDE DEF w
  <2> QED BY <1>0, <2>1, <2>4, LexFacts, LeadsValue
<1> QED BY <1>1, <1>2, <1>3 DEF MembersLead

\* One record of yandex, with record_id first or last.
ItemLeads(s, t, i, host, r, x, y) ==
  LET w == Steps("record_id", s, t, 0, i) IN
  /\ YandexItem(r, FALSE) \in Seq(Lex) /\ YandexItem(r, TRUE) \in Seq(Lex)
  /\ Leads(host, YandexItem(r, FALSE), w, Steps("record_id", x, y, 0, r.id))
  /\ Leads(host, YandexItem(r, TRUE), w,
           Steps("record_id", x, y, 0, IF x = "value" /\ y = "value" /\ i # "0" THEN i ELSE r.id))

\* A record leaves the flags of its name and type, and perhaps its ID.
LEMMA LeadsItem ==
  ASSUME NEW s \in Flags, NEW t \in Flags, NEW i \in Vals \cup {"0"}, ~(s = "value" /\ t = "value" /\ i # "0"),
         NEW host \in Names, NEW r, r.id \in Ids, r.host \in Names, r.type \in AnyType, NEW x, NEW y,
         x = IF r.host = host THEN "value" ELSE "keyword", y = IF r.type = "A" THEN "value" ELSE "keyword"
  PROVE  ItemLeads(s, t, i, host, r, x, y)
<1> DEFINE w == Steps("record_id", s, t, 0, i)
           w0 == Steps("record_id", "none", "none", 0, i)
           ri == Member("record_id", <<Prim(r.id)>>)
           ty == Member("type", <<Str(r.type)>>)
           su == Member("subdomain", <<Str(r.host)>>)
<1>0. /\ Reserved \subseteq Vals /\ r.id \in Vals /\ r.host \in Vals /\ r.type \in Vals
      /\ {"record_id", "type", "subdomain"} \subseteq Vals
  BY ValsFacts DEF Reserved, AnyType
<1>1. ri \in Seq(Lex) /\ ty \in Seq(Lex) /\ su \in Seq(Lex)
  <2>1. Prim(r.id) \in Lex /\ Str(r.type) \in Lex /\ Str(r.host) \in Lex
    BY <1>0, ValsFacts
  <2> QED BY <1>0, <2>1, MemberType DEF Lex
<1>2. w0 = WalkLex(w, LBrace, host)
  <2>1. StepsRight(Vals, s, t, 0, i, host)
    BY <1>0, WalkLexSteps
  <2> QED BY <2>1 DEF StepsRight
<1>3. /\ "none" \in Flags /\ "keyword" \in Flags /\ "none" # "value" /\ "none" # "keyword" /\ "keyword" # "value"
      /\ x \in Flags /\ y \in Flags /\ x # "none" /\ y # "none" /\ x = (IF r.host = host THEN "value" ELSE "keyword")
  BY DEF Flags
<1>4. /\ YandexItem(r, FALSE) = Object3(ri, ty, su)
      /\ YandexItem(r, TRUE) = Object3(ty, su, ri)
  BY DEF YandexItem, Object3
<1> HIDE DEF ri, ty, su, w, w0
<1>5. Leads(host, YandexItem(r, FALSE), w, Steps("record_id", x, y, 0, r.id)) /\ YandexItem(r, FALSE) \in Seq(Lex)
  <2> DEFINE w1 == Steps("record_id", "none", "none", 0, r.id)
             w2 == Steps("record_id", "none", y, 0, r.id)
             w3 == Steps("record_id", x, y, 0, r.id)
  <2>0. /\ MembersLead("none", "none", i, host, r.id) /\ MembersLead("none", "none", r.id, host, r.type)
        /\ MembersLead("none", y, r.id, host, r.host)
    BY <1>0, <1>3, YandexMembers
  <2>1. Leads(host, ri, w0, w1)
    BY <2>0 DEF MembersLead, ri, w0
  <2>2. Leads(host, ty, w1, w2)
    BY <1>3, <2>0 DEF MembersLead, ty
  <2>3. Leads(host, su, w2, w3)
    BY <2>0 DEF MembersLead, su
  <2> HIDE DEF w1, w2, w3
  <2>4. Leads(host, Object3(ri, ty, su), w, w3) /\ Object3(ri, ty, su) \in Seq(Lex)
    BY <1>1, <1>2, <2>1, <2>2, <2>3, LeadsObject
  <2> QED BY <1>4, <2>4 DEF w3
<1> DEFINE j == IF x = "value" /\ y = "value" /\ i # "0" THEN i ELSE r.id
<1>6. Leads(host, YandexItem(r, TRUE), w, Steps("record_id", x, y, 0, j)) /\ YandexItem(r, TRUE) \in Seq(Lex)
  <2> DEFINE w1 == Steps("record_id", "none", y, 0, i)
             w2 == Steps("record_id", x, y, 0, i)
             w3 == Steps("record_id", x, y, 0, j)
  <2>0. MembersLead("none", "none", i, host, r.type) /\ MembersLead("none", y, i, host, r.host)
    BY <1>0, <1>3, YandexMembers
  <2>1. Leads(host, ty, w0, w1)
    BY <1>3, <2>0 DEF MembersLead, ty, w0
  <2>2. Leads(host, su, w1, w2)
    BY <2>0 DEF MembersLead, su
  <2>3. Leads(host, ri, w2, w3)
    <3>1. CASE x = "value" /\ y = "value" /\ i # "0"
      <4>1. WalkDone(Steps("record_id", x, y, 0, i)) /\ j = i
        BY <3>1 DEF WalkDone, Steps
      <4>2. Len(ri) \in Nat
        BY <1>1
      <4> HIDE DEF j
      <4> QED BY <4>1, <4>2, LeadsDone
    <3>2. CASE ~(x = "value" /\ y = "value" /\ i # "0")
      <4>1. j = r.id
        BY <3>2
      <4>2. Leads(host, ri, Steps("record_id", x, y, 0, i), Steps("record_id", x, y, 0, r.id))
        <5>1. MembersLead(x, y, i, host, r.id)
          BY <1>0, <1>3, <3>2, YandexMembers
        <5> QED BY <5>1 DEF MembersLead, ri
      <4> HIDE DEF j
      <4> QED BY <4>1, <4>2
    <3> QED BY <3>1, <3>2
  <2> HIDE DEF j, w1, w2, w3
  <2>4. Leads(host, Object3(ty, su, ri), w, w3) /\ Object3(ty, su, ri) \in Seq(Lex)
    BY <1>1, <1>2, <2>1, <2>2, <2>3, LeadsObject
  <2> QED BY <1>4, <2>4 DEF w3
<1> QED BY <1>5, <1>6 DEF w, ItemLeads

\* What the walk knows behind n records: it is done with the ID of a record of
\* the name, or it has seen none.  With record_id last it may be any ID.
Fits(r, host) == r.host = host /\ r.type = "A"
Seen(x, y, i, recs, n, late, host) ==
  /\ x \in Flags /\ y \in Flags /\ (i = "0" \/ \E j \in 1..n : i = recs[j].id)
  /\ x = "value" /\ y = "value" /\ i # "0" => late \/ \E j \in 1..n : i = recs[j].id /\ Fits(recs[j], host)
  /\ ~(x = "value" /\ y = "value" /\ i # "0") => \A j \in 1..n : ~Fits(recs[j], host)
ListedRecs(recs, N) ==
  N \in Nat /\ DOMAIN recs = 1..N /\ \A j \in 1..N : recs[j].id \in Ids /\ recs[j].host \in Names /\ recs[j].type \in AnyType

\* One more record of the list keeps what the walk has seen.
LEMMA ItemSeen ==
  ASSUME NEW recs, NEW N, ListedRecs(recs, N), NEW late \in BOOLEAN, NEW host \in Names, NEW n \in 0..(N - 1),
         NEW x, NEW y, NEW i, Seen(x, y, i, recs, n, late, host), NEW t, t = YandexItem(recs[n + 1], late)
  PROVE  /\ t \in Seq(Lex)
         /\ \E x2, y2, i2 : /\ Leads(host, t, Steps("record_id", x, y, 0, i), Steps("record_id", x2, y2, 0, i2))
                            /\ Seen(x2, y2, i2, recs, n + 1, late, host)
<1> DEFINE r == recs[n + 1]
           x2 == IF r.host = host THEN "value" ELSE "keyword"
           y2 == IF r.type = "A" THEN "value" ELSE "keyword"
           w == Steps("record_id", x, y, 0, i)
<1>0. N \in Nat /\ n + 1 \in 1..N /\ \A j \in 1..(n + 1) : j \in 1..n \/ j = n + 1
  BY DEF ListedRecs
<1>1. r.id \in Ids /\ r.host \in Names /\ r.type \in AnyType /\ r.id # "0"
  <2>1. r.id \in Ids /\ r.host \in Names /\ r.type \in AnyType
    BY <1>0 DEF ListedRecs
  <2> HIDE DEF r
  <2> QED BY <2>1, ValsFacts DEF NoId
<1>2. x \in Flags /\ y \in Flags /\ i \in Vals \cup {"0"}
  <2>1. \A j \in 1..n : recs[j].id \in Vals
    <3>1. \A j \in 1..n : j \in 1..N
      BY <1>0
    <3> QED BY <3>1, ValsFacts DEF ListedRecs
  <2> QED BY <2>1 DEF Seen
<1>3. x2 \in Flags /\ y2 \in Flags /\ "none" \in Flags
  BY DEF Flags
<1>4. (x2 = "value" /\ y2 = "value") <=> Fits(r, host)
  BY DEF Fits
<1> HIDE DEF r, x2, y2, w
<1>5. ASSUME NEW s \in Flags, NEW u \in Flags, NEW k \in Vals \cup {"0"}, ~(s = "value" /\ u = "value" /\ k # "0")
      PROVE  /\ YandexItem(r, FALSE) \in Seq(Lex) /\ YandexItem(r, TRUE) \in Seq(Lex)
             /\ Leads(host, YandexItem(r, FALSE), Steps("record_id", s, u, 0, k), Steps("record_id", x2, y2, 0, r.id))
             /\ Leads(host, YandexItem(r, TRUE), Steps("record_id", s, u, 0, k),
                      Steps("record_id", x2, y2, 0, IF x2 = "value" /\ y2 = "value" /\ k # "0" THEN k ELSE r.id))
  <2>1. x2 = (IF r.host = host THEN "value" ELSE "keyword") /\ y2 = (IF r.type = "A" THEN "value" ELSE "keyword")
    BY DEF x2, y2
  <2>2. ItemLeads(s, u, k, host, r, x2, y2)
    BY <1>1, <1>5, <2>1, LeadsItem
  <2> QED BY <2>2 DEF ItemLeads
<1>6. t \in Seq(Lex)
  <2>1. YandexItem(r, FALSE) \in Seq(Lex) /\ YandexItem(r, TRUE) \in Seq(Lex)
    BY <1>3, <1>5
  <2>2. CASE late = TRUE
    BY <2>1, <2>2 DEF r
  <2>3. CASE late = FALSE
    BY <2>1, <2>3 DEF r
  <2> QED BY <2>2, <2>3
<1>7. CASE x = "value" /\ y = "value" /\ i # "0"
  <2>1. WalkDone(w) /\ Len(t) \in Nat
    BY <1>6, <1>7 DEF WalkDone, Steps, w
  <2>2. Leads(host, t, w, w)
    BY <2>1, LeadsDone
  <2>3. Seen(x, y, i, recs, n + 1, late, host)
    <3>1. \A j \in 1..n : j \in 1..(n + 1)
      OBVIOUS
    <3> QED BY <1>7, <3>1 DEF Seen
  <2> QED BY <1>6, <2>2, <2>3 DEF w
<1>8. CASE ~(x = "value" /\ y = "value" /\ i # "0")
  <2>0. n + 1 \in 1..(n + 1) /\ \A j \in 1..n : j \in 1..(n + 1) /\ ~Fits(recs[j], host)
    BY <1>8 DEF Seen
  <2>1. CASE late = FALSE
    <3>1. Leads(host, t, w, Steps("record_id", x2, y2, 0, r.id))
      BY <1>2, <1>5, <1>8, <2>1 DEF w, r
    <3>2. Seen(x2, y2, r.id, recs, n + 1, late, host)
      <4>1. ~(x2 = "value" /\ y2 = "value" /\ r.id # "0") => \A j \in 1..(n + 1) : ~Fits(recs[j], host)
        BY <1>0, <1>1, <1>4, <2>0 DEF r
      <4>2. x2 = "value" /\ y2 = "value" => \E j \in 1..(n + 1) : r.id = recs[j].id /\ Fits(recs[j], host)
        BY <1>4, <2>0 DEF r
      <4>3. \E j \in 1..(n + 1) : r.id = recs[j].id
        BY <2>0 DEF r
      <4> QED BY <1>3, <4>1, <4>2, <4>3 DEF Seen
    <3> QED BY <1>6, <3>1, <3>2 DEF w
  <2>2. CASE late = TRUE
    <3> DEFINE k == IF x2 = "value" /\ y2 = "value" /\ i # "0" THEN i ELSE r.id
    <3>1. Leads(host, t, w, Steps("record_id", x2, y2, 0, k))
      BY <1>2, <1>5, <1>8, <2>2 DEF w, r
    <3>2. k # "0" /\ \E j \in 1..(n + 1) : k = recs[j].id
      <4>1. CASE x2 = "value" /\ y2 = "value" /\ i # "0"
        BY <2>0, <4>1 DEF Seen
      <4>2. CASE ~(x2 = "value" /\ y2 = "value" /\ i # "0")
        BY <1>1, <2>0, <4>2 DEF r
      <4> QED BY <4>1, <4>2
    <3> HIDE DEF k
    <3>3. Seen(x2, y2, k, recs, n + 1, late, host)
      <4>1. ~(x2 = "value" /\ y2 = "value" /\ k # "0") => \A j \in 1..(n + 1) : ~Fits(recs[j], host)
        BY <1>0, <1>4, <2>0, <3>2 DEF r
      <4> QED BY <1>3, <2>2, <3>2, <4>1 DEF Seen
    <3> QED BY <1>6, <3>1, <3>3 DEF w
  <2> QED BY <2>1, <2>2
<1> QED BY <1>7, <1>8

\* The walk over the list.
LEMMA ListSeen ==
  ASSUME NEW recs, NEW N, ListedRecs(recs, N), NEW late \in BOOLEAN, NEW host \in Names,
         NEW texts, texts = [i \in DOMAIN recs |-> YandexItem(recs[i], late)]
  PROVE  /\ texts \in Seq(Seq(Lex)) /\ Commas(texts) \in Seq(Lex)
         /\ \E x, y, i : /\ Leads(host, Commas(texts), Steps("record_id", "none", "none", 0, "0"), Steps("record_id", x, y, 0, i))
                         /\ Seen(x, y, i, recs, N, late, host)
<1> DEFINE w0 == Steps("record_id", "none", "none", 0, "0")
<1>0. N \in Nat /\ DOMAIN recs = 1..N
  BY DEF ListedRecs
<1>1. Seen("none", "none", "0", recs, 0, late, host)
  <2>1. 1..0 = {} /\ "none" # "value" /\ "none" \in Flags
    BY DEF Flags
  <2> QED BY <2>1 DEF Seen
<1>2. ASSUME NEW n \in 0..(N - 1), NEW x, NEW y, NEW i, Seen(x, y, i, recs, n, late, host)
      PROVE  \E x2, y2, i2 : /\ Leads(host, texts[n + 1], Steps("record_id", x, y, 0, i), Steps("record_id", x2, y2, 0, i2))
                             /\ Seen(x2, y2, i2, recs, n + 1, late, host)
  <2>1. texts[n + 1] = YandexItem(recs[n + 1], late)
    BY <1>0
  <2> QED BY <1>2, <2>1, ItemSeen
<1>3. \A n \in 1..N : texts[n] \in Seq(Lex)
  <2> SUFFICES ASSUME NEW n \in 1..N PROVE YandexItem(recs[n], late) \in Seq(Lex)
    BY <1>0
  <2>1. "none" \in Flags /\ "none" # "value" /\ "0" \in Vals \cup {"0"} /\ recs[n].id \in Ids /\ recs[n].host \in Names /\ recs[n].type \in AnyType
    BY DEF Flags, ListedRecs
  <2> DEFINE x == IF recs[n].host = host THEN "value" ELSE "keyword"
             y == IF recs[n].type = "A" THEN "value" ELSE "keyword"
  <2>2. ItemLeads("none", "none", "0", host, recs[n], x, y)
    BY <2>1, LeadsItem
  <2>3. CASE late = TRUE
    BY <2>2, <2>3 DEF ItemLeads
  <2>4. CASE late = FALSE
    BY <2>2, <2>4 DEF ItemLeads
  <2> QED BY <2>3, <2>4
<1>4. texts \in Seq(Seq(Lex)) /\ Len(texts) = N
  BY <1>0, <1>3
<1>5. PICK upto : CommaRun(Lex, texts, upto)
  <2>1. CommaLex \in Lex
    BY LexPunctuation DEF Punctuation
  <2> QED BY <1>4, <2>1, CommasRun
<1>6. /\ upto \in [0..N -> Seq(Lex)] /\ upto[0] = <<>> /\ Commas(texts) = upto[N]
      /\ \A n \in 1..N : upto[n] = IF n = 1 THEN texts[1] ELSE Pair(upto[n - 1], texts[n])
  BY <1>4, <1>5 DEF CommaRun, Pair
<1> DEFINE P(n) == \E x, y, i : Leads(host, upto[n], w0, Steps("record_id", x, y, 0, i)) /\ Seen(x, y, i, recs, n, late, host)
           I == {n \in 0..N : P(n)}
<1> HIDE DEF w0
<1>7. P(0)
  <2>1. Leads(host, <<>>, w0, w0)
    <3>1. Len(<<>>) = 0 /\ \A o \in Nat \ {0} : o + 0 = o
      OBVIOUS
    <3> QED BY <3>1 DEF Leads
  <2> QED BY <1>1, <1>6, <2>1 DEF w0
<1>8. ASSUME NEW n \in 0..(N - 1), P(n) PROVE P(n + 1)
  <2>0. n + 1 \in 1..N /\ (n + 1) - 1 = n /\ n \in 0..N
    BY <1>0
  <2>a. upto[n + 1] = IF n + 1 = 1 THEN texts[1] ELSE Pair(upto[n], texts[n + 1])
    <3> DEFINE m == n + 1
    <3>1. m \in 1..N /\ m - 1 = n
      BY <2>0
    <3> HIDE DEF m
    <3>2. upto[m] = IF m = 1 THEN texts[1] ELSE Pair(upto[m - 1], texts[m])
      BY <1>6, <3>1
    <3> QED BY <3>1, <3>2 DEF m
  <2>1. CASE n = 0
    <3>1. PICK x2, y2, i2 : /\ Leads(host, texts[n + 1], Steps("record_id", "none", "none", 0, "0"), Steps("record_id", x2, y2, 0, i2))
                            /\ Seen(x2, y2, i2, recs, n + 1, late, host)
      BY <1>1, <1>2, <2>1
    <3>2. upto[n + 1] = texts[n + 1]
      BY <2>a, <2>1
    <3> QED BY <3>1, <3>2 DEF w0
  <2>2. CASE n # 0
    <3>1. PICK x, y, i : Leads(host, upto[n], w0, Steps("record_id", x, y, 0, i)) /\ Seen(x, y, i, recs, n, late, host)
      BY <1>8
    <3>2. PICK x2, y2, i2 : /\ Leads(host, texts[n + 1], Steps("record_id", x, y, 0, i), Steps("record_id", x2, y2, 0, i2))
                            /\ Seen(x2, y2, i2, recs, n + 1, late, host)
      BY <1>2, <3>1
    <3>3. upto[n + 1] = Pair(upto[n], texts[n + 1])
      <4>1. n + 1 # 1
        BY <2>2
      <4> QED BY <2>a, <4>1
    <3>4. upto[n] \in Seq(Lex) /\ texts[n + 1] \in Seq(Lex)
      BY <1>3, <1>6, <2>0
    <3>5. Leads(host, Pair(upto[n], texts[n + 1]), w0, Steps("record_id", x2, y2, 0, i2))
      BY <3>1, <3>2, <3>4, LeadsComma
    <3> QED BY <3>2, <3>3, <3>5
  <2> QED BY <2>1, <2>2
<1> HIDE DEF P
<1>9. N \in I
  <2>1. 0 \in I /\ \A n \in 0..(N - 1) : n \in I => n + 1 \in I
    BY <1>0, <1>7, <1>8
  <2> HIDE DEF I
  <2>2. \A n \in 0..N : n \in I
    BY <1>0, <2>1, Upto
  <2> QED BY <1>0, <2>2
<1>10. P(N)
  BY <1>9
<1>11. Commas(texts) \in Seq(Lex)
  BY <1>0, <1>6
<1> QED BY <1>4, <1>6, <1>10, <1>11 DEF P, w0

\* The answers are well nested.
LEMMA NestedObject ==
  ASSUME NEW a, NEW b, NEW d, NestedIn(Vals, a, "object"), NestedIn(Vals, b, "object"), NestedIn(Vals, d, "object")
  PROVE  /\ Nested(Vals, Object(<<a, b, d>>)) /\ Nested(Vals, Object(<<a, b>>)) /\ Nested(Vals, Object(<<a>>))
         /\ Whole(Vals, Object(<<a, b>>))
<1>0. a \in Seq(Lex) /\ b \in Seq(Lex) /\ d \in Seq(Lex) /\ "nil" \in Vals /\ "object" \in {"object", "array"}
  BY ValsFacts DEF NestedIn, Lex
<1>1. Nested(Vals, Object(<<a, b, d>>))
  <2> DEFINE t == <<a, b, d>>
  <2>1. t \in Seq(Seq(Lex)) /\ Len(t) = 3 /\ t[1] = a /\ t[2] = b /\ t[3] = d
    BY <1>0
  <2> HIDE DEF t
  <2>2. \A i \in 1..Len(t) : NestedIn(Vals, t[i], "object")
    BY <2>1
  <2> QED BY <1>0, <2>1, <2>2, NestedList DEF t, Lex
<1>2. Nested(Vals, Object(<<a, b>>)) /\ Whole(Vals, Object(<<a, b>>))
  <2> DEFINE t == <<a, b>>
  <2>1. t \in Seq(Seq(Lex)) /\ Len(t) = 2 /\ t[1] = a /\ t[2] = b
    BY <1>0
  <2> HIDE DEF t
  <2>2. \A i \in 1..Len(t) : NestedIn(Vals, t[i], "object")
    BY <2>1
  <2>3. Nested(Vals, Object(t))
    BY <1>0, <2>1, <2>2, NestedList DEF Lex
  <2>4. Whole(Vals, Object(t))
    BY <1>0, <2>1, <2>2, ObjectWhole DEF Lex
  <2> QED BY <2>3, <2>4 DEF t
<1>3. Nested(Vals, Object(<<a>>))
  <2> DEFINE t == <<a>>
  <2>1. t \in Seq(Seq(Lex)) /\ Len(t) = 1 /\ t[1] = a
    BY <1>0
  <2> HIDE DEF t
  <2>2. \A i \in 1..Len(t) : NestedIn(Vals, t[i], "object")
    BY <2>1
  <2> QED BY <1>0, <2>1, <2>2, NestedList DEF t, Lex
<1> QED BY <1>1, <1>2, <1>3

\* An array of well nested texts is one.
LEMMA NestedArray ==
  ASSUME NEW texts \in Seq(Seq(Lex)), \A i \in 1..Len(texts) : Nested(Vals, texts[i])
  PROVE  Nested(Vals, Array(texts))
<1>1. \A i \in 1..Len(texts) : NestedIn(Vals, texts[i], "array")
  BY NestedElement
<1>2. "array" \in {"object", "array"}
  OBVIOUS
<1> QED BY <1>1, <1>2, NestedList DEF Lex

\* A member with a string or a primitive is well nested.
LEMMA NestedPlain ==
  ASSUME NEW key \in Vals, NEW v \in Vals
  PROVE  NestedIn(Vals, Member(key, <<Str(v)>>), "object") /\ NestedIn(Vals, Member(key, <<Prim(v)>>), "object")
BY NestedOne, NestedMember

\* Yandex's list is a whole text.
LEMMA YandexWhole ==
  ASSUME NEW recs, NEW N, ListedRecs(recs, N), NEW late \in BOOLEAN
  PROVE  Whole(Vals, YandexAnswer(recs, late))
<1> DEFINE texts == [i \in DOMAIN recs |-> YandexItem(recs[i], late)]
<1>0. N \in Nat /\ DOMAIN recs = 1..N /\ {"record_id", "type", "subdomain", "success", "ok", "records"} \subseteq Vals
  BY ValsFacts DEF ListedRecs, Reserved
<1>1. ASSUME NEW i \in 1..N PROVE Nested(Vals, YandexItem(recs[i], late))
  <2> DEFINE r == recs[i]
             ri == Member("record_id", <<Prim(r.id)>>)
             ty == Member("type", <<Str(r.type)>>)
             su == Member("subdomain", <<Str(r.host)>>)
  <2>1. r.id \in Vals /\ r.host \in Vals /\ r.type \in Vals
    BY ValsFacts DEF ListedRecs, AnyType
  <2> HIDE DEF r
  <2>2. NestedIn(Vals, ri, "object") /\ NestedIn(Vals, ty, "object") /\ NestedIn(Vals, su, "object")
    BY <1>0, <2>1, NestedPlain
  <2>3. YandexItem(r, late) = IF late THEN Object(<<ty, su, ri>>) ELSE Object(<<ri, ty, su>>)
    BY DEF YandexItem
  <2> HIDE DEF ri, ty, su
  <2>4. Nested(Vals, Object(<<ty, su, ri>>)) /\ Nested(Vals, Object(<<ri, ty, su>>))
    BY <2>2, NestedObject
  <2>5. Nested(Vals, YandexItem(r, late))
    BY <2>3, <2>4
  <2> QED BY <2>5 DEF r
<1>2. texts \in Seq(Seq(Lex)) /\ Len(texts) = N /\ \A i \in 1..Len(texts) : Nested(Vals, texts[i])
  <2>1. \A i \in 1..N : YandexItem(recs[i], late) \in Seq(Lex)
    BY <1>1 DEF Nested, Lex
  <2> QED BY <1>0, <1>1, <2>1
<1> DEFINE m == Member("records", Array(texts))
           s == Member("success", <<Str("ok")>>)
<1>3. YandexAnswer(recs, late) = Object(<<m, s>>)
  BY DEF YandexAnswer
<1> HIDE DEF texts
<1>4. NestedIn(Vals, m, "object") /\ NestedIn(Vals, s, "object")
  BY <1>0, <1>2, NestedArray, NestedMember, NestedPlain
<1> HIDE DEF m, s
<1>5. Whole(Vals, Object(<<m, s>>))
  BY <1>4, NestedObject
<1> QED BY <1>3, <1>5

\* Over the whole list the walk has seen every record.
LEMMA YandexWalk ==
  ASSUME NEW recs, NEW N, ListedRecs(recs, N), NEW late \in BOOLEAN, NEW host \in Names, NEW T, T = YandexAnswer(recs, late)
  PROVE  \E x, y, i : /\ Walk(GetTokens(T), host)[Len(GetTokens(T))] = Steps("record_id", x, y, 0, i)
                      /\ Seen(x, y, i, recs, N, late, host)
<1> DEFINE texts == [i \in DOMAIN recs |-> YandexItem(recs[i], late)]
           m == Member("records", Array(texts))
           s == Member("success", <<Str("ok")>>)
           w0 == Steps("record_id", "none", "none", 0, "0")
           w1 == Steps("records", "none", "none", 0, "0")
<1>1. T = Object(<<m, s>>)
  BY DEF YandexAnswer
<1>2. texts \in Seq(Seq(Lex)) /\ Commas(texts) \in Seq(Lex)
  BY ListSeen
<1>3. PICK x, y, i : /\ Leads(host, Commas(texts), w0, Steps("record_id", x, y, 0, i))
                     /\ Seen(x, y, i, recs, N, late, host)
  BY ListSeen
<1> DEFINE u == Steps("record_id", x, y, 0, i)
           list == Commas(texts)
           array == Array(texts)
<1>4. array = Enclosed(LBracket, list, RBracket)
  BY DEF Array, Enclosed
<1> HIDE DEF list, array, w0, w1, texts
<1>5. Leads(host, array, w1, u) /\ array \in Seq(Lex)
  <2>1. LBracket \in Lex /\ RBracket \in Lex /\ IsCounted(LBracket) /\ ~IsCounted(RBracket)
    BY LexPunctuation, LexFacts DEF Punctuation
  <2>2. WalkLex(w1, LBracket, host) = w0
    BY WalkLexHead DEF w0, w1
  <2>3. Leads(host, list, WalkLex(w1, LBracket, host), u) /\ list \in Seq(Lex)
    BY <1>2, <1>3, <2>2 DEF list
  <2> HIDE DEF u
  <2> QED BY <1>4, <2>1, <2>3, LeadsContainer
<1>6. Leads(host, m, Walk0, u) /\ m \in Seq(Lex)
  <2>1. WalkLex(Walk0, Str("records"), host) = w1 /\ "records" \in Vals
    BY WalkLexHead, ValsFacts DEF w1, Reserved
  <2> HIDE DEF u
  <2>2. Leads(host, Member("records", array), Walk0, u) /\ Member("records", array) \in Seq(Lex)
    BY <1>5, <2>1, LeadsMember
  <2> QED BY <2>2 DEF array
<1>7. Leads(host, s, u, u) /\ s \in Seq(Lex)
  <2>0. "success" \in Vals /\ "ok" \in Vals /\ Str("ok") \in Lex /\ Reserved \subseteq Vals /\ host # "success" /\ host # "ok"
    BY ValsFacts DEF Reserved
  <2>1. s \in Seq(Lex)
    BY <2>0, MemberType DEF Lex
  <2>2. CASE WalkDone(u)
    <3>1. Len(s) \in Nat
      BY <2>1
    <3> HIDE DEF u, s
    <3> QED BY <2>1, <2>2, <3>1, LeadsDone
  <2>3. CASE ~WalkDone(u)
    <3>1. x \in Flags /\ y \in Flags /\ i \in Vals \cup {"0"}
      <4>1. \A j \in 1..N : recs[j].id \in Vals
        BY ValsFacts DEF ListedRecs
      <4> QED BY <1>3, <4>1 DEF Seen
    <3>2. ~(x = "value" /\ y = "value" /\ i # "0")
      BY <2>3 DEF WalkDone, Steps
    <3>3. StepsRight(Vals, x, y, 0, i, host)
      BY <2>0, <3>1, <3>2, WalkLexSteps
    <3>4. ASSUME NEW v \in {"success", "ok"} PROVE WalkLex(u, Str(v), host) = u
      <4>1. v \in Vals /\ v # host /\ v # "A" /\ v \notin {"records", "subdomain", "type", "record_id"}
        BY <2>0
      <4>2. WalkLex(u, Str(v), host) =
              Steps("record_id", IF x = "keyword" /\ v = host THEN "value" ELSE x,
                    IF y = "keyword" /\ v = "A" THEN "value" ELSE y, 0, IF 0 = 1 THEN v ELSE i)
        BY <3>3, <4>1 DEF StepsRight
      <4>3. /\ (IF x = "keyword" /\ v = host THEN "value" ELSE x) = x
            /\ (IF y = "keyword" /\ v = "A" THEN "value" ELSE y) = y /\ (IF 0 = 1 THEN v ELSE i) = i
        BY <4>1
      <4> QED BY <4>2, <4>3
    <3>5. u = WalkLex(u, Str("success"), host) /\ u = WalkLex(u, Str("ok"), host)
      BY <3>4
    <3> HIDE DEF u
    <3> QED BY <2>0, <3>5, LexFacts, LeadsValue
  <2> QED BY <2>2, <2>3
<1> HIDE DEF m, s, u
<1> DEFINE p == Pair(m, s)
<1>8. Leads(host, p, Walk0, u) /\ p \in Seq(Lex)
  BY <1>6, <1>7, LeadsComma
<1>9. T = Enclosed(LBrace, p, RBrace)
  <2>1. Built(m, s, s)
    BY <1>6, <1>7, ObjectBuilt
  <2> QED BY <1>1, <2>1 DEF Built
<1> HIDE DEF p
<1>10. Whole(Vals, T)
  BY YandexWhole
<1>11. PICK W : Walks(T, host, W) /\ W[Len(T)] = Walk(GetTokens(T), host)[Len(GetTokens(T))]
  BY <1>10, WalkByLex
<1>12. /\ T \in Seq(Lex) /\ Len(T) = Len(p) + 2 /\ Stands(T, 1, p) /\ T[Len(T)] = RBrace
  <2>1. LBrace \in Lex /\ RBrace \in Lex
    BY LexPunctuation DEF Punctuation
  <2>2. T = (<<LBrace>> \o p) \o <<RBrace>>
    BY <1>9 DEF Enclosed
  <2>3. Len(p) \in Nat /\ <<LBrace>> \o p \in Seq(Lex) /\ Len(<<LBrace>> \o p) = Len(p) + 1
    BY <1>8, <2>1
  <2>4. T \in Seq(Lex) /\ Len(T) = Len(p) + 2 /\ T[Len(p) + 2] = RBrace
    BY <2>1, <2>2, <2>3
  <2>5. \A j \in 1..Len(p) : T[1 + j] = p[j]
    BY <1>8, <2>1, <2>2, <2>3
  <2> QED BY <2>3, <2>4, <2>5 DEF Stands
<1>13. W[1] = Walk0 /\ W[1 + Len(p)] = u
  <2>1. W[1] = Walk0
    BY <1>11 DEF Walks
  <2>2. 1 \in Nat \ {0}
    OBVIOUS
  <2> QED BY <1>8, <1>11, <1>12, <2>1, <2>2 DEF Leads
<1>14. W[Len(T)] = u
  <2> DEFINE l == Len(T)
             k == Len(p)
  <2>1. l = k + 2 /\ k \in Nat
    BY <1>8, <1>12
  <2> HIDE DEF l, k
  <2>2. l \in 2..l /\ l - 1 = 1 + k
    BY <2>1
  <2>3. ~IsCounted(T[l])
    BY <1>12, LexFacts DEF l
  <2>4. W[l] = W[l - 1]
    BY <1>11, <2>2, <2>3 DEF Walks, l
  <2> QED BY <1>13, <2>2, <2>4 DEF l, k
<1> QED BY <1>3, <1>11, <1>14 DEF u

\* get_record_id(): an answer that is not whole is not read; a whole one gives
\* the ID of a record of the name, or there is none.
IdFound(i, recs, N, late, host) ==
  \/ i = "none" /\ \A j \in 1..N : ~Fits(recs[j], host)
  \/ \E j \in 1..N : i = recs[j].id /\ (late \/ Fits(recs[j], host))

\* What get_record_id() returns: the ID of the named A record, none, or, when
\* record_id comes last, the ID of the record before.
LEMMA YandexId ==
  ASSUME NEW recs, NEW N, ListedRecs(recs, N), NEW late \in BOOLEAN, NEW host \in Names,
         NEW a \in Arrives(YandexAnswer(recs, late))
  PROVE  /\ a[1] # "whole" => GetRecordId(a[2], host) = "-1"
         /\ a[1] = "whole" => IdFound(GetRecordId(a[2], host), recs, N, late, host)
<1> DEFINE T == YandexAnswer(recs, late)
<1>0. Whole(Vals, T)
  BY YandexWhole
<1>1. CASE a[1] # "whole"
  <2>1. GetTokens(a[2]) = <<>>
    <3> HIDE DEF T
    <3> QED BY <1>0, <1>1, ArrivesWritten DEF T
  <2> DEFINE t == GetTokens(a[2])
             w == Walk(t, host)[Len(t)]
  <2>2. t \in Seq(TokenSet(Vals)) /\ Len(t) = 0
    BY <2>1
  <2>3. w = Walk0
    <3> HIDE DEF t
    <3>1. WalkRun(t, host, Walk(t, host))
      BY <2>2, WalkRuns
    <3> QED BY <2>2, <3>1 DEF WalkRun
  <2>4. ~WalkDone(Walk0) /\ Walk0.state = "unknown"
    BY DEF WalkDone, Walk0
  <2>5. GetRecordId(a[2], host) = IF WalkDone(w) THEN w.id ELSE IF w.state = "record_id" THEN "none" ELSE "-1"
    BY DEF GetRecordId
  <2> HIDE DEF w
  <2> QED BY <1>1, <2>3, <2>4, <2>5
<1>2. CASE a[1] = "whole"
  <2>1. a[2] = T
    <3> HIDE DEF T
    <3> QED BY <1>0, <1>2, ArrivesWritten DEF T
  <2> DEFINE t == GetTokens(a[2])
             w == Walk(t, host)[Len(t)]
  <2>2. PICK x, y, i : w = Steps("record_id", x, y, 0, i) /\ Seen(x, y, i, recs, N, late, host)
    BY <2>1, YandexWalk
  <2>3. GetRecordId(a[2], host) = IF WalkDone(w) THEN w.id ELSE IF w.state = "record_id" THEN "none" ELSE "-1"
    BY DEF GetRecordId
  <2> HIDE DEF w
  <2>4. w.id = i /\ w.state = "record_id" /\ (WalkDone(w) <=> x = "value" /\ y = "value" /\ i # "0")
    BY <2>2 DEF Steps, WalkDone
  <2>5. CASE WalkDone(w)
    <3>1. GetRecordId(a[2], host) = i /\ \E j \in 1..N : i = recs[j].id /\ (late \/ Fits(recs[j], host))
      BY <2>2, <2>3, <2>4, <2>5 DEF Seen
    <3> QED BY <1>2, <3>1 DEF IdFound
  <2>6. CASE ~WalkDone(w)
    <3>1. GetRecordId(a[2], host) = "none" /\ \A j \in 1..N : ~Fits(recs[j], host)
      BY <2>2, <2>3, <2>4, <2>6 DEF Seen
    <3> QED BY <1>2, <3>1 DEF IdFound
  <2> QED BY <2>5, <2>6
<1> QED BY <1>1, <1>2

-----------------------------------------------------------------------------
(* What json_extract() reads *)

Carries(t, lex) == t \in Seq(Lex) /\ \E j \in 1..Len(t) : t[j] = lex

\* A lexeme of a part is one of the whole.
LEMMA CarriesCat ==
  ASSUME NEW a \in Seq(Lex), NEW b \in Seq(Lex), NEW lex, Carries(a, lex) \/ Carries(b, lex), NEW c, c = a \o b
  PROVE  Carries(c, lex)
<1>1. c \in Seq(Lex) /\ Len(c) = Len(a) + Len(b) /\ Len(a) \in Nat /\ Len(b) \in Nat
  OBVIOUS
<1>2. CASE Carries(a, lex)
  <2>1. PICK j \in 1..Len(a) : a[j] = lex
    BY <1>2 DEF Carries
  <2>2. j \in 1..Len(c) /\ c[j] = lex
    BY <1>1, <2>1
  <2> QED BY <1>1, <2>2 DEF Carries
<1>3. CASE Carries(b, lex)
  <2>1. PICK j \in 1..Len(b) : b[j] = lex
    BY <1>3 DEF Carries
  <2>2. Len(a) + j \in 1..Len(c) /\ c[Len(a) + j] = lex
    BY <1>1, <2>1
  <2> QED BY <1>1, <2>2 DEF Carries
<1> QED BY <1>2, <1>3

\* In a member, in two texts and in a container.
LEMMA CarriesBuilt ==
  /\ \A key \in Vals : \A t \in Seq(Lex) : \A lex :
       lex = Str(key) \/ Carries(t, lex) => Carries(Member(key, t), lex)
  /\ \A a, b \in Seq(Lex) : \A lex : Carries(a, lex) \/ Carries(b, lex) => Carries(Pair(a, b), lex)
  /\ \A opener, closer \in Punctuation : \A t \in Seq(Lex) : \A lex :
       Carries(t, lex) => Carries(Enclosed(opener, t, closer), lex)
<1>0. Punctuation \subseteq Lex
  BY LexPunctuation
<1>1. ASSUME NEW key \in Vals, NEW t \in Seq(Lex), NEW lex, lex = Str(key) \/ Carries(t, lex)
      PROVE  Carries(Member(key, t), lex)
  <2> DEFINE k == <<Str(key), Colon>>
             c == Member(key, t)
  <2>1. Str(key) \in Lex /\ Colon \in Lex
    BY <1>0, ValsFacts DEF Punctuation
  <2>2. k \in Seq(Lex) /\ Len(k) = 2 /\ k[1] = Str(key)
    BY <2>1
  <2>3. c = k \o t
    BY DEF Member
  <2>4. Carries(k, Str(key))
    BY <2>2 DEF Carries
  <2> HIDE DEF k, c
  <2>5. Carries(k, lex) \/ Carries(t, lex)
    BY <1>1, <2>4
  <2>6. Carries(c, lex)
    BY <2>2, <2>3, <2>5, CarriesCat
  <2> QED BY <2>6 DEF c
<1>2. ASSUME NEW a \in Seq(Lex), NEW b \in Seq(Lex), NEW lex, Carries(a, lex) \/ Carries(b, lex)
      PROVE  Carries(Pair(a, b), lex)
  <2> DEFINE m == <<CommaLex>>
             am == a \o m
             c == Pair(a, b)
  <2>1. m \in Seq(Lex) /\ am \in Seq(Lex)
    BY <1>0 DEF Punctuation
  <2>2. c = am \o b
    BY DEF Pair
  <2> HIDE DEF m, c
  <2>3. Carries(a, lex) => Carries(am, lex)
    BY <2>1, CarriesCat
  <2> HIDE DEF am
  <2>4. Carries(c, lex)
    BY <1>2, <2>1, <2>2, <2>3, CarriesCat
  <2> QED BY <2>4 DEF c
<1>3. ASSUME NEW opener \in Punctuation, NEW closer \in Punctuation, NEW t \in Seq(Lex), NEW lex, Carries(t, lex)
      PROVE  Carries(Enclosed(opener, t, closer), lex)
  <2> DEFINE l == <<opener>>
             r == <<closer>>
             lt == l \o t
             c == Enclosed(opener, t, closer)
  <2>1. l \in Seq(Lex) /\ r \in Seq(Lex) /\ lt \in Seq(Lex)
    BY <1>0
  <2>2. c = lt \o r
    BY DEF Enclosed
  <2> HIDE DEF l, r, c
  <2>3. Carries(lt, lex)
    BY <1>3, <2>1, CarriesCat
  <2> HIDE DEF lt
  <2>4. Carries(c, lex)
    BY <2>1, <2>2, <2>3, CarriesCat
  <2> QED BY <2>4 DEF c
<1> QED BY <1>1, <1>2, <1>3

\* In the first text of a list.
LEMMA CarriesFirst ==
  ASSUME NEW texts \in Seq(Seq(Lex)), Len(texts) >= 1, NEW lex, Carries(texts[1], lex)
  PROVE  Carries(Commas(texts), lex)
<1> DEFINE N == Len(texts)
<1>0. N \in Nat /\ N >= 1 /\ \A n \in 1..N : texts[n] \in Seq(Lex)
  OBVIOUS
<1>1. PICK upto : CommaRun(Lex, texts, upto)
  <2>1. CommaLex \in Lex
    BY LexPunctuation DEF Punctuation
  <2> QED BY <2>1, CommasRun
<1>2. /\ upto \in [0..N -> Seq(Lex)] /\ Commas(texts) = upto[N]
      /\ \A n \in 1..N : upto[n] = IF n = 1 THEN texts[1] ELSE Pair(upto[n - 1], texts[n])
  BY <1>1 DEF CommaRun, Pair
<1> DEFINE I == {n \in 0..N : n >= 1 => Carries(upto[n], lex)}
<1> HIDE DEF N
<1>3. 0 \in I
  BY <1>0
<1>4. ASSUME NEW n \in 0..(N - 1), n \in I PROVE n + 1 \in I
  <2>0. n + 1 \in 1..N /\ n + 1 \in 0..N /\ n \in 0..N
    BY <1>0
  <2>1. upto[n + 1] = IF n + 1 = 1 THEN texts[1] ELSE Pair(upto[n], texts[n + 1])
    <3> DEFINE m == n + 1
    <3>1. m \in 1..N /\ m - 1 = n
      BY <2>0
    <3> HIDE DEF m
    <3>2. upto[m] = IF m = 1 THEN texts[1] ELSE Pair(upto[m - 1], texts[m])
      BY <1>2, <3>1
    <3> QED BY <3>1, <3>2 DEF m
  <2>2. CASE n = 0
    BY <2>0, <2>1, <2>2
  <2>3. CASE n # 0
    <3>1. n >= 1 /\ n + 1 # 1
      BY <2>3
    <3>2. Carries(upto[n], lex) /\ upto[n] \in Seq(Lex) /\ texts[n + 1] \in Seq(Lex)
      BY <1>0, <1>2, <1>4, <2>0, <3>1
    <3>3. Carries(Pair(upto[n], texts[n + 1]), lex)
      BY <3>2, CarriesBuilt
    <3> QED BY <2>0, <2>1, <3>1, <3>3
  <2> QED BY <2>2, <2>3
<1> HIDE DEF I
<1>5. \A n \in 0..N : n \in I
  BY <1>0, <1>3, <1>4, Upto
<1>6. N \in I
  BY <1>0, <1>5
<1> QED BY <1>0, <1>2, <1>6 DEF I

\* A whole answer with the key and with a "success" is read; one that is not
\* garbled is read in tokens that were written.
LEMMA WholeExtract ==
  ASSUME NEW T, Whole(Vals, T), NEW a \in Arrives(T), NEW key, NEW vals, KeyHas(T, key, {Str(v) : v \in vals}),
         KeyHas(T, "success", {Prim("true")}), Carries(T, Str(key)), Carries(T, Str("success")),
         Plugin("porkbun.com") => 2 \in 1..Len(T) /\ T[2] = Str("result"), a[1] = "whole"
  PROVE  Extract(a[2], key).rc # "NOHOST"
<1> DEFINE S == {Str(v) : v \in vals}
           from == IF Plugin("porkbun.com") THEN 1 ELSE 0
           toks == ParseJson(T)
           x == ResultValue(toks, key, from)
<1>0. a[2] = T
  BY ArrivesWritten
<1>1. /\ "nil" \in Vals /\ T \in Seq(Lexemes(Vals)) /\ \A s \in S : IsCounted(s)
  BY LexFacts DEF Whole
<1>2. /\ toks \in Seq(TokenSet(Vals)) /\ Len(toks) \in Nat /\ Len(toks) >= 1 /\ Written(toks) /\ toks[1].type = "object"
  <2>1. toks \in Seq(TokenSet(Vals))
    BY <1>1, TokensType
  <2>2. Written(toks) /\ Len(toks) \in Nat \ {0} /\ toks[1].type = "object"
    BY WholeTokens
  <2> HIDE DEF toks
  <2> QED BY <2>1, <2>2
<1>3. KeyComplete(toks, key, S)
  <2> HIDE DEF S
  <2> QED BY <1>1, KeyFull DEF S
<1>4. KeyComplete(toks, "success", {Prim("true")})
  <2>1. \A s \in {Prim("true")} : IsCounted(s)
    BY LexFacts
  <2> QED BY <2>1, KeyFull
<1>5. PICK k \in 2..Len(toks) : IsString(toks[k], key)
  <2>1. PICK j \in 1..Len(T) : T[j] = Str(key)
    BY DEF Carries
  <2> QED BY <2>1, KeyThere
<1>6. PICK l \in 2..Len(toks) : IsString(toks[l], "success")
  <2>1. PICK j \in 1..Len(T) : T[j] = Str("success")
    BY DEF Carries
  <2> QED BY <2>1, KeyThere
<1>7. l \in (2 + from)..Len(toks) /\ from \in {0, 1}
  <2>1. CASE Plugin("porkbun.com")
    <3>1. IsString(toks[2], "result")
      BY <2>1, KeyThere
    <3>2. l # 2
      BY <1>6, <3>1 DEF IsString
    <3> HIDE DEF toks
    <3> QED BY <1>2, <2>1, <3>2
  <2>2. CASE ~Plugin("porkbun.com")
    BY <2>2
  <2> QED BY <2>1, <2>2
<1>8. Extract(a[2], key) = Copied(x)
  BY <1>0 DEF Extract, GetResultValue
<1> HIDE DEF S, from, toks
<1>9. CheckSuccess(toks, from).ok
  BY <1>2, <1>4, <1>6, <1>7, SuccessRead
<1>10. x.found /\ \E s \in S : Writes(x.tok, s)
  BY <1>2, <1>3, <1>5, <1>9, ValueRead
<1> HIDE DEF x
<1> QED BY <1>8, <1>10 DEF Copied

\* json_extract() reads written tokens only, unless a bracket too many came.
LEMMA ExtractWritten ==
  ASSUME NEW T, Whole(Vals, T), NEW a \in Arrives(T), NEW key, a[1] # "stray", ~Plugin("porkbun.com")
  PROVE  Extract(a[2], key).wild = FALSE
<1> DEFINE toks == ParseJson(a[2])
<1>1. "nil" \in Vals /\ T \in Seq(Lexemes(Vals))
  BY DEF Whole
<1>2. a[2] \in Seq(Lexemes(Vals))
  BY <1>1, ArrivesKinds
<1>3. toks \in Seq(TokenSet(Vals))
  BY <1>1, <1>2, TokensType
<1>4. Written(toks)
  BY ArrivesWritten
<1>5. Extract(a[2], key) = Copied(ResultValue(toks, key, 0))
  BY DEF Extract, GetResultValue
<1> HIDE DEF toks
<1>6. ResultValue(toks, key, 0).wild = FALSE
  BY <1>3, <1>4, NoWild
<1> QED BY <1>5, <1>6 DEF Copied

\* The head of a text that is built.
LEMMA HeadCat ==
  ASSUME NEW S, NEW a \in Seq(S), NEW b \in Seq(S), Len(a) >= 1
  PROVE  Len(a \o b) >= 1 /\ (a \o b)[1] = a[1]
<1>1. 1 \in 1..Len(a) /\ Len(a) \in Nat /\ Len(b) \in Nat
  OBVIOUS
<1> QED BY <1>1

\* An answer is one value, and holds the key "success".
LEMMA AnswerWhole ==
  ASSUME NEW result, Nested(Vals, result), NEW ok \in {"true", "false"}, NEW first \in BOOLEAN
  PROVE  LET T == Answer(result, ok, first) IN
         /\ Whole(Vals, T) /\ Carries(T, Str("success"))
         /\ \A lex : Carries(result, lex) => Carries(T, lex)
         /\ first = FALSE => 2 \in 1..Len(T) /\ T[2] = Str("result")
<1> DEFINE r == Member("result", result)
           s == Member("success", <<Prim(ok)>>)
<1>0. "result" \in Vals /\ "success" \in Vals /\ ok \in Vals /\ Prim(ok) \in Lex
  BY ValsFacts DEF Reserved
<1>1. NestedIn(Vals, r, "object") /\ NestedIn(Vals, s, "object")
  BY <1>0, NestedMember, NestedPlain
<1>2. r \in Seq(Lex) /\ s \in Seq(Lex) /\ result \in Seq(Lex)
  BY <1>1 DEF NestedIn, Nested, Lex
<1>3. Carries(s, Str("success")) /\ \A lex : Carries(result, lex) => Carries(r, lex)
  <2>1. <<Prim(ok)>> \in Seq(Lex)
    BY <1>0
  <2> QED BY <1>0, <1>2, <2>1, CarriesBuilt
<1>4. Len(r) >= 1 /\ r[1] = Str("result")
  <2>1. r = <<Str("result"), Colon>> \o result
    BY DEF Member
  <2>2. <<Str("result"), Colon>> \in Seq(Lex)
    BY <1>0, ValsFacts, LexPunctuation DEF Punctuation
  <2> DEFINE k == <<Str("result"), Colon>>
  <2>3. k \in Seq(Lex) /\ Len(k) = 2 /\ k[1] = Str("result") /\ r = k \o result
    BY <2>1, <2>2
  <2> HIDE DEF k, r, s
  <2>4. Len(k) >= 1
    BY <2>3
  <2>5. Len(k \o result) >= 1 /\ (k \o result)[1] = k[1]
    BY <1>2, <2>3, <2>4, HeadCat, Zenon
  <2> QED BY <2>3, <2>5, Zenon
<1>5. Answer(result, ok, first) = IF first THEN Object(<<s, r>>) ELSE Object(<<r, s>>)
  BY DEF Answer
<1> HIDE DEF r, s
<1>6. Whole(Vals, Object(<<s, r>>)) /\ Whole(Vals, Object(<<r, s>>))
  BY <1>1, NestedObject
<1>7. Object(<<s, r>>) = Enclosed(LBrace, Pair(s, r), RBrace) /\ Object(<<r, s>>) = Enclosed(LBrace, Pair(r, s), RBrace)
  <2>1. Built(s, r, r) /\ Built(r, s, s)
    BY <1>2, ObjectBuilt
  <2> QED BY <2>1 DEF Built
<1>8. ASSUME NEW lex, Carries(r, lex) \/ Carries(s, lex)
      PROVE  Carries(Object(<<s, r>>), lex) /\ Carries(Object(<<r, s>>), lex)
  <2>1. Carries(Pair(s, r), lex) /\ Carries(Pair(r, s), lex)
    BY <1>2, <1>8, CarriesBuilt
  <2>2. Pair(s, r) \in Seq(Lex) /\ Pair(r, s) \in Seq(Lex) /\ LBrace \in Punctuation /\ RBrace \in Punctuation
    BY <2>1 DEF Carries, Punctuation
  <2> QED BY <1>7, <2>1, <2>2, CarriesBuilt
<1>9. 2 \in 1..Len(Object(<<r, s>>)) /\ Object(<<r, s>>)[2] = Str("result")
  <2> DEFINE p == Pair(r, s)
             c == Object(<<r, s>>)
  <2>1. p = (r \o <<CommaLex>>) \o s /\ CommaLex \in Lex /\ LBrace \in Lex /\ RBrace \in Lex
    BY LexPunctuation DEF Pair, Punctuation
  <2>2. r \o <<CommaLex>> \in Seq(Lex) /\ Len(r \o <<CommaLex>>) >= 1 /\ (r \o <<CommaLex>>)[1] = Str("result")
    BY <1>2, <1>4, <2>1
  <2>3. p \in Seq(Lex) /\ Len(p) >= 1 /\ p[1] = Str("result")
    BY <1>2, <2>1, <2>2
  <2>4. c = (<<LBrace>> \o p) \o <<RBrace>>
    BY <1>7 DEF Enclosed
  <2> HIDE DEF p, c
  <2>5. <<LBrace>> \o p \in Seq(Lex) /\ Len(<<LBrace>> \o p) >= 2 /\ (<<LBrace>> \o p)[2] = Str("result")
    BY <2>1, <2>3
  <2>6. 2 \in 1..Len(c) /\ c[2] = Str("result")
    BY <2>1, <2>4, <2>5
  <2> QED BY <2>6 DEF c
<1> DEFINE T == Answer(result, ok, first)
<1>10. T = Object(<<s, r>>) \/ T = Object(<<r, s>>)
  BY <1>5
<1>11. first = FALSE => T = Object(<<r, s>>)
  BY <1>5
<1> HIDE DEF T
<1>12. Carries(T, Str("success"))
  BY <1>3, <1>8, <1>10
<1>13. \A lex : Carries(result, lex) => Carries(T, lex)
  BY <1>3, <1>8, <1>10
<1> QED BY <1>6, <1>9, <1>10, <1>11, <1>12, <1>13 DEF T

\* Records of the zone as a list, in the answers of cloudflare.c and porkbun.c.
Recs(recs, N) ==
  N \in Nat /\ DOMAIN recs = 1..N /\ \A i \in 1..N : recs[i].id \in Ids /\ recs[i].host \in Names

\* A record of the answer is well nested and has its keys.
LEMMA ItemShape ==
  ASSUME NEW r, r.id \in Ids, r.host \in Names
  PROVE  Nested(Vals, Item(r)) /\ Carries(Item(r), Str("id")) /\ Carries(Item(r), Str("name"))
<1> DEFINE a == Member("id", <<Str(r.id)>>)
           b == Member("name", <<Str(r.host)>>)
<1>1. r.id \in Vals /\ r.host \in Vals /\ "id" \in Vals /\ "name" \in Vals
  BY ValsFacts DEF Reserved
<1>2. NestedIn(Vals, a, "object") /\ NestedIn(Vals, b, "object")
  BY <1>1, NestedPlain
<1>3. <<Str(r.id)>> \in Seq(Lex) /\ <<Str(r.host)>> \in Seq(Lex)
  BY <1>1, ValsFacts
<1>4. Carries(a, Str("id")) /\ Carries(b, Str("name"))
  BY <1>1, <1>3, CarriesBuilt
<1>5. Item(r) = Object(<<a, b>>)
  BY DEF Item
<1> HIDE DEF a, b
<1>6. a \in Seq(Lex) /\ b \in Seq(Lex)
  BY <1>4 DEF Carries
<1>7. Nested(Vals, Object(<<a, b>>))
  BY <1>2, NestedObject
<1>8. Object(<<a, b>>) = Enclosed(LBrace, Pair(a, b), RBrace)
  <2>1. Built(a, b, b)
    BY <1>6, ObjectBuilt
  <2> QED BY <2>1 DEF Built
<1>9. Carries(Pair(a, b), Str("id")) /\ Carries(Pair(a, b), Str("name"))
  BY <1>4, <1>6, CarriesBuilt
<1>10. Pair(a, b) \in Seq(Lex) /\ LBrace \in Punctuation /\ RBrace \in Punctuation
  BY <1>9 DEF Carries, Punctuation
<1>11. Carries(Enclosed(LBrace, Pair(a, b), RBrace), Str("id")) /\ Carries(Enclosed(LBrace, Pair(a, b), RBrace), Str("name"))
  BY <1>9, <1>10, CarriesBuilt
<1> QED BY <1>5, <1>7, <1>8, <1>11

\* So is a list of them.
LEMMA ItemsShape ==
  ASSUME NEW recs, NEW N, Recs(recs, N)
  PROVE  Nested(Vals, Items(recs)) /\ Free(Items(recs)) /\ (N >= 1 => Carries(Items(recs), Str("id")))
<1> DEFINE items == [i \in DOMAIN recs |-> Item(recs[i])]
<1>0. N \in Nat /\ DOMAIN recs = 1..N
  BY DEF Recs
<1>1. ASSUME NEW i \in 1..N
      PROVE  Nested(Vals, Item(recs[i])) /\ Carries(Item(recs[i]), Str("id")) /\ Free(Item(recs[i])) /\ Item(recs[i]) \in Seq(Lex)
  <2>1. recs[i].id \in Ids /\ recs[i].host \in Names
    BY DEF Recs
  <2> QED BY <2>1, ItemShape, FreeParts DEF Carries
<1>2. items \in Seq(Seq(Lex)) /\ Len(items) = N /\ \A i \in 1..N : items[i] = Item(recs[i])
  BY <1>0, <1>1
<1>3. Items(recs) = Array(items)
  BY DEF Items
<1> HIDE DEF items
<1>4. Nested(Vals, Array(items))
  BY <1>1, <1>2, NestedArray
<1>5. Free(Array(items))
  <2> DEFINE marks == {Str("success")}
  <2>1. marks \cap Punctuation = {}
    BY StrIs
  <2>2. ASSUME NEW W \in SUBSET Seq(Lex) PROVE Text(Vals, Array(items), marks, W)
    <3>1. \A i \in 1..Len(items) : Text(Vals, items[i], marks, W)
      BY <1>1, <1>2 DEF Free
    <3> HIDE DEF marks
    <3> QED BY <1>2, <2>1, <3>1, TextBuilt DEF Lex
  <2> QED BY <2>2 DEF Free
<1>6. N >= 1 => Carries(Array(items), Str("id"))
  <2> SUFFICES ASSUME N >= 1 PROVE Carries(Array(items), Str("id"))
    OBVIOUS
  <2>1. 1 \in 1..N /\ Carries(items[1], Str("id"))
    BY <1>0, <1>1, <1>2
  <2>2. Carries(Commas(items), Str("id"))
    BY <1>0, <1>2, <2>1, CarriesFirst
  <2>3. Commas(items) \in Seq(Lex) /\ LBracket \in Punctuation /\ RBracket \in Punctuation
    BY <2>2 DEF Carries, Punctuation
  <2>4. Array(items) = Enclosed(LBracket, Commas(items), RBracket)
    BY DEF Array, Enclosed
  <2> QED BY <2>2, <2>3, <2>4, CarriesBuilt
<1> QED BY <1>3, <1>4, <1>5, <1>6

\* An answer that denies the query, or has no body, has no value to copy, and
\* nothing of it is read that was not written.
LEMMA OtherExtract ==
  ASSUME NEW key \in {"id", "name"}, NEW text \in {Denied, <<>>}
  PROVE  /\ Extract(text, key).rc # "OK"
         /\ ~Plugin("porkbun.com") => Extract(text, key).wild = FALSE
<1> DEFINE marks == {Str(key)}
           null == <<Prim("null")>>
<1>1. CASE text = Denied
  <2>1. Denied = Answer(null, "false", TRUE)
    BY DEF Denied, Answer
  <2>2. Prim("null") \in Lex /\ Prim("false") \in Lex /\ key \in Vals /\ "success" \in Vals /\ "null" \in Vals
    BY ValsFacts DEF Reserved
  <2>3. marks \cap Punctuation = {} /\ Str("result") \notin marks /\ Str("success") \notin marks
        /\ Prim("null") \notin marks /\ Prim("false") \notin marks
    BY StrIs
  <2> HIDE DEF marks
  <2>4. {} \in SUBSET Seq(Lex)
    OBVIOUS
  <2>5. Text(Vals, null, marks, {}) /\ Text(Vals, <<Prim("false")>>, marks, {})
    BY <2>2, <2>3, TextOne DEF Lex
  <2>6. Text(Vals, Member("success", <<Prim("false")>>), marks, {})
    BY <2>2, <2>3, <2>4, <2>5, TextBuilt DEF Lex
  <2> HIDE DEF null
  <2>7. Text(Vals, Denied, marks, {})
    BY <2>1, <2>3, <2>4, <2>5, <2>6, AnswerText
  <2>8. Denied \in Seq(Lexemes(Vals)) /\ KeyHas(Denied, key, {})
    <3>1. {Member(key, <<v>>) : v \in {}} = {}
      OBVIOUS
    <3>2. Text(Vals, Denied, {Str(key)}, {Member(key, <<v>>) : v \in {}})
      BY <2>7, <3>1 DEF marks
    <3> QED BY <2>2, <3>2, MemberKey
  <2> DEFINE a == <<"whole", Denied>>
  <2>9. a \in Arrives(Denied) /\ a[1] = "whole" /\ a[2] = Denied
    BY DEF Arrives
  <2> HIDE DEF a
  <2>10. Extract(a[2], key).rc # "OK"
    <3>1. {Str(v) : v \in {}} = {} /\ "nil" \in Vals
      BY ValsFacts
    <3>2. KeyHas(Denied, key, {Str(v) : v \in {}})
      BY <2>8, <3>1
    <3> SUFFICES ASSUME Extract(a[2], key).rc = "OK" PROVE FALSE
      OBVIOUS
    <3>3. Extract(a[2], key).val \in {}
      BY <2>8, <2>9, <3>1, <3>2, ExtractValue
    <3> QED BY <3>3
  <2>11. Whole(Vals, Denied)
    <3>1. Nested(Vals, null)
      BY <2>2, NestedOne DEF null
    <3>2. "false" \in {"true", "false"} /\ TRUE \in BOOLEAN
      OBVIOUS
    <3>3. Whole(Vals, Answer(null, "false", TRUE))
      BY <3>1, <3>2, AnswerWhole
    <3> QED BY <2>1, <3>3
  <2>12. ~Plugin("porkbun.com") => Extract(a[2], key).wild = FALSE
    BY <2>9, <2>11, ExtractWritten
  <2> QED BY <1>1, <2>9, <2>10, <2>12
<1>2. CASE text = <<>>
  <2>1. Counted(<<>>) = {}
    BY DEF Counted
  <2>2. ParseJson(text) = <<>>
    BY <1>2, <2>1 DEF ParseJson
  <2>3. \A from : ResultValue(<<>>, key, from).found = FALSE /\ ResultValue(<<>>, key, from).wild = FALSE
    BY DEF ResultValue, ValueOf
  <2> QED BY <2>2, <2>3 DEF Extract, GetResultValue, Copied
<1> QED BY <1>1, <1>2

\* What json_extract() is given.
LEMMA QueryGives ==
  ASSUME NEW T, NEW a \in QueryArrives(T)
  PROVE  a \in Arrives(T) \/ (a[1] \in {"denied", "empty"} /\ a[2] \in {Denied, <<>>})
BY DEF QueryArrives

\* json_extract() of an "id": one of the records', never missed in a whole
\* answer that has one (in porkbun.c only when "result" stands first), and read
\* from written tokens.
IdRead(x, how, recs, N, first) ==
  /\ x.rc = "OK" => \E j \in 1..N : x.val = recs[j].id
  /\ how = "whole" /\ N >= 1 /\ (Plugin("porkbun.com") => ~first) => x.rc # "NOHOST"
  /\ how # "stray" /\ ~Plugin("porkbun.com") => x.wild = FALSE

\* What json_extract() takes for the ID is one of the list, or cut.
LEMMA IdReadsArrived ==
  ASSUME NEW recs, NEW N, Recs(recs, N), NEW first \in BOOLEAN, NEW a \in Arrives(Answer(Items(recs), "true", first))
  PROVE  IdRead(Extract(a[2], "id"), a[1], recs, N, first)
<1> DEFINE T == Answer(Items(recs), "true", first)
           x == Extract(a[2], "id")
           ids == {recs[i].id : i \in 1..N}
<1>0. N \in Nat /\ DOMAIN recs = 1..N /\ \A i \in 1..N : recs[i].id \in Ids /\ recs[i].host \in Names
  BY DEF Recs
<1>1. T \in Seq(Lexemes(Vals)) /\ KeyHas(T, "id", {Str(v) : v \in ids})
  BY <1>0, IdsText DEF Lex
<1>2. Nested(Vals, Items(recs)) /\ Free(Items(recs)) /\ (N >= 1 => Carries(Items(recs), Str("id")))
  BY ItemsShape
<1>3. /\ Whole(Vals, T) /\ Carries(T, Str("success"))
      /\ \A lex : Carries(Items(recs), lex) => Carries(T, lex)
      /\ first = FALSE => 2 \in 1..Len(T) /\ T[2] = Str("result")
  <2>1. "true" \in {"true", "false"}
    OBVIOUS
  <2> QED BY <1>2, <2>1, AnswerWhole
<1>4. KeyHas(T, "success", {Prim("true")})
  <2>1. "true" \in {"true", "false"}
    OBVIOUS
  <2> QED BY <1>2, <2>1, SuccessText
<1> HIDE DEF T, ids
<1>5. x.rc = "OK" => x.val \in ids
  <2>1. "nil" \in Vals
    BY ValsFacts
  <2> QED BY <1>1, <2>1, ExtractValue DEF T
<1>6. a[1] = "whole" /\ N >= 1 /\ (Plugin("porkbun.com") => ~first) => x.rc # "NOHOST"
  <2> SUFFICES ASSUME a[1] = "whole", N >= 1, Plugin("porkbun.com") => ~first PROVE x.rc # "NOHOST"
    OBVIOUS
  <2>1. Carries(T, Str("id"))
    BY <1>2, <1>3
  <2>2. Plugin("porkbun.com") => 2 \in 1..Len(T) /\ T[2] = Str("result")
    BY <1>3
  <2> QED BY <1>1, <1>3, <1>4, <2>1, <2>2, WholeExtract DEF T
<1>7. a[1] # "stray" /\ ~Plugin("porkbun.com") => x.wild = FALSE
  BY <1>3, ExtractWritten DEF T
<1> HIDE DEF x
<1>8. x.rc = "OK" => \E j \in 1..N : x.val = recs[j].id
  BY <1>5 DEF ids
<1>9. IdRead(x, a[1], recs, N, first)
  BY <1>6, <1>7, <1>8 DEF IdRead
<1> QED BY <1>9 DEF x

\* The same of any answer to the query.
LEMMA IdReads ==
  ASSUME NEW recs, NEW N, Recs(recs, N), NEW first \in BOOLEAN, NEW a \in QueryArrives(Answer(Items(recs), "true", first))
  PROVE  IdRead(Extract(a[2], "id"), a[1], recs, N, first)
<1>1. CASE a \in Arrives(Answer(Items(recs), "true", first))
  BY <1>1, IdReadsArrived
<1>2. CASE a[1] \in {"denied", "empty"} /\ a[2] \in {Denied, <<>>}
  BY <1>2, OtherExtract DEF IdRead
<1> QED BY <1>1, <1>2, QueryGives

\* json_extract() of the "name" of the record that was asked for.
NameRead(x, how, r) ==
  /\ x.rc = "OK" => x.val = r.host
  /\ how = "whole" => x.rc # "NOHOST"
  /\ how # "stray" => x.wild = FALSE

\* What it takes for the name is the record's, or cut.
LEMMA NameReadsArrived ==
  ASSUME NEW r, r.id \in Ids, r.host \in Names, ~Plugin("porkbun.com"), NEW a \in Arrives(Answer(Item(r), "true", FALSE))
  PROVE  NameRead(Extract(a[2], "name"), a[1], r)
<1> DEFINE T == Answer(Item(r), "true", FALSE)
           x == Extract(a[2], "name")
           hosts == {r.host}
<1>1. T \in Seq(Lexemes(Vals)) /\ KeyHas(T, "name", {Str(v) : v \in hosts})
  BY NameText DEF Lex
<1>2. Nested(Vals, Item(r)) /\ Free(Item(r)) /\ Carries(Item(r), Str("name"))
  BY ItemShape, FreeParts
<1>3. "true" \in {"true", "false"} /\ FALSE \in BOOLEAN
  OBVIOUS
<1>4. Whole(Vals, T) /\ Carries(T, Str("success")) /\ Carries(T, Str("name"))
  BY <1>2, <1>3, AnswerWhole
<1>5. KeyHas(T, "success", {Prim("true")})
  BY <1>2, <1>3, SuccessText
<1> HIDE DEF T, hosts
<1>6. x.rc = "OK" => x.val \in hosts
  <2>1. "nil" \in Vals
    BY ValsFacts
  <2> QED BY <1>1, <2>1, ExtractValue DEF T
<1>7. a[1] = "whole" => x.rc # "NOHOST"
  BY <1>1, <1>4, <1>5, WholeExtract DEF T
<1>8. a[1] # "stray" => x.wild = FALSE
  BY <1>4, ExtractWritten DEF T
<1> HIDE DEF x
<1>9. NameRead(x, a[1], r)
  BY <1>6, <1>7, <1>8 DEF NameRead, hosts
<1> QED BY <1>9 DEF x

\* The same of any answer to the query.
LEMMA NameReads ==
  ASSUME NEW r, r.id \in Ids, r.host \in Names, ~Plugin("porkbun.com"), NEW a \in QueryArrives(Answer(Item(r), "true", FALSE))
  PROVE  NameRead(Extract(a[2], "name"), a[1], r)
<1>1. CASE a \in Arrives(Answer(Item(r), "true", FALSE))
  BY <1>1, NameReadsArrived
<1>2. CASE a[1] \in {"denied", "empty"} /\ a[2] \in {Denied, <<>>}
  BY <1>2, OtherExtract DEF NameRead
<1> QED BY <1>1, <1>2, QueryGives

\* The "id" of the zone.
LEMMA ZoneWhole ==
  ASSUME NEW first \in BOOLEAN
  PROVE  Whole(Vals, Answer(ZoneItem, "true", first))
<1> DEFINE m == Member("id", <<Str("zone")>>)
           o == Object(<<m>>)
           t == <<o>>
<1>1. NestedIn(Vals, m, "object")
  <2>1. "id" \in Vals /\ "zone" \in Vals
    BY ValsFacts DEF Reserved
  <2> QED BY <2>1, NestedPlain
<1>2. ZoneItem = Array(t)
  BY DEF ZoneItem
<1>3. Nested(Vals, o)
  <2> HIDE DEF m
  <2> QED BY <1>1, NestedObject
<1> HIDE DEF o
<1>4. o \in Seq(Lex)
  BY <1>3 DEF Nested, Lex
<1>5. t \in Seq(Seq(Lex)) /\ Len(t) = 1 /\ t[1] = o
  BY <1>4
<1> HIDE DEF t
<1>6. \A i \in 1..Len(t) : Nested(Vals, t[i])
  BY <1>3, <1>5
<1>7. Nested(Vals, ZoneItem)
  BY <1>2, <1>5, <1>6, NestedArray
<1>8. "true" \in {"true", "false"}
  OBVIOUS
<1> QED BY <1>7, <1>8, AnswerWhole

\* The query for the zone reads written tokens only.
LEMMA ZoneReads ==
  ASSUME ~Plugin("porkbun.com"), NEW first \in BOOLEAN, NEW a \in QueryArrives(Answer(ZoneItem, "true", first)), a[1] # "stray"
  PROVE  Extract(a[2], "id").wild = FALSE
<1>1. CASE a \in Arrives(Answer(ZoneItem, "true", first))
  BY <1>1, ZoneWhole, ExtractWritten
<1>2. CASE a[1] \in {"denied", "empty"} /\ a[2] \in {Denied, <<>>}
  BY <1>2, OtherExtract
<1> QED BY <1>1, <1>2, QueryGives

-----------------------------------------------------------------------------
(* What response() reads of the answer to an update *)

\* A success is read only if the answer says so, from a whole one always, and
\* from tokens that were written.
DoneRead(r, how, done) ==
  /\ r.ok => done
  /\ how = "whole" /\ done => r.ok
  /\ how # "stray" => r.wild = FALSE

\* check_success_only() is right about the update.
LEMMA SuccessReads ==
  ASSUME NEW done \in BOOLEAN, NEW first \in BOOLEAN,
         NEW a \in Arrives(Answer(<<Str("record")>>, IF done THEN "true" ELSE "false", first))
  PROVE  DoneRead(CheckSuccessOnly(a[2]), a[1], done)
<1> DEFINE ok == IF done THEN "true" ELSE "false"
           result == <<Str("record")>>
           T == Answer(result, ok, first)
           toks == ParseJson(a[2])
           r == CheckSuccess(toks, 0)
<1>0. ok \in {"true", "false"} /\ "record" \in Vals
  BY ValsFacts
<1>1. Nested(Vals, result) /\ Free(result)
  BY <1>0, NestedOne, FreeParts
<1> HIDE DEF ok, result
<1>2. T \in Seq(Lexemes(Vals)) /\ KeyHas(T, "success", {Prim(ok)})
  BY <1>0, <1>1, SuccessText DEF Lex
<1>3. Whole(Vals, T) /\ Carries(T, Str("success"))
  BY <1>0, <1>1, AnswerWhole
<1>4. a \in Arrives(T)
  BY DEF ok, result
<1> HIDE DEF T
<1>5. toks \in Seq(TokenSet(Vals)) /\ KeyReads(toks, "success", {Prim(ok)})
  <2>1. "nil" \in Vals /\ \A s \in {Prim(ok)} : IsCounted(s)
    BY ValsFacts, LexFacts
  <2> QED BY <1>2, <1>4, <2>1, ArrivesKey
<1>6. r.ok => done
  <2> SUFFICES ASSUME r.ok PROVE done
    OBVIOUS
  <2>1. PICK s \in {Prim(ok)} : Writes([type |-> "primitive", v |-> "true"], s)
    <3>1. 0 \in {0, 1}
      OBVIOUS
    <3> HIDE DEF toks
    <3> QED BY <1>5, <3>1, SuccessFound
  <2>2. ok = "true"
    BY <2>1, LexFacts DEF Writes
  <2> QED BY <2>2 DEF ok
<1>7. a[1] = "whole" /\ done => r.ok
  <2> SUFFICES ASSUME a[1] = "whole", done PROVE r.ok
    OBVIOUS
  <2>1. toks = ParseJson(T) /\ ok = "true"
    BY <1>3, <1>4, ArrivesWritten DEF ok
  <2>2. KeyComplete(toks, "success", {Prim("true")})
    <3>1. \A s \in {Prim(ok)} : IsCounted(s)
      BY LexFacts
    <3>2. KeyComplete(ParseJson(T), "success", {Prim(ok)})
      BY <1>2, <1>3, <3>1, KeyFull
    <3> QED BY <2>1, <3>2
  <2>3. PICK k \in 2..Len(toks) : IsString(toks[k], "success")
    <3>1. PICK j \in 1..Len(T) : T[j] = Str("success")
      BY <1>3 DEF Carries
    <3> QED BY <1>3, <2>1, <3>1, KeyThere
  <2> HIDE DEF toks
  <2>4. k \in (2 + 0)..Len(toks) /\ 0 \in {0, 1}
    OBVIOUS
  <2> QED BY <1>5, <2>2, <2>3, <2>4, SuccessRead
<1>8. a[1] # "stray" => r.wild = FALSE
  <2> SUFFICES ASSUME a[1] # "stray" PROVE r.wild = FALSE
    OBVIOUS
  <2>1. Written(toks)
    BY <1>3, <1>4, ArrivesWritten
  <2> HIDE DEF toks
  <2> QED BY <1>5, <2>1, NoWild
<1>9. CheckSuccessOnly(a[2]) = r
  BY DEF CheckSuccessOnly
<1> HIDE DEF r
<1> QED BY <1>6, <1>7, <1>8, <1>9 DEF DoneRead

YandexDone(done) ==
  Object(<<Member("record", <<Str("record")>>), Member("success", <<Str(IF done THEN "ok" ELSE "error")>>)>>)

\* So is the test of yandex.c.
LEMMA OkReads ==
  ASSUME NEW done \in BOOLEAN, NEW a \in Arrives(YandexDone(done))
  PROVE  (Success(a[2]) => done) /\ (a[1] = "whole" /\ done => Success(a[2]))
<1> DEFINE ok == IF done THEN "ok" ELSE "error"
           r == Member("record", <<Str("record")>>)
           s == Member("success", <<Str(ok)>>)
           T == Object(<<r, s>>)
           toks == GetTokens(a[2])
<1>0. ok \in {"ok", "error"} /\ ok \in Vals /\ "record" \in Vals /\ "success" \in Vals
  BY ValsFacts DEF Reserved
<1>1. YandexDone(done) = T
  BY DEF YandexDone
<1> HIDE DEF ok
<1>2. T \in Seq(Lexemes(Vals)) /\ KeyHas(T, "success", {Str(ok)})
  BY <1>0, YandexDoneText DEF Lex
<1>3. NestedIn(Vals, r, "object") /\ NestedIn(Vals, s, "object")
  BY <1>0, NestedPlain
<1>4. Carries(s, Str("success")) /\ r \in Seq(Lex)
  <2>1. <<Str(ok)>> \in Seq(Lex)
    BY <1>0, ValsFacts
  <2> QED BY <1>0, <1>3, <2>1, CarriesBuilt DEF NestedIn, Lex
<1> HIDE DEF r, s
<1>5. Whole(Vals, T)
  BY <1>3, NestedObject
<1>6. Carries(T, Str("success"))
  <2>0. s \in Seq(Lex)
    BY <1>4 DEF Carries
  <2>1. T = Enclosed(LBrace, Pair(r, s), RBrace)
    <3>1. Built(r, s, s)
      BY <1>4, <2>0, ObjectBuilt
    <3> QED BY <3>1 DEF Built
  <2>2. Carries(Pair(r, s), Str("success"))
    BY <1>4, <2>0, CarriesBuilt
  <2>3. Pair(r, s) \in Seq(Lex) /\ LBrace \in Punctuation /\ RBrace \in Punctuation
    BY <2>2 DEF Carries, Punctuation
  <2> QED BY <2>1, <2>2, <2>3, CarriesBuilt
<1>7. a \in Arrives(T)
  BY <1>1
<1> HIDE DEF T
<1>8. toks \in Seq(TokenSet(Vals)) /\ KeyReads(toks, "success", {Str(ok)})
  <2>1. "nil" \in Vals /\ \A l \in {Str(ok)} : IsCounted(l)
    BY ValsFacts, LexFacts
  <2> QED BY <1>2, <1>7, <2>1, ArrivesKey
<1>9. HasSuccess(toks) => done
  <2> SUFFICES ASSUME HasSuccess(toks) PROVE done
    OBVIOUS
  <2>1. PICK l \in {Str(ok)} : Writes([type |-> "string", v |-> "ok"], l)
    <3> HIDE DEF toks
    <3> QED BY <1>8, OkFound
  <2>2. ok = "ok"
    BY <2>1, LexFacts DEF Writes
  <2> QED BY <2>2 DEF ok
<1>10. a[1] = "whole" /\ done => HasSuccess(toks)
  <2> SUFFICES ASSUME a[1] = "whole", done PROVE HasSuccess(toks)
    OBVIOUS
  <2>1. toks = ParseJson(T) /\ ok = "ok"
    <3>1. GetTokens(T) = ParseJson(T)
      BY <1>5, WholeTokens
    <3> QED BY <1>5, <1>7, <3>1, ArrivesWritten DEF ok
  <2>2. KeyComplete(toks, "success", {Str("ok")})
    <3>1. \A l \in {Str(ok)} : IsCounted(l)
      BY LexFacts
    <3>2. KeyComplete(ParseJson(T), "success", {Str(ok)})
      BY <1>2, <1>5, <3>1, KeyFull
    <3> QED BY <2>1, <3>2
  <2>3. PICK k \in 2..Len(toks) : IsString(toks[k], "success")
    <3>1. PICK j \in 1..Len(T) : T[j] = Str("success")
      BY <1>6 DEF Carries
    <3> QED BY <1>5, <2>1, <3>1, KeyThere
  <2> HIDE DEF toks
  <2> QED BY <1>8, <2>2, <2>3, OkRead
<1> QED BY <1>9, <1>10 DEF Success

-----------------------------------------------------------------------------
(* The inductive invariant *)

\* The names a record may have: of the zone, of an alias, or what cloudxns.c
\* makes of one and of the domain as its answer gives it.
DomainTexts == Domains \cup (UNION {Cuts(d) : d \in Domains}) \cup {"none"}
Made == Hosts \cup {"@", "", "none"} \cup {Shortened(x[1], x[2]) : x \in Names \X DomainTexts}
Rec == [id : Ids, domain : Domains, host : Names \cup Made, type : AnyType, value : AnyType \X Nat]

PhaseInv ==
  /\ obj \in Plugins
  /\ pc \in {"idle", "zone", "record", "edit", "answer", "done"}
  /\ pc = "idle" => round = 0
  /\ pc # "idle" => round \in 1..MaxRounds
  /\ pc \in {"idle", "zone", "record", "edit"} => act = Nothing
  /\ pc \in {"idle", "zone", "record"} => id = "none"
  /\ pc \in {"zone", "record"} => OneOf(Asks)
  /\ open \in 0..failed /\ failed \in 0..round
  /\ pc \in {"zone", "record", "edit", "answer"} => failed < round

ZoneInv ==
  /\ zone \in Seq(Rec) /\ Distinct(zone)
  /\ ~Plugin("cloudxns.net") => \A i \in 1..Len(zone) : zone[i].host \in Names /\ zone[i].domain = Own
  /\ ~OneOf(Asks) => \A i \in 1..Len(zone) : zone[i].host = "www" /\ zone[i].type = Type

NameInv ==
  /\ given \in Names /\ given \notin NewIds
  /\ ~OneOf(Asks) => given = "www"
  /\ name \in {given, HostOf(given)}
  /\ IsId(given) => /\ Plugin("cloudflare.com") /\ HostOf(given) \in Hosts
                    /\ \A i \in 1..Len(zone) : zone[i].id = given => zone[i].type = Type

\* What cloudxns.c has chosen and made.
PrefixInv ==
  /\ account \in Seq(Domains) /\ prefix \in Made
  /\ domain \in [id : Domains \cup {"none"}, name : DomainTexts]

\* What setup() has found when it ends: the record of this ID is the named one,
\* and where there is none the zone has no such record.
EditInv ==
  pc = "edit" =>
    /\ id # "none" => name = HostOf(given)
    /\ OneOf(Asks) => \A r \in ToSet(zone) : r.id = id => Named(r)

MissingInv ==
  pc = "edit" /\ Creates =>
    \/ query \in {"cut", "stray", "denied", "empty"}
    \/ /\ name = HostOf(given)
       /\ \A i \in 1..Len(zone) : ~(zone[i].host = name /\ zone[i].type = Type)

Inv == PhaseInv /\ ZoneInv /\ NameInv /\ PrefixInv /\ EditInv /\ MissingInv

-----------------------------------------------------------------------------
(* The zone: what an update of it keeps *)

IdIn(z, a)   == \E i \in 1..Len(z) : z[i].id = a
HostIn(z, a) == IF IdIn(z, a) THEN (CHOOSE r \in ToSet(z) : r.id = a).host ELSE a
DistinctIn(z) == \A i, j \in 1..Len(z) : z[i].id = z[j].id => i = j

\* IDs and names of the zone by position.
LEMMA ZoneOf ==
  ASSUME NEW R, zone \in Seq(R)
  PROVE  /\ \A a : IsId(a) <=> IdIn(zone, a)
         /\ \A a : HostOf(a) = HostIn(zone, a)
         /\ Distinct(zone) <=> DistinctIn(zone)
<1>1. DOMAIN zone = 1..Len(zone)
  OBVIOUS
<1>2. \A a : IsId(a) <=> IdIn(zone, a)
  BY <1>1 DEF IsId, IdIn
<1>3. ASSUME NEW a PROVE HostOf(a) = HostIn(zone, a)
  <2> DEFINE h == (CHOOSE r \in ToSet(zone) : r.id = a).host
  <2>1. HostOf(a) = IF IsId(a) THEN h ELSE a
    BY DEF HostOf
  <2>2. HostIn(zone, a) = IF IdIn(zone, a) THEN h ELSE a
    BY DEF HostIn
  <2> HIDE DEF h
  <2> QED BY <1>2, <2>1, <2>2
<1>4. Distinct(zone) <=> DistinctIn(zone)
  BY <1>1 DEF Distinct, DistinctIn
<1> QED BY <1>2, <1>3, <1>4

\* The same after a step.
LEMMA ZoneOfNext ==
  ASSUME NEW R, zone' \in Seq(R)
  PROVE  /\ \A a : IsId(a)' <=> IdIn(zone', a)
         /\ HostOf(given)' = HostIn(zone', given')
         /\ Distinct(zone)' <=> DistinctIn(zone')
         /\ IsId(given)' <=> IdIn(zone', given')
         /\ IsId(id)' <=> IdIn(zone', id')
<1>1. DOMAIN zone' = 1..Len(zone')
  OBVIOUS
<1>2. \A a : IsId(a)' <=> IdIn(zone', a)
  BY <1>1 DEF IsId, IdIn
<1>3. (IsId(given)' <=> IdIn(zone', given')) /\ (IsId(id)' <=> IdIn(zone', id'))
  BY <1>1 DEF IsId, IdIn
<1>4. HostOf(given)' = HostIn(zone', given')
  <2> DEFINE h == (CHOOSE r \in ToSet(zone') : r.id = given').host
  <2>1. HostOf(given)' = IF IsId(given)' THEN h ELSE given'
    BY DEF HostOf
  <2>2. HostIn(zone', given') = IF IdIn(zone', given') THEN h ELSE given'
    BY DEF HostIn
  <2> HIDE DEF h
  <2> QED BY <1>3, <2>1, <2>2
<1>5. Distinct(zone)' <=> DistinctIn(zone')
  BY <1>1 DEF Distinct, DistinctIn
<1> QED BY <1>2, <1>3, <1>4, <1>5

\* The name of a record's ID is its name.
LEMMA HostInIs ==
  ASSUME NEW R, NEW z \in Seq(R), DistinctIn(z), NEW i \in 1..Len(z)
  PROVE  HostIn(z, z[i].id) = z[i].host
<1> DEFINE a == z[i].id
           r == CHOOSE q \in ToSet(z) : q.id = a
<1>1. ToSet(z) = {z[j] : j \in 1..Len(z)}
  BY DEF ToSet
<1>2. z[i] \in ToSet(z)
  BY <1>1
<1>3. r \in ToSet(z) /\ r.id = a
  <2>1. \E q \in ToSet(z) : q.id = a
    BY <1>2
  <2> QED BY <2>1, Zenon
<1>4. HostIn(z, a) = r.host
  <2>1. IdIn(z, a)
    BY DEF IdIn
  <2> QED BY <2>1, Zenon DEF HostIn
<1> HIDE DEF r
<1>5. PICK j \in 1..Len(z) : r = z[j]
  BY <1>1, <1>3
<1>6. j = i
  BY <1>3, <1>5 DEF DistinctIn
<1> QED BY <1>4, <1>5, <1>6

\* A record keeps its ID, and the alias its host.
EditsTo(R, z, i, r, a, y) ==
  /\ y \in Seq(R) /\ Len(y) = Len(z) /\ y[i] = r /\ \A j \in 1..Len(z) : y[j].id = z[j].id /\ (j # i => y[j] = z[j])
  /\ DistinctIn(y) /\ (\A b : IdIn(y, b) <=> IdIn(z, b)) /\ HostIn(y, a) = HostIn(z, a)

\* A record edited in place keeps IDs and the name of the alias.
LEMMA ZoneEdit ==
  ASSUME NEW R, NEW z \in Seq(R), DistinctIn(z), NEW i \in 1..Len(z), NEW r \in R, r.id = z[i].id, NEW a,
         z[i].id = a => r.host = z[i].host
  PROVE  EditsTo(R, z, i, r, a, [z EXCEPT ![i] = r])
<1> DEFINE y == [z EXCEPT ![i] = r]
<1>1. y \in Seq(R) /\ Len(y) = Len(z) /\ y[i] = r /\ \A j \in 1..Len(z) : j # i => y[j] = z[j]
  OBVIOUS
<1>2. \A j \in 1..Len(z) : y[j].id = z[j].id
  BY <1>1
<1> HIDE DEF y
<1>3. DistinctIn(y)
  BY <1>1, <1>2 DEF DistinctIn
<1>4. \A b : IdIn(y, b) <=> IdIn(z, b)
  BY <1>1, <1>2 DEF IdIn
<1>5. HostIn(y, a) = HostIn(z, a)
  <2>1. CASE ~IdIn(z, a)
    BY <1>4, <2>1, Zenon DEF HostIn
  <2>2. CASE IdIn(z, a)
    <3>1. PICK j \in 1..Len(z) : z[j].id = a
      BY <2>2 DEF IdIn
    <3>2. y[j].id = a /\ y[j].host = z[j].host
      BY <1>1, <1>2, <3>1
    <3>3. HostIn(z, z[j].id) = z[j].host
      BY HostInIs
    <3>4. HostIn(y, y[j].id) = y[j].host
      BY <1>1, <1>3, HostInIs
    <3> QED BY <3>1, <3>2, <3>3, <3>4
  <2> QED BY <2>1, <2>2
<1>6. EditsTo(R, z, i, r, a, y)
  BY <1>1, <1>2, <1>3, <1>4, <1>5 DEF EditsTo
<1> QED BY <1>6 DEF y

\* A record with a new ID.
LEMMA ZoneAppend ==
  ASSUME NEW R, NEW z \in Seq(R), DistinctIn(z), NEW r \in R, ~IdIn(z, r.id), NEW a, r.id # a
  PROVE  LET y == Append(z, r) IN
         /\ y \in Seq(R) /\ Len(y) = Len(z) + 1 /\ y[Len(z) + 1] = r /\ \A j \in 1..Len(z) : y[j] = z[j]
         /\ DistinctIn(y) /\ (\A b : IdIn(z, b) => IdIn(y, b)) /\ (IdIn(y, a) <=> IdIn(z, a)) /\ HostIn(y, a) = HostIn(z, a)
<1> DEFINE y == Append(z, r)
<1>1. y \in Seq(R) /\ Len(z) \in Nat /\ Len(y) = Len(z) + 1 /\ y[Len(z) + 1] = r /\ \A j \in 1..Len(z) : y[j] = z[j]
  OBVIOUS
<1>a. \A j \in 1..Len(y) : j \in 1..Len(z) \/ j = Len(z) + 1
  BY <1>1
<1> HIDE DEF y
<1>3. DistinctIn(y)
  <2> SUFFICES ASSUME NEW j \in 1..Len(y), NEW k \in 1..Len(y), y[j].id = y[k].id PROVE j = k
    BY DEF DistinctIn
  <2>1. CASE j \in 1..Len(z) /\ k \in 1..Len(z)
    BY <1>1, <2>1 DEF DistinctIn
  <2>2. CASE j = Len(z) + 1 /\ k \in 1..Len(z)
    BY <1>1, <2>2 DEF IdIn
  <2>3. CASE k = Len(z) + 1 /\ j \in 1..Len(z)
    BY <1>1, <2>3 DEF IdIn
  <2> QED BY <1>a, <2>1, <2>2, <2>3
<1>4. \A b : IdIn(y, b) <=> IdIn(z, b) \/ b = r.id
  <2> SUFFICES ASSUME NEW b PROVE IdIn(y, b) <=> IdIn(z, b) \/ b = r.id
    OBVIOUS
  <2>1. ASSUME IdIn(y, b) PROVE IdIn(z, b) \/ b = r.id
    BY <1>1, <1>a, <2>1 DEF IdIn
  <2>2. ASSUME IdIn(z, b) PROVE IdIn(y, b)
    BY <1>1, <2>2 DEF IdIn
  <2>3. ASSUME b = r.id PROVE IdIn(y, b)
    BY <1>1, <2>3 DEF IdIn
  <2> QED BY <2>1, <2>2, <2>3
<1>5. HostIn(y, a) = HostIn(z, a)
  <2>0. IdIn(y, a) <=> IdIn(z, a)
    BY <1>4
  <2>1. CASE ~IdIn(z, a)
    BY <2>0, <2>1, Zenon DEF HostIn
  <2>2. CASE IdIn(z, a)
    <3>1. PICK j \in 1..Len(z) : z[j].id = a
      BY <2>2 DEF IdIn
    <3>2. j \in 1..Len(y) /\ y[j] = z[j]
      BY <1>1, <3>1
    <3>3. HostIn(z, z[j].id) = z[j].host
      BY HostInIs
    <3>4. HostIn(y, y[j].id) = y[j].host
      BY <1>1, <1>3, <3>2, HostInIs
    <3> QED BY <3>1, <3>2, <3>3, <3>4
  <2> QED BY <2>1, <2>2
<1> QED BY <1>1, <1>3, <1>4, <1>5 DEF y

-----------------------------------------------------------------------------
(* The invariant holds at first, and where a step leaves zone and alias alone *)

\* The family of a plugin.
LEMMA Family ==
  ASSUME obj \in Plugins
  PROVE  Type \in AnyType /\ (Plugin("pdd.yandex.ru") => Type = "A")
<1>1. obj.domain = "pdd.yandex.ru" => ~obj.v6
  BY TablesAssumption
<1> QED BY <1>1 DEF Type, V6, AnyType, Plugin

\* The six plugins that ask first, and that a plugin is one of them at most.
LEMMA AsksOne ==
  /\ Plugin("cloudflare.com") \/ Plugin("porkbun.com") \/ Plugin("pdd.yandex.ru") \/ Plugin("cloudxns.net")
       \/ Plugin("dnspod.cn") \/ Plugin("freedns.afraid.org") <=> OneOf(Asks)
  /\ \A d, e : Plugin(d) /\ Plugin(e) => d = e
BY DEF Plugin, OneOf, Asks

\* The zone at the start.
LEMMA InitZone ==
  ASSUME Init
  PROVE  /\ zone \in Seq(Rec) /\ DistinctIn(zone) /\ \A i \in 1..Len(zone) : zone[i].host \in Hosts
         /\ ~Plugin("cloudxns.net") => \A i \in 1..Len(zone) : zone[i].domain = Own
         /\ ~OneOf(Asks) => \A i \in 1..Len(zone) : zone[i].host = "www" /\ zone[i].type = Type
<1>0. Type \in AnyType
  BY Family DEF Init
<1>1. CASE OneOf(Asks)
  <2>1. zone \in Zones
    BY <1>1 DEF Init
  <2>2. zone \in Zone(Ids \ NewIds) /\ Distinct(zone) /\ \A i \in DOMAIN zone : zone[i].host \in Hosts
    BY <2>1, ZonesAssumption
  <2> DEFINE Old == [id : Ids \ NewIds, domain : Domains, host : Hosts \cup Aliases,
                     type : {"A", "AAAA"}, value : {"A", "AAAA"} \X Nat]
  <2>3. Old \subseteq Rec
    BY DEF Rec, Names, AnyType
  <2>4. zone \in Seq(Old)
    BY <2>2 DEF Zone
  <2> HIDE DEF Old
  <2>5. zone \in Seq(Rec) /\ DOMAIN zone = 1..Len(zone)
    BY <2>3, <2>4
  <2>6. DistinctIn(zone)
    BY <2>2, <2>5, ZoneOf
  <2>7. ~Plugin("cloudxns.net") => \A i \in 1..Len(zone) : zone[i].domain = Own
    BY <2>5 DEF Init, ToSet
  <2> QED BY <1>1, <2>2, <2>5, <2>6, <2>7
<1>2. CASE ~OneOf(Asks)
  <2> DEFINE r == Record("1", "www", Type)
  <2>1. zone = <<r>>
    BY <1>2 DEF Init
  <2>2. /\ r.id = "1" /\ r.domain = Own /\ r.host = "www" /\ r.type = Type
        /\ r \in Rec /\ "www" \in Hosts
    BY <1>0, NamesAssumption, AccountsAssumption DEF Record, RecordIn, Rec, Names, AnyType
  <2> HIDE DEF r
  <2>3. zone \in Seq(Rec) /\ Len(zone) = 1 /\ zone[1] = r
    BY <2>1, <2>2
  <2> QED BY <1>2, <2>2, <2>3 DEF DistinctIn
<1> QED BY <1>1, <1>2

\* cloudxns.c has chosen nothing yet.
LEMMA NothingChosen ==
  "none" \in Made /\ NoDomain \in [id : Domains \cup {"none"}, name : DomainTexts]
<1>1. "none" \in {"@", "", "none"} /\ "none" \in {"none"}
  OBVIOUS
<1>2. \A A, B, C : "none" \in B => "none" \in A \cup B \cup C /\ "none" \in A \cup C \cup B /\ "none" \in A \cup B
  OBVIOUS
<1>3. "none" \in Made
  BY <1>1, <1>2, Zenon DEF Made
<1>4. "none" \in DomainTexts /\ "none" \in Domains \cup {"none"}
  BY <1>1, <1>2, Zenon DEF DomainTexts
<1> QED BY <1>3, <1>4 DEF NoDomain

\* The invariant holds at the start.
LEMMA InitInv == Init => Inv
<1> SUFFICES ASSUME Init PROVE Inv
  OBVIOUS
<1>1. /\ zone \in Seq(Rec) /\ DistinctIn(zone) /\ \A i \in 1..Len(zone) : zone[i].host \in Hosts
      /\ ~Plugin("cloudxns.net") => \A i \in 1..Len(zone) : zone[i].domain = Own
      /\ ~OneOf(Asks) => \A i \in 1..Len(zone) : zone[i].host = "www" /\ zone[i].type = Type
  BY InitZone
<1>2. /\ \A a : IsId(a) <=> IdIn(zone, a)
      /\ \A a : HostOf(a) = HostIn(zone, a)
      /\ Distinct(zone)
  BY <1>1, ZoneOf
<1>3. PhaseInv
  BY BoundsAssumption DEF Init, PhaseInv
<1>4. ZoneInv
  BY <1>1, <1>2 DEF ZoneInv, Names
<1>5. NameInv
  <2>1. given \in Names /\ given \notin NewIds /\ (~OneOf(Asks) => given = "www") /\ name = given
    BY NamesAssumption DEF Init, Names
  <2>2. ASSUME IsId(given)
        PROVE  /\ Plugin("cloudflare.com") /\ HostOf(given) \in Hosts
               /\ \A i \in 1..Len(zone) : zone[i].id = given => zone[i].type = Type
    <3>1. PICK r \in ToSet(zone) : r.id = given /\ r.type = Type
      BY <2>2 DEF Init
    <3>2. PICK j \in 1..Len(zone) : r = zone[j]
      BY <1>1, <3>1 DEF ToSet
    <3>3. HostIn(zone, zone[j].id) = zone[j].host
      BY <1>1, HostInIs
    <3>4. HostOf(given) \in Hosts
      BY <1>1, <1>2, <3>1, <3>2, <3>3
    <3>5. \A i \in 1..Len(zone) : zone[i].id = given => zone[i].type = Type
      BY <1>1, <3>1, <3>2 DEF DistinctIn
    <3> QED BY <2>2, <3>4, <3>5 DEF Init
  <2> QED BY <2>1, <2>2 DEF NameInv
<1>6. EditInv /\ MissingInv
  BY DEF Init, EditInv, MissingInv
<1>7. PrefixInv
  <2>1. account \in Seq(Domains)
    <3>1. <<Own>> \in Seq(Domains)
      BY AccountsAssumption
    <3> QED BY <3>1, AccountsAssumption DEF Init
  <2>2. prefix = "none" /\ domain = NoDomain
    BY DEF Init
  <2> QED BY <2>1, <2>2, NothingChosen DEF PrefixInv
<1> QED BY <1>3, <1>4, <1>5, <1>6, <1>7 DEF Inv

\* Where the zone, the plugin and the alias are left alone.
Still == UNCHANGED <<obj, given, zone>>

\* What a step that leaves plugin, alias and zone alone keeps.
LEMMA Kept ==
  ASSUME Inv, Still
  PROVE  /\ ZoneInv' /\ HostOf(given)' = HostOf(given) /\ (\A a : IsId(a)' <=> IsId(a)) /\ Type' = Type
         /\ \A d : Plugin(d)' <=> Plugin(d)
         /\ \A D : OneOf(D)' <=> OneOf(D)
         /\ \A r : query' = query /\ cx' = cx => (Named(r)' <=> Named(r))
         /\ name' = name => NameInv'
<1>0. zone' = zone /\ obj' = obj /\ given' = given /\ zone \in Seq(Rec)
  BY DEF Still, Inv, ZoneInv
<1>1. Type' = Type /\ (\A d : Plugin(d)' <=> Plugin(d)) /\ (\A D : OneOf(D)' <=> OneOf(D))
  BY <1>0 DEF Type, V6, Plugin, OneOf
<1>2. (\A a : IsId(a)' <=> IsId(a))
  BY <1>0 DEF IsId
<1>3. HostOf(given)' = HostOf(given)
  <2>1. HostOf(given) = HostIn(zone, given)
    BY <1>0, ZoneOf
  <2>2. HostOf(given)' = HostIn(zone', given')
    BY <1>0, ZoneOfNext
  <2> QED BY <1>0, <2>1, <2>2
<1>4. IsId(given)' <=> IsId(given)
  BY <1>0 DEF IsId
<1>5. ZoneInv'
  <2>1. Distinct(zone)' <=> Distinct(zone)
    BY <1>0 DEF Distinct
  <2> QED BY <1>0, <1>1, <2>1 DEF ZoneInv, Inv
<1>6. \A r : query' = query /\ cx' = cx => (Named(r)' <=> Named(r))
  BY <1>0, <1>1, <1>3 DEF Named, CutTo, cx
<1>7. name' = name => NameInv'
  BY <1>0, <1>1, <1>3, <1>4 DEF NameInv, Inv
<1> QED BY <1>1, <1>2, <1>3, <1>5, <1>6, <1>7

\* Only cloudflare.c takes an ID for an alias.
LEMMA PlainName ==
  ASSUME Inv, ~Plugin("cloudflare.com")
  PROVE  ~IsId(given) /\ HostOf(given) = given /\ name = given
<1>1. ~IsId(given)
  BY DEF Inv, NameInv
<1>2. HostOf(given) = given
  BY <1>1 DEF HostOf
<1> QED BY <1>1, <1>2 DEF Inv, NameInv

\* When the record that was found is the named one.
LEMMA NamedNext ==
  ASSUME Inv, Still, NEW r
  PROVE  /\ r.domain = Own /\ r.host = HostOf(given) /\ r.type = Type => Named(r)'
         /\ Plugin("porkbun.com") => Named(r)'
         /\ Plugin("dnspod.cn") /\ ((r.domain = Own /\ r.host = HostOf(given)) \/ query' = "cut") => Named(r)'
         /\ Plugin("freedns.afraid.org") /\ r.domain = Own /\ r.host = HostOf(given) => Named(r)'
         /\ /\ Plugin("cloudxns.net") /\ r.domain = domain'.id
            /\ r.host = prefix' \/ (query' = "cut" /\ prefix' \in Cuts(r.host))
            => Named(r)'
         /\ Plugin("pdd.yandex.ru") /\ query' = "late" => Named(r)'
<1>1. /\ HostOf(given)' = HostOf(given) /\ Type' = Type /\ given' = given
      /\ \A d : Plugin(d)' <=> Plugin(d)
  BY Kept DEF Still
<1> QED BY <1>1 DEF Named, CutTo

\* A step of setup().
LEMMA SetupKeeps ==
  ASSUME Inv, pc \in {"zone", "record"}, Still, act' = act, round' = round,
         open' \in 0..failed', failed' \in 0..round, pc' \in {"record", "edit", "done"},
         pc' # "done" => failed' = failed, pc' = "record" => name' = name /\ id' = id, NameInv', PrefixInv', EditInv', MissingInv'
  PROVE  Inv'
<1>1. ZoneInv' /\ (OneOf(Asks)' <=> OneOf(Asks)) /\ given' = given /\ obj' = obj
  BY Kept DEF Still
<1>2. PhaseInv'
  <2>1. PhaseInv
    BY DEF Inv
  <2>2. pc \in {"zone", "record"} /\ pc # "idle" /\ round \in 1..MaxRounds /\ act = Nothing /\ id = "none" /\ OneOf(Asks) /\ failed < round
    BY <2>1 DEF PhaseInv
  <2>3. pc' # "idle" /\ pc' # "zone" /\ pc' # "answer" /\ round' \in 1..MaxRounds /\ act' = Nothing
    BY <2>2 DEF Nothing
  <2>4. (pc' = "record" => id' = "none") /\ OneOf(Asks)' /\ (pc' # "done" => failed' < round')
    BY <1>1, <2>2
  <2>5. obj' \in Plugins
    BY <1>1, <2>1 DEF PhaseInv
  <2>6. Nothing' = Nothing
    BY DEF Nothing
  <2> QED BY <2>3, <2>4, <2>5, <2>6 DEF PhaseInv
<1> QED BY <1>1, <1>2 DEF Inv

\* Where cloudxns.c has done nothing yet, or is not concerned.
LEMMA PrefixKept == Inv /\ cx' = cx => PrefixInv'
BY DEF Inv, PrefixInv, cx

\* Where setup() ends without the update.
LEMMA NotEdit == pc' # "edit" => EditInv' /\ MissingInv'
BY DEF EditInv, MissingInv

\* StartUpdate keeps the invariant.
LEMMA StartKeeps == Inv /\ StartUpdate => Inv'
<1> SUFFICES ASSUME Inv, StartUpdate PROVE Inv'
  OBVIOUS
<1>0. Still /\ name' = name /\ given' = given /\ obj' = obj
  BY DEF StartUpdate, Still
<1>1. ZoneInv' /\ NameInv' /\ (\A D : OneOf(D)' <=> OneOf(D))
  BY <1>0, Kept
<1>2. /\ pc \in {"idle", "done"} /\ round < MaxRounds /\ round' = round + 1 /\ id' = "none" /\ act' = Nothing
      /\ open' = open /\ failed' = failed
  BY DEF StartUpdate
<1>3. PhaseInv
  BY DEF Inv
<1>4. round \in Nat /\ (round = 0 => pc = "idle") /\ failed \in 0..round
  BY <1>2, <1>3, BoundsAssumption DEF PhaseInv
<1>5. pc' \in {"zone", "record", "edit"} /\ (pc' # "edit" <=> OneOf(Asks))
  BY DEF StartUpdate, FirstStep, OneOf, Asks
<1>6. PhaseInv'
  <2>1. round' \in 1..MaxRounds /\ failed' \in 0..round' /\ failed' < round'
    BY <1>2, <1>4, BoundsAssumption
  <2>2. open' \in 0..failed' /\ obj' \in Plugins
    BY <1>0, <1>2, <1>3 DEF PhaseInv
  <2>3. Nothing' = Nothing
    BY DEF Nothing
  <2> QED BY <1>1, <1>2, <1>5, <2>1, <2>2, <2>3 DEF PhaseInv
<1>7. PrefixInv'
  <2>1. account' = account /\ domain' = NoDomain /\ prefix' = "none"
    BY DEF StartUpdate, NoDomain
  <2>2. account \in Seq(Domains)
    BY DEF Inv, PrefixInv
  <2> QED BY <2>1, <2>2, NothingChosen DEF PrefixInv
<1>8. EditInv' /\ MissingInv'
  <2>1. pc' = "edit" => ~OneOf(Asks)'
    BY <1>1, <1>5
  <2>2. OneOf({"cloudflare.com", "porkbun.com", "pdd.yandex.ru"})' => OneOf(Asks)'
    BY DEF OneOf, Asks
  <2> QED BY <1>2, <2>1, <2>2 DEF EditInv, MissingInv, Creates
<1> QED BY <1>1, <1>6, <1>7, <1>8 DEF Inv

\* What the provider answers with: the records of the zone.
LEMMA ZoneRecs ==
  ASSUME Inv
  PROVE  /\ zone \in Seq(Rec) /\ DistinctIn(zone) /\ Len(zone) \in Nat /\ DOMAIN zone = 1..Len(zone)
         /\ \A i \in 1..Len(zone) : zone[i].id \in Ids /\ zone[i].type \in AnyType /\ zone[i] \in ToSet(zone)
         /\ \A r \in ToSet(zone) : \E i \in 1..Len(zone) : r = zone[i]
         /\ ~Plugin("cloudxns.net") => /\ ListedRecs(zone, Len(zone)) /\ Recs(zone, Len(zone))
                                      /\ \A i \in 1..Len(zone) : zone[i].domain = Own
         /\ \A a : IsId(a) <=> IdIn(zone, a)
<1>1. /\ zone \in Seq(Rec) /\ Distinct(zone)
      /\ ~Plugin("cloudxns.net") => \A i \in 1..Len(zone) : zone[i].host \in Names /\ zone[i].domain = Own
  BY DEF Inv, ZoneInv
<1>2. DistinctIn(zone) /\ \A a : IsId(a) <=> IdIn(zone, a)
  BY <1>1, ZoneOf
<1>3. Len(zone) \in Nat /\ DOMAIN zone = 1..Len(zone) /\ ToSet(zone) = {zone[i] : i \in 1..Len(zone)}
  BY <1>1 DEF ToSet
<1>4. \A i \in 1..Len(zone) : zone[i].id \in Ids /\ zone[i].type \in AnyType
  <2>1. \A i \in 1..Len(zone) : zone[i] \in Rec
    BY <1>1
  <2>2. \A r \in Rec : r.id \in Ids /\ r.type \in AnyType
    BY DEF Rec
  <2> QED BY <2>1, <2>2
<1>5. ~Plugin("cloudxns.net") => ListedRecs(zone, Len(zone)) /\ Recs(zone, Len(zone))
  BY <1>1, <1>3, <1>4 DEF ListedRecs, Recs
<1> QED BY <1>1, <1>2, <1>3, <1>4, <1>5

\* The records of a name among them.
Picked(m, z, host, types) ==
  /\ Recs(m, Len(m)) /\ \E R : m \in Seq(R)
  /\ \A k \in 1..Len(m) : \E i \in 1..Len(z) : m[k] = z[i] /\ z[i].host = host /\ z[i].type \in types
  /\ ~(Len(m) >= 1) => \A i \in 1..Len(z) : ~(z[i].host = host /\ z[i].type \in types)

\* The records asked for by name and type are records of the zone.
LEMMA MatchingRecs ==
  ASSUME Inv, ~Plugin("cloudxns.net"), NEW host, NEW types
  PROVE  Picked(Matching(zone, host, types), zone, host, types)
<1> DEFINE m == Matching(zone, host, types)
<1>1. zone \in Seq(Rec) /\ Recs(zone, Len(zone))
  BY ZoneRecs
<1>2. SelectsNamed(zone, host, types, m)
  BY <1>1, MatchingSelects
<1> HIDE DEF m
<1> DEFINE R == {zone[i] : i \in 1..Len(zone)}
<1>3. m \in Seq(R)
  BY <1>2 DEF SelectsNamed
<1> HIDE DEF R
<1>4. Len(m) \in Nat /\ DOMAIN m = 1..Len(m)
  BY <1>3
<1>5. \A k \in 1..Len(m) : \E i \in 1..Len(zone) : m[k] = zone[i] /\ zone[i].host = host /\ zone[i].type \in types
  BY <1>2 DEF SelectsNamed
<1>6. Recs(m, Len(m))
  BY <1>1, <1>4, <1>5 DEF Recs
<1>7. ~(Len(m) >= 1) => \A i \in 1..Len(zone) : ~(zone[i].host = host /\ zone[i].type \in types)
  BY <1>2, <1>4 DEF SelectsNamed
<1> QED BY <1>3, <1>5, <1>6, <1>7 DEF m, Picked

\* The steps that end setup() or lead to its second query.
LEMMA PhaseFacts ==
  ASSUME Inv, pc \in {"zone", "record"}
  PROVE  round \in 1..MaxRounds /\ failed \in Nat /\ open \in 0..failed /\ failed < round /\ act = Nothing /\ id = "none"
         /\ OneOf(Asks) /\ failed \in 0..round
<1>1. PhaseInv
  BY DEF Inv
<1> QED BY <1>1, BoundsAssumption DEF PhaseInv

\* The domains that cloudxns.c may choose from: those of the account, or one cut.
LEMMA DomainListed ==
  ASSUME account \in Seq(Domains), NEW a \in DomainsArrive
  PROVE  a[2] \in Seq([id : Domains, name : DomainTexts])
<1> DEFINE L == [id : Domains, name : DomainTexts]
           whole == [i \in DOMAIN account |-> Listed(account[i], account[i])]
<1>1. ASSUME NEW i \in 1..Len(account), NEW d \in {account[i]} \cup Cuts(account[i]) PROVE Listed(account[i], d) \in L
  <2>1. account[i] \in Domains
    OBVIOUS
  <2>2. d \in DomainTexts
    BY <2>1 DEF DomainTexts
  <2> QED BY <2>1, <2>2 DEF Listed
<1>2. DOMAIN account = 1..Len(account) /\ Len(account) \in Nat
  OBVIOUS
<1> HIDE DEF L
<1>3. whole \in Seq(L) /\ Len(whole) = Len(account)
  BY <1>1, <1>2
<1>4. CASE a = <<"whole", whole>>
  BY <1>3, <1>4 DEF L
<1>5. ASSUME NEW n \in 0..(Len(whole) - 1), a = <<"cut", SubSeq(whole, 1, n)>> PROVE a[2] \in Seq(L)
  <2> HIDE DEF whole
  <2>1. n \in 0..Len(whole)
    BY <1>3
  <2> QED BY <1>3, <1>5, <2>1
<1>6. ASSUME NEW n \in DOMAIN account, NEW d \in Cuts(account[n]),
             a = <<"cut", [SubSeq(whole, 1, n) EXCEPT ![n] = Listed(account[n], d)]>>
      PROVE  a[2] \in Seq(L)
  <2>1. Listed(account[n], d) \in L /\ n \in 1..Len(whole)
    BY <1>1, <1>2, <1>3
  <2> DEFINE l == Listed(account[n], d)
             s == SubSeq(whole, 1, n)
  <2>2. a[2] = [s EXCEPT ![n] = l] /\ l \in L
    BY <1>6, <2>1
  <2> HIDE DEF whole, l
  <2>3. s \in Seq(L) /\ Len(s) = n
    BY <1>3, <2>1
  <2> HIDE DEF s
  <2> QED BY <2>1, <2>2, <2>3
<1> HIDE DEF whole
<1>7. \/ a = <<"whole", whole>>
      \/ \E n \in 0..(Len(whole) - 1) : a = <<"cut", SubSeq(whole, 1, n)>>
      \/ \E n \in DOMAIN account : \E d \in Cuts(account[n]) :
           a = <<"cut", [SubSeq(whole, 1, n) EXCEPT ![n] = Listed(account[n], d)]>>
  BY DEF DomainsArrive, CutBehind, whole
<1> QED BY <1>4, <1>5, <1>6, <1>7 DEF L

\* It remembers what it has chosen.
LEMMA DomainChosen == Inv /\ QueryDomains => PrefixInv'
<1> SUFFICES ASSUME Inv, QueryDomains PROVE PrefixInv'
  OBVIOUS
<1>1. PrefixInv /\ account' = account /\ prefix' = prefix
  BY DEF Inv, QueryDomains
<1>2. PICK a \in DomainsArrive :
        \/ /\ {i \in DOMAIN a[2] : EndsWith(name, a[2][i].name)} # {}
           /\ domain' = a[2][Min({i \in DOMAIN a[2] : EndsWith(name, a[2][i].name)})]
        \/ domain' = domain
  BY DEF QueryDomains
<1>3. a[2] \in Seq([id : Domains, name : DomainTexts])
  BY <1>1, DomainListed DEF PrefixInv
<1> DEFINE found == {i \in DOMAIN a[2] : EndsWith(name, a[2][i].name)}
<1>4. found \subseteq Nat /\ \A i \in found : a[2][i] \in [id : Domains, name : DomainTexts]
  <2> DEFINE L == [id : Domains, name : DomainTexts]
             s == a[2]
  <2>1. s \in Seq(L)
    BY <1>3
  <2>2. found \subseteq DOMAIN s
    OBVIOUS
  <2> HIDE DEF L, s, found
  <2>3. found \subseteq Nat /\ \A i \in found : s[i] \in L
    BY <2>1, <2>2
  <2> QED BY <2>3 DEF L, s
<1> HIDE DEF found
<1>5. domain' \in [id : Domains, name : DomainTexts] \/ domain' = domain
  <2>1. CASE found # {} /\ domain' = a[2][Min(found)]
    <3>1. Min(found) \in found
      BY <1>4, <2>1, MinOfNats
    <3> QED BY <1>4, <2>1, <3>1
  <2> QED BY <1>2, <2>1 DEF found
<1> QED BY <1>1, <1>5 DEF PrefixInv

\* A query that finds no record keeps the invariant.
LEMMA PlainQueriesKeep ==
  ASSUME Inv, QueryFails \/ QueryRefused \/ QueryZone \/ QueryDomains
  PROVE  Inv'
<1>1. pc \in {"zone", "record"} /\ Still /\ name' = name /\ act' = act /\ round' = round /\ id' = id
  BY DEF QueryFails, QueryRefused, QueryZone, QueryDomains, Still
<1>2. pc' \in {"record", "done"}
  BY DEF QueryFails, QueryRefused, QueryZone, QueryDomains, SetupReturns, ReadZone
<1>3. /\ failed' \in {failed, failed + 1} /\ open' \in {open, open + (failed' - failed)}
      /\ pc' # "done" => failed' = failed
  <2>1. failed \in Nat /\ open \in Nat
    BY <1>1, PhaseFacts
  <2>2. CASE QueryFails
    BY <2>1, <2>2 DEF QueryFails, SetupReturns
  <2>3. CASE ~QueryFails
    <3>1. failed' = failed /\ open' = open
      BY <2>3 DEF QueryRefused, QueryZone, QueryDomains
    <3> QED BY <2>1, <3>1
  <2> QED BY <2>2, <2>3
<1>4. failed' \in 0..round /\ open' \in 0..failed'
  BY <1>1, <1>3, PhaseFacts
<1>5. NameInv'
  BY <1>1, Kept
<1>6. EditInv' /\ MissingInv'
  BY <1>2, NotEdit
<1>7. PrefixInv'
  <2>1. CASE QueryDomains
    BY <2>1, DomainChosen
  <2>2. CASE ~QueryDomains
    BY <2>2, PrefixKept DEF QueryFails, QueryRefused, QueryZone
  <2> QED BY <2>1, <2>2
<1> QED BY <1>1, <1>2, <1>3, <1>4, <1>5, <1>6, <1>7, SetupKeeps

\* The second query of cloudflare.c for an ID.
LEMMA ByIdKeeps == Inv /\ QueryById => Inv'
<1> SUFFICES ASSUME Inv, QueryById PROVE Inv'
  OBVIOUS
<1>0. /\ pc = "record" /\ Plugin("cloudflare.com") /\ IsId(name)
      /\ Still /\ act' = act /\ round' = round /\ open' = open /\ failed' = failed /\ given' = given /\ zone' = zone
      /\ cx' = cx
  BY DEF QueryById, Still
<1>z. /\ zone \in Seq(Rec) /\ DistinctIn(zone) /\ Recs(zone, Len(zone))
      /\ \A r \in ToSet(zone) : \E i \in 1..Len(zone) : r = zone[i]
      /\ \A a : IsId(a) <=> IdIn(zone, a)
      /\ \A i \in 1..Len(zone) : zone[i].id \in Ids /\ zone[i] \in ToSet(zone) /\ zone[i].domain = Own
  <2>1. ~Plugin("cloudxns.net")
    BY <1>0, AsksOne
  <2> QED BY <2>1, ZoneRecs
<1>1. name = given
  <2>1. NameInv
    BY DEF Inv
  <2>2. CASE IsId(given)
    <3>1. HostOf(given) \in Hosts /\ name \in {given, HostOf(given)}
      BY <2>1, <2>2 DEF NameInv
    <3>2. name \in Ids
      BY <1>0, <1>z DEF IdIn
    <3> QED BY <3>1, <3>2, NamesAssumption
  <2>3. CASE ~IsId(given)
    BY <2>1, <2>3 DEF NameInv, HostOf
  <2> QED BY <2>2, <2>3
<1> DEFINE r == CHOOSE q \in ToSet(zone) : q.id = name
<1>2. r \in ToSet(zone) /\ r.id = name
  <2>1. \E q \in ToSet(zone) : q.id = name
    BY <1>0, <1>z DEF IdIn
  <2> QED BY <2>1, Zenon
<1>3. r.host = HostOf(given)
  BY <1>0, <1>1 DEF HostOf
<1>4. PICK a \in QueryArrives(Answer(Item(r), "true", FALSE)) : ReadName(Extract(a[2], "name"), a[1])
  BY DEF QueryById
<1> HIDE DEF r
<1> DEFINE x == Extract(a[2], "name")
<1>5. r.id \in Ids /\ r.host \in Names
  BY <1>2, <1>z DEF Recs
<1>6. NameRead(x, a[1], r)
  <2>1. ~Plugin("porkbun.com")
    BY <1>0, AsksOne
  <2> QED BY <1>4, <1>5, <2>1, NameReads
<1>7. a[1] \in {"whole", "cut", "stray", "denied", "empty"}
  <2>1. Answer(Item(r), "true", FALSE) \in Seq(Lexemes(Vals))
    BY <1>5, NameText DEF Lex
  <2> QED BY <1>4, <2>1, ArrivesKinds, QueryGives
<1>8. Found(x) /\ query' = a[1] /\ id' = ById(x) /\ name' = IF x.rc = "OK" THEN x.val ELSE name
  BY <1>4 DEF ReadName, Read
<1> HIDE DEF x
<1>9. pc' \in {"edit", "done"}
  BY <1>8 DEF Found, SetupReturns
<1>10. name' = IF x.rc = "OK" THEN HostOf(given) ELSE given
  BY <1>1, <1>3, <1>6, <1>8 DEF NameRead
<1>11. id' = IF x.rc = "OK" THEN given ELSE "none"
  BY <1>1, <1>8 DEF ById
<1>k. /\ HostOf(given)' = HostOf(given) /\ Type' = Type
      /\ \A d : Plugin(d)' <=> Plugin(d)
      /\ \A D : OneOf(D)' <=> OneOf(D)
      /\ IsId(given)' <=> IsId(given)
  <2>1. IsId(given)' <=> IsId(given)
    BY <1>0 DEF IsId
  <2> QED BY <1>0, <2>1, Kept
<1>n. NameInv
  BY DEF Inv
<1>12. NameInv'
  BY <1>0, <1>10, <1>k, <1>n DEF NameInv
<1>13. EditInv'
  <2>1. id' # "none" => name' = HostOf(given)'
    BY <1>10, <1>11, <1>k
  <2>3. ASSUME NEW q \in ToSet(zone'), q.id = id' PROVE Named(q)'
    <3>1. PICK i \in 1..Len(zone) : q = zone[i]
      BY <1>0, <1>z, <2>3
    <3>2. q.id \in Ids /\ "none" \notin Ids
      BY <1>z, <3>1, NamesAssumption DEF NoId
    <3>3. q.id = given
      BY <1>11, <2>3, <3>2
    <3>4. q.type = Type
      BY <1>0, <1>1, <1>n, <3>1, <3>3 DEF NameInv
    <3>5. q.domain = Own
      BY <1>z, <3>1
    <3>6. q.host = HostOf(given)
      <4>1. HostOf(given) = HostIn(zone, given)
        BY <1>z, ZoneOf
      <4>2. HostIn(zone, zone[i].id) = zone[i].host
        BY <1>z, HostInIs
      <4> QED BY <3>1, <3>3, <4>1, <4>2
    <3> QED BY <1>0, <3>4, <3>5, <3>6, NamedNext
  <2> QED BY <2>1, <2>3 DEF EditInv
<1>14. MissingInv'
  <2> SUFFICES ASSUME pc' = "edit", Creates' PROVE query' \in {"cut", "stray", "denied", "empty"}
    BY DEF MissingInv
  <2>1. id' = "none"
    BY DEF Creates
  <2>2. given \in Ids /\ "none" \notin Ids
    BY <1>1, <1>2, <1>5, NamesAssumption DEF NoId
  <2>3. x.rc # "OK"
    BY <1>11, <2>1, <2>2
  <2>4. x.rc = "NOHOST"
    BY <1>8, <2>3 DEF Found, SetupReturns
  <2> QED BY <1>6, <1>7, <1>8, <2>4 DEF NameRead
<1>15. failed' \in 0..round /\ open' \in 0..failed' /\ pc \in {"zone", "record"} /\ PrefixInv'
  BY <1>0, PhaseFacts, PrefixKept
<1> QED BY <1>0, <1>9, <1>12, <1>13, <1>14, <1>15, SetupKeeps

\* A query for the name of the alias.
LEMMA FindKeeps ==
  ASSUME Inv, pc = "record", Still, name' = name, act' = act, round' = round, open' = open, failed' = failed,
         pc' \in {"edit", "done"}, name = HostOf(given), PrefixInv',
         \A r \in ToSet(zone) : pc' = "edit" /\ r.id = id' => Named(r)',
         pc' = "edit" /\ id' = "none" /\ OneOf({"cloudflare.com", "porkbun.com", "pdd.yandex.ru"}) =>
           query' \in {"cut", "stray", "denied", "empty"} \/ \A i \in 1..Len(zone) : ~(zone[i].host = name /\ zone[i].type = Type)
  PROVE  Inv'
<1>1. /\ HostOf(given)' = HostOf(given) /\ Type' = Type /\ NameInv' /\ zone' = zone /\ given' = given
      /\ \A D : OneOf(D)' <=> OneOf(D)
  BY Kept DEF Still
<1>2. IsId(given)' <=> IsId(given)
  BY <1>1 DEF IsId
<1>3. EditInv'
  <2>1. ToSet(zone)' = ToSet(zone)
    BY <1>1
  <2> QED BY <1>1, <1>2, <2>1 DEF EditInv
<1>4. MissingInv'
  BY <1>1 DEF MissingInv, Creates
<1>5. failed' \in 0..round /\ open' \in 0..failed' /\ pc \in {"zone", "record"}
  BY PhaseFacts
<1> QED BY <1>1, <1>3, <1>4, <1>5, SetupKeeps

\* The second queries of cloudflare.c and porkbun.c: records of a list, read by
\* json_extract().
LEMMA ListKeeps ==
  ASSUME Inv, pc = "record", Still, name' = name, act' = act, round' = round, open' = open, failed' = failed,
         name = HostOf(given), PrefixInv', ~Plugin("cloudxns.net"),
         NEW recs, NEW N, Recs(recs, N), NEW first \in BOOLEAN, Plugin("porkbun.com") => ~first,
         NEW a \in QueryArrives(Answer(Items(recs), "true", first)), ReadId(Extract(a[2], "id"), a[1]),
         \A k \in 1..N : \A r : r = recs[k] => r \in ToSet(zone) /\ Named(r)',
         ~(N >= 1) => \A i \in 1..Len(zone) : ~(zone[i].host = name /\ zone[i].type = Type)
  PROVE  Inv'
<1> DEFINE x == Extract(a[2], "id")
<1>1. IdRead(x, a[1], recs, N, first)
  BY IdReads
<1>2. a[1] \in {"whole", "cut", "stray", "denied", "empty"}
  <2>1. N \in Nat /\ DOMAIN recs = 1..N /\ \A i \in 1..N : recs[i].id \in Ids /\ recs[i].host \in Names
    BY DEF Recs
  <2>2. Answer(Items(recs), "true", first) \in Seq(Lexemes(Vals))
    BY <2>1, IdsText DEF Lex
  <2> QED BY <2>2, ArrivesKinds, QueryGives
<1>3. Found(x) /\ query' = a[1] /\ id' = ByName(x)
  BY DEF ReadId, Read
<1> HIDE DEF x
<1>4. pc' \in {"edit", "done"}
  BY <1>3 DEF Found, SetupReturns
<1>5. id' = IF x.rc = "OK" THEN x.val ELSE "none"
  BY <1>3 DEF ByName
<1>z. /\ DistinctIn(zone) /\ \A r \in ToSet(zone) : \E i \in 1..Len(zone) : r = zone[i]
      /\ \A i \in 1..Len(zone) : zone[i].id \in Ids
  BY ZoneRecs
<1>6. ASSUME NEW r \in ToSet(zone), r.id = id' PROVE Named(r)'
  <2>1. PICK i \in 1..Len(zone) : r = zone[i]
    BY <1>z
  <2>2. id' # "none"
    BY <1>6, <1>z, <2>1, NamesAssumption DEF NoId
  <2>3. PICK k \in 1..N : id' = recs[k].id
    BY <1>1, <1>5, <2>2 DEF IdRead
  <2>4. PICK q : q = recs[k]
    OBVIOUS
  <2>5. q \in ToSet(zone) /\ Named(q)'
    BY <2>4
  <2>6. PICK j \in 1..Len(zone) : q = zone[j]
    BY <1>z, <2>5
  <2>7. i = j
    BY <1>6, <1>z, <2>1, <2>3, <2>4, <2>6 DEF DistinctIn
  <2>8. r = q
    BY <2>1, <2>6, <2>7
  <2> QED BY <2>5, <2>8
<1>7. ASSUME pc' = "edit", id' = "none", query' \notin {"cut", "stray", "denied", "empty"}
      PROVE  \A i \in 1..Len(zone) : ~(zone[i].host = name /\ zone[i].type = Type)
  <2>1. a[1] = "whole"
    BY <1>2, <1>3, <1>7
  <2>2. \A k \in 1..N : recs[k].id # "none"
    BY NamesAssumption DEF Recs, NoId
  <2>3. x.rc = "NOHOST"
    <3>1. x.rc # "OK"
      BY <1>1, <1>5, <1>7, <2>2 DEF IdRead
    <3> QED BY <1>3, <1>7, <3>1 DEF Found, SetupReturns
  <2>4. ~(N >= 1)
    BY <1>1, <2>1, <2>3 DEF IdRead
  <2> QED BY <2>4
<1> QED BY <1>4, <1>6, <1>7, FindKeeps

\* The query of Cloudflare by name: the record found is the named one.
LEMMA ByNameKeeps == Inv /\ QueryByName => Inv'
<1> SUFFICES ASSUME Inv, QueryByName PROVE Inv'
  OBVIOUS
<1>0. /\ pc = "record" /\ Plugin("cloudflare.com") /\ ~IsId(name) /\ Still /\ zone' = zone
      /\ act' = act /\ round' = round /\ open' = open /\ failed' = failed /\ cx' = cx
  BY DEF QueryByName, Still
<1> DEFINE m == Matching(zone, name, {Type})
<1>1. PICK first \in BOOLEAN : \E a \in QueryArrives(Answer(Items(m), "true", first)) : ReadId(Extract(a[2], "id"), a[1])
  BY DEF QueryByName, GetRecordType
<1>2. PICK a \in QueryArrives(Answer(Items(m), "true", first)) : ReadId(Extract(a[2], "id"), a[1])
  BY <1>1
<1>3. ~Plugin("cloudxns.net") /\ ~Plugin("porkbun.com")
  BY <1>0, AsksOne
<1>4. /\ Recs(m, Len(m))
      /\ \A k \in 1..Len(m) : \E i \in 1..Len(zone) : m[k] = zone[i] /\ zone[i].host = name /\ zone[i].type \in {Type}
      /\ ~(Len(m) >= 1) => \A i \in 1..Len(zone) : ~(zone[i].host = name /\ zone[i].type \in {Type})
  <2>1. Picked(m, zone, name, {Type})
    BY <1>3, MatchingRecs
  <2> HIDE DEF m
  <2> QED BY <2>1 DEF Picked
<1> HIDE DEF m
<1>5. name' = name
  BY <1>2 DEF ReadId
<1>6. name = HostOf(given)
  <2>1. name = given \/ name = HostOf(given)
    BY DEF Inv, NameInv
  <2>2. CASE IsId(given)
    BY <1>0, <2>1, <2>2, Zenon
  <2>3. CASE ~IsId(given)
    BY <2>1, <2>3, Zenon DEF HostOf
  <2> QED BY <2>2, <2>3
<1>p. PrefixInv'
  BY <1>0, PrefixKept
<1>7. ASSUME NEW k \in 1..Len(m), NEW r, r = m[k] PROVE r \in ToSet(zone) /\ Named(r)'
  <2>1. PICK i \in 1..Len(zone) : m[k] = zone[i] /\ zone[i].host = name /\ zone[i].type = Type
    BY <1>4
  <2>2. zone[i] \in ToSet(zone)
    BY ZoneRecs
  <2>3. r.domain = Own /\ r.host = HostOf(given) /\ r.type = Type
    BY <1>3, <1>6, <1>7, <2>1, ZoneRecs
  <2>4. Named(r)'
    BY <1>0, <2>3, NamedNext
  <2> QED BY <1>7, <2>1, <2>2, <2>4
<1>8. ~(Len(m) >= 1) => \A i \in 1..Len(zone) : ~(zone[i].host = name /\ zone[i].type = Type)
  BY <1>4
<1> QED BY <1>0, <1>p, <1>2, <1>3, <1>4, <1>5, <1>6, <1>7, <1>8, ListKeeps

\* The query of Porkbun takes any record.
LEMMA AnyRecordKeeps == Inv /\ QueryAnyRecord => Inv'
<1> SUFFICES ASSUME Inv, QueryAnyRecord PROVE Inv'
  OBVIOUS
<1>0. /\ pc = "record" /\ Plugin("porkbun.com") /\ Still /\ zone' = zone
      /\ act' = act /\ round' = round /\ open' = open /\ failed' = failed /\ PrefixInv'
  BY PrefixKept DEF QueryAnyRecord, Still
<1>1. PICK a \in QueryArrives(Answer(Items(zone), "true", FALSE)) : ReadId(Extract(a[2], "id"), a[1])
  BY DEF QueryAnyRecord
<1>2. ~Plugin("cloudxns.net") /\ ~Plugin("cloudflare.com")
  BY <1>0, AsksOne
<1>3. Recs(zone, Len(zone)) /\ Len(zone) \in Nat
  BY <1>2, ZoneRecs
<1>4. name' = name
  BY <1>1 DEF ReadId
<1>5. name = HostOf(given) /\ ~IsId(given)
  BY <1>2, PlainName
<1>6. ASSUME NEW k \in 1..Len(zone), NEW r, r = zone[k] PROVE r \in ToSet(zone) /\ Named(r)'
  BY <1>0, <1>6, ZoneRecs, NamedNext
<1>7. ~(Len(zone) >= 1) => \A i \in 1..Len(zone) : ~(zone[i].host = name /\ zone[i].type = Type)
  BY <1>3
<1>8. FALSE \in BOOLEAN
  OBVIOUS
<1> QED BY <1>0, <1>1, <1>2, <1>3, <1>4, <1>5, <1>6, <1>7, <1>8, ListKeeps

\* The query of Yandex finds the named record, or the one before.
LEMMA YandexKeeps == Inv /\ QueryYandex => Inv'
<1> SUFFICES ASSUME Inv, QueryYandex PROVE Inv'
  OBVIOUS
<1>0. /\ pc = "record" /\ Plugin("pdd.yandex.ru") /\ Still /\ zone' = zone /\ name' = name
      /\ act' = act /\ round' = round /\ open' = open /\ failed' = failed /\ PrefixInv'
  BY PrefixKept DEF QueryYandex, Still
<1>1. PICK late \in BOOLEAN : \E a \in Arrives(YandexAnswer(zone, late)) :
       LET i == GetRecordId(a[2], name)
       IN /\ IF Success(a[2]) /\ i # "-1" THEN pc' = "edit" /\ id' = i /\ UNCHANGED rc
             ELSE SetupReturns("INVALID_OPTION") /\ UNCHANGED id
          /\ query' = IF late /\ a[1] = "whole" THEN "late" ELSE a[1]
  BY DEF QueryYandex
<1>2. PICK a \in Arrives(YandexAnswer(zone, late)) :
        /\ IF Success(a[2]) /\ GetRecordId(a[2], name) # "-1" THEN pc' = "edit" /\ id' = GetRecordId(a[2], name)
           ELSE pc' = "done"
        /\ query' = IF late /\ a[1] = "whole" THEN "late" ELSE a[1]
  BY <1>1 DEF SetupReturns
<1>3. ~Plugin("cloudxns.net") /\ ~Plugin("cloudflare.com")
  BY <1>0, AsksOne
<1>z. /\ DistinctIn(zone) /\ \A r \in ToSet(zone) : \E i \in 1..Len(zone) : r = zone[i]
      /\ \A i \in 1..Len(zone) : zone[i].id \in Ids
  BY ZoneRecs
<1>4. ListedRecs(zone, Len(zone)) /\ name \in Names /\ name = HostOf(given) /\ ~IsId(given)
  BY <1>3, ZoneRecs, PlainName DEF Inv, NameInv
<1>5. Type = "A"
  BY <1>0, Family DEF Inv, PhaseInv
<1> DEFINE i == GetRecordId(a[2], name)
<1>6. /\ a[1] # "whole" => i = "-1"
      /\ a[1] = "whole" => IdFound(i, zone, Len(zone), late, name)
  BY <1>4, YandexId
<1> HIDE DEF i
<1>7. pc' \in {"edit", "done"}
  BY <1>2
<1>8. pc' = "edit" => a[1] = "whole" /\ id' = i
  BY <1>2, <1>6 DEF i
<1>9. ASSUME NEW r \in ToSet(zone), pc' = "edit", r.id = id' PROVE Named(r)'
  <2>1. PICK k \in 1..Len(zone) : r = zone[k]
    BY <1>z
  <2>2. id' # "none"
    BY <1>9, <1>z, <2>1, NamesAssumption DEF NoId
  <2>3. PICK j \in 1..Len(zone) : id' = zone[j].id /\ (late \/ Fits(zone[j], name))
    BY <1>6, <1>8, <1>9, <2>2 DEF IdFound
  <2>4. r = zone[j]
    BY <1>9, <1>z, <2>1, <2>3 DEF DistinctIn
  <2>5. CASE late
    <3>1. query' = "late"
      BY <1>2, <1>8, <1>9, <2>5
    <3> QED BY <1>0, <3>1, NamedNext
  <2>6. CASE Fits(zone[j], name)
    <3>1. r.domain = Own /\ r.host = HostOf(given) /\ r.type = Type
      BY <1>3, <1>4, <1>5, <2>4, <2>6, ZoneRecs DEF Fits
    <3> QED BY <1>0, <3>1, NamedNext
  <2> QED BY <2>3, <2>5, <2>6
<1>10. ASSUME pc' = "edit", id' = "none" PROVE \A k \in 1..Len(zone) : ~(zone[k].host = name /\ zone[k].type = Type)
  <2>1. \A k \in 1..Len(zone) : zone[k].id # "none"
    BY <1>z, NamesAssumption DEF NoId
  <2>2. \A k \in 1..Len(zone) : ~Fits(zone[k], name)
    BY <1>6, <1>8, <1>10, <2>1 DEF IdFound
  <2> QED BY <1>5, <2>2 DEF Fits
<1> QED BY <1>0, <1>4, <1>7, <1>9, <1>10, FindKeeps

-----------------------------------------------------------------------------
(* The plugins that read text *)

\* The first of the selected records.
LEMMA FirstSelected ==
  ASSUME NEW R, NEW recs \in Seq(R), NEW host, NEW types
  PROVE  LET i == FirstId(Matching(recs, host, types)) IN
         i = "0" \/ \E k \in 1..Len(recs) : i = recs[k].id /\ recs[k].host = host /\ recs[k].type \in types
<1> DEFINE m == Matching(recs, host, types)
<1>1. SelectsNamed(recs, host, types, m)
  BY MatchingSelects
<1> HIDE DEF m
<1>2. m \in Seq({recs[i] : i \in 1..Len(recs)})
  BY <1>1 DEF SelectsNamed
<1>3. CASE m = <<>>
  BY <1>3 DEF FirstId, m
<1>4. CASE m # <<>>
  <2>1. 1 \in 1..Len(m)
    BY <1>2, <1>4
  <2>2. FirstId(m) = m[1].id
    BY <1>4 DEF FirstId
  <2>3. PICK i \in 1..Len(recs) : m[1] = recs[i] /\ recs[i].host = host /\ recs[i].type \in types
    BY <1>1, <2>1 DEF SelectsNamed
  <2> QED BY <2>2, <2>3 DEF m
<1> QED BY <1>3, <1>4

\* The beginning of a list, and one whose last record has a field cut.
LEMMA Beginning ==
  ASSUME NEW R, NEW recs \in Seq(R), NEW n \in 0..Len(recs)
  PROVE  LET s == SubSeq(recs, 1, n) IN
         s \in Seq(R) /\ Len(s) = n /\ DOMAIN s = 1..n /\ \A k \in 1..n : s[k] = recs[k] /\ k \in 1..Len(recs)
OBVIOUS

\* A record of a list that arrives: as it was sent, or with its host or its ID
\* cut.
Same(r, s) == r = s
HostCut(r, s, how) == how = "cut" /\ r.id = s.id /\ r.type = s.type /\ r.host \in Cuts(s.host)
IdCut(r, s, how) == how = "cut" /\ r.host = s.host /\ r.type = s.type /\ r.id \in Cuts(s.id)
KeyCut(r, s, how) == how = "cut" /\ r.host = s.host /\ r.type = s.type /\ r.id = "partial"
Received(a, recs) ==
  /\ a[1] \in {"whole", "cut"} /\ (a[1] = "whole" => a[2] = recs)
  /\ \E R : a[2] \in Seq(R)
  /\ Len(a[2]) <= Len(recs)

\* A list cut behind a record begins like the list.
LEMMA BehindArrives ==
  ASSUME NEW R, NEW recs \in Seq(R), NEW a \in {<<"whole", recs>>} \cup CutBehind(recs)
  PROVE  Received(a, recs) /\ \A k \in 1..Len(a[2]) : Same(a[2][k], recs[k])
<1>1. CASE a = <<"whole", recs>>
  <2>1. a[1] = "whole" /\ a[2] = recs
    BY <1>1
  <2> QED BY <2>1 DEF Received, Same
<1>2. CASE a \in CutBehind(recs)
  <2>1. PICK n \in 0..(Len(recs) - 1) : a = <<"cut", SubSeq(recs, 1, n)>>
    BY <1>2 DEF CutBehind
  <2>2. n \in 0..Len(recs) /\ n <= Len(recs) /\ a[1] = "cut" /\ a[2] = SubSeq(recs, 1, n)
    BY <2>1
  <2>3. a[2] \in Seq(R) /\ Len(a[2]) = n /\ \A k \in 1..n : a[2][k] = recs[k]
    BY <2>2, Beginning
  <2> QED BY <2>2, <2>3 DEF Received, Same
<1> QED BY <1>1, <1>2

\* The last record that arrives is another one.
CutInside(a, recs, n, q) == a[1] = "cut" /\ a[2] = [SubSeq(recs, 1, n) EXCEPT ![n] = q]
EndsIn(a, recs, n, q) ==
  Received(a, recs) /\ a[1] = "cut" /\ Len(a[2]) = n /\ a[2][n] = q /\ \A k \in 1..n : k # n => a[2][k] = recs[k]

\* A list cut inside a record ends with what is left of it.
LEMMA LastCut ==
  ASSUME NEW R, NEW recs \in Seq(R), NEW n \in 1..Len(recs), NEW q, NEW a, CutInside(a, recs, n, q)
  PROVE  EndsIn(a, recs, n, q)
<1> DEFINE b == SubSeq(recs, 1, n)
           S == R \cup {q}
           s == a[2]
<1>1. b \in Seq(R) /\ Len(b) = n /\ DOMAIN b = 1..n /\ \A k \in 1..n : b[k] = recs[k] /\ k \in 1..Len(recs)
  <2>1. n \in 0..Len(recs)
    OBVIOUS
  <2> QED BY <2>1, Beginning
<1>2. n \in Nat /\ n <= Len(recs) /\ n \in 1..n
  OBVIOUS
<1> HIDE DEF b
<1>3. s = [b EXCEPT ![n] = q] /\ a[1] = "cut"
  BY DEF b, CutInside
<1> HIDE DEF s
<1>4. DOMAIN s = 1..n /\ s[n] = q /\ \A k \in 1..n : k # n => s[k] = recs[k]
  BY <1>1, <1>2, <1>3
<1>5. s \in Seq(S) /\ Len(s) = n
  <2>1. b \in Seq(S) /\ q \in S
    BY <1>1
  <2> HIDE DEF S
  <2> QED BY <1>1, <1>2, <1>3, <2>1
<1> QED BY <1>2, <1>3, <1>4, <1>5 DEF Received, EndsIn, s

\* What cloudxns.c receives of a list.
LEMMA ListReceived ==
  ASSUME NEW recs \in Seq(Rec), NEW a \in ListArrives(recs)
  PROVE  Received(a, recs) /\ \A k \in 1..Len(a[2]) : Same(a[2][k], recs[k]) \/ HostCut(a[2][k], recs[k], a[1])
<1>1. CASE a \in {<<"whole", recs>>} \cup CutBehind(recs)
  BY <1>1, BehindArrives
<1>2. ASSUME NEW n \in DOMAIN recs, NEW h \in Cuts(recs[n].host), a = <<"cut", [SubSeq(recs, 1, n) EXCEPT ![n].host = h]>>
      PROVE  Received(a, recs) /\ \A k \in 1..Len(a[2]) : Same(a[2][k], recs[k]) \/ HostCut(a[2][k], recs[k], a[1])
  <2> DEFINE q == [recs[n] EXCEPT !.host = h]
  <2>1. recs[n] \in Rec /\ n \in 0..Len(recs) /\ n \in 1..n /\ n \in 1..Len(recs)
    OBVIOUS
  <2>2. HostCut(q, recs[n], "cut")
    BY <2>1 DEF Rec, HostCut
  <2>3. SubSeq(recs, 1, n)[n] = recs[n]
    BY <2>1, Beginning
  <2>4. CutInside(a, recs, n, q)
    BY <1>2, <2>3 DEF CutInside
  <2> HIDE DEF q
  <2>5. EndsIn(a, recs, n, q)
    BY <2>1, <2>4, LastCut
  <2> QED BY <2>2, <2>5 DEF Same, EndsIn
<1>3. a \in UNION {{<<"cut", [SubSeq(recs, 1, n) EXCEPT ![n].host = h]>> : h \in Cuts(recs[n].host)} : n \in DOMAIN recs}
      => Received(a, recs) /\ \A k \in 1..Len(a[2]) : Same(a[2][k], recs[k]) \/ HostCut(a[2][k], recs[k], a[1])
  BY <1>2, Zenon
<1> QED BY <1>1, <1>3 DEF ListArrives

\* What dnspod.c receives of it.
LEMMA IdReceived ==
  ASSUME NEW recs \in Seq(Rec), NEW a \in IdArrives(recs)
  PROVE  Received(a, recs) /\ \A k \in 1..Len(a[2]) : Same(a[2][k], recs[k]) \/ IdCut(a[2][k], recs[k], a[1])
<1>1. CASE a \in {<<"whole", recs>>} \cup CutBehind(recs)
  BY <1>1, BehindArrives
<1>2. ASSUME NEW n \in DOMAIN recs, NEW i \in Cuts(recs[n].id), a = <<"cut", [SubSeq(recs, 1, n) EXCEPT ![n].id = i]>>
      PROVE  Received(a, recs) /\ \A k \in 1..Len(a[2]) : Same(a[2][k], recs[k]) \/ IdCut(a[2][k], recs[k], a[1])
  <2> DEFINE q == [recs[n] EXCEPT !.id = i]
  <2>1. recs[n] \in Rec /\ n \in 0..Len(recs) /\ n \in 1..n /\ n \in 1..Len(recs)
    OBVIOUS
  <2>2. IdCut(q, recs[n], "cut")
    BY <2>1 DEF Rec, IdCut
  <2>3. SubSeq(recs, 1, n)[n] = recs[n]
    BY <2>1, Beginning
  <2>4. CutInside(a, recs, n, q)
    BY <1>2, <2>3 DEF CutInside
  <2> HIDE DEF q
  <2>5. EndsIn(a, recs, n, q)
    BY <2>1, <2>4, LastCut
  <2> QED BY <2>2, <2>5 DEF Same, EndsIn
<1>3. a \in UNION {{<<"cut", [SubSeq(recs, 1, n) EXCEPT ![n].id = i]>> : i \in Cuts(recs[n].id)} : n \in DOMAIN recs}
      => Received(a, recs) /\ \A k \in 1..Len(a[2]) : Same(a[2][k], recs[k]) \/ IdCut(a[2][k], recs[k], a[1])
  BY <1>2, Zenon
<1> QED BY <1>1, <1>3 DEF IdArrives

\* What freedns.c receives of it.
LEMMA KeyReceived ==
  ASSUME NEW recs \in Seq(Rec), NEW a \in KeyArrives(recs)
  PROVE  Received(a, recs) /\ \A k \in 1..Len(a[2]) : Same(a[2][k], recs[k]) \/ KeyCut(a[2][k], recs[k], a[1])
<1>1. CASE a \in {<<"whole", recs>>} \cup CutBehind(recs)
  BY <1>1, BehindArrives
<1>2. ASSUME NEW n \in DOMAIN recs, a = <<"cut", [SubSeq(recs, 1, n) EXCEPT ![n].id = "partial"]>>
      PROVE  Received(a, recs) /\ \A k \in 1..Len(a[2]) : Same(a[2][k], recs[k]) \/ KeyCut(a[2][k], recs[k], a[1])
  <2> DEFINE q == [recs[n] EXCEPT !.id = "partial"]
  <2>1. recs[n] \in Rec /\ n \in 0..Len(recs) /\ n \in 1..n /\ n \in 1..Len(recs)
    OBVIOUS
  <2>2. KeyCut(q, recs[n], "cut")
    BY <2>1 DEF Rec, KeyCut
  <2>3. SubSeq(recs, 1, n)[n] = recs[n]
    BY <2>1, Beginning
  <2>4. CutInside(a, recs, n, q)
    BY <1>2, <2>3 DEF CutInside
  <2> HIDE DEF q
  <2>5. EndsIn(a, recs, n, q)
    BY <2>1, <2>4, LastCut
  <2> QED BY <2>2, <2>5 DEF Same, EndsIn
<1>3. a \in {<<"cut", [SubSeq(recs, 1, n) EXCEPT ![n].id = "partial"]>> : n \in DOMAIN recs}
      => Received(a, recs) /\ \A k \in 1..Len(a[2]) : Same(a[2][k], recs[k]) \/ KeyCut(a[2][k], recs[k], a[1])
  BY <1>2, Zenon
<1> QED BY <1>1, <1>3 DEF KeyArrives

\* The records of the domain that is chosen, in the order of the zone.
LEMMA ChosenRecs ==
  ASSUME Inv, NEW d
  PROVE  LET z == InDomain(zone, d) IN
         z \in Seq(Rec) /\ \A k \in 1..Len(z) : \E i \in 1..Len(zone) : z[k] = zone[i] /\ zone[i].domain = d
<1> DEFINE z == InDomain(zone, d)
           Q == {zone[j] : j \in 1..Len(zone)}
<1>1. zone \in Seq(Rec)
  BY ZoneRecs
<1>2. z \in Seq(Q) /\ \A k \in 1..Len(z) : \E i \in 1..Len(zone) : z[k] = zone[i] /\ zone[i].domain = d
  BY <1>1, InDomainSelects
<1>3. Q \subseteq Rec
  BY <1>1
<1> HIDE DEF z, Q
<1>4. z \in Seq(Rec)
  BY <1>2, <1>3
<1> QED BY <1>2, <1>4 DEF z

\* The query of CloudXNS finds a record of the prefix in the domain it has chosen.
LEMMA CloudxnsKeeps == Inv /\ QueryCloudxns => Inv'
<1> SUFFICES ASSUME Inv, QueryCloudxns PROVE Inv'
  OBVIOUS
<1>0. /\ pc = "record" /\ Plugin("cloudxns.net") /\ Still /\ zone' = zone /\ name' = name
      /\ act' = act /\ round' = round /\ open' = open /\ failed' = failed /\ domain' = domain /\ account' = account
  BY DEF QueryCloudxns, Still
<1> DEFINE z == InDomain(zone, domain.id)
<1>1. PICK host \in PrefixMade : \E a \in ListArrives(z) :
        Finds(FirstId(Matching(a[2], host, AnyType))) /\ query' = a[1] /\ prefix' = host
  BY DEF QueryCloudxns
<1>b. PICK a \in ListArrives(z) : Finds(FirstId(Matching(a[2], host, AnyType))) /\ query' = a[1] /\ prefix' = host
  BY <1>1
<1> DEFINE i == FirstId(Matching(a[2], host, AnyType))
<1>2. ~Plugin("cloudflare.com") /\ ~OneOf({"cloudflare.com", "porkbun.com", "pdd.yandex.ru"})
  BY <1>0 DEF Plugin, OneOf
<1>3. ~IsId(given) /\ HostOf(given) = given /\ name = given
  BY <1>2, PlainName
<1>p. PrefixInv'
  <2>1. PrefixInv /\ name \in Names
    BY <1>3 DEF Inv, NameInv
  <2>2. domain.name \in DomainTexts
    BY <2>1 DEF PrefixInv
  <2>3. <<name, domain.name>> \in Names \X DomainTexts
    BY <2>1, <2>2
  <2>4. Shortened(name, domain.name) \in {Shortened(x[1], x[2]) : x \in Names \X DomainTexts}
    BY <2>3
  <2>5. host \in Made
    BY <1>1, <2>4 DEF PrefixMade, Made
  <2> QED BY <1>0, <1>b, <2>1, <2>5 DEF PrefixInv
<1>z. /\ zone \in Seq(Rec) /\ DistinctIn(zone) /\ Len(zone) \in Nat
      /\ \A r \in ToSet(zone) : \E j \in 1..Len(zone) : r = zone[j]
      /\ z \in Seq(Rec) /\ \A k \in 1..Len(z) : \E j \in 1..Len(zone) : z[k] = zone[j] /\ zone[j].domain = domain.id
  BY ZoneRecs, ChosenRecs
<1> HIDE DEF z
<1>4. Received(a, z) /\ \A k \in 1..Len(a[2]) : Same(a[2][k], z[k]) \/ HostCut(a[2][k], z[k], a[1])
  BY <1>b, <1>z, ListReceived
<1>5. PICK R : a[2] \in Seq(R)
  BY <1>4 DEF Received
<1>6. i = "0" \/ \E k \in 1..Len(a[2]) : i = a[2][k].id /\ a[2][k].host = host /\ a[2][k].type \in AnyType
  BY <1>5, FirstSelected
<1> HIDE DEF i
<1>7. pc' \in {"edit", "done"} /\ (pc' = "edit" => id' = i /\ i # "0")
  <2>1. Finds(i)
    BY <1>b DEF i
  <2> QED BY <2>1 DEF Finds, SetupReturns
<1>8. ASSUME NEW r \in ToSet(zone), pc' = "edit", r.id = id' PROVE Named(r)'
  <2>1. PICK k \in 1..Len(a[2]) : i = a[2][k].id /\ a[2][k].host = host
    BY <1>6, <1>7, <1>8
  <2>2. k \in 1..Len(z)
    BY <1>4, <1>5, <1>z, <2>1 DEF Received
  <2>3. PICK j \in 1..Len(zone) : r = zone[j]
    BY <1>z
  <2>4. z[k].id = i
    BY <1>4, <2>1 DEF Same, HostCut
  <2>5. PICK l \in 1..Len(zone) : z[k] = zone[l] /\ zone[l].domain = domain.id
    BY <1>z, <2>2
  <2>6. j = l
    BY <1>7, <1>8, <1>z, <2>3, <2>4, <2>5 DEF DistinctIn
  <2>7. r.host = host \/ (a[1] = "cut" /\ host \in Cuts(r.host))
    BY <1>4, <2>1, <2>3, <2>5, <2>6 DEF Same, HostCut
  <2>8. r.domain = domain'.id
    BY <1>0, <2>3, <2>5, <2>6
  <2>9. r.host = prefix' \/ (query' = "cut" /\ prefix' \in Cuts(r.host))
    BY <1>b, <2>7
  <2> QED BY <1>0, <2>8, <2>9, NamedNext
<1> QED BY <1>0, <1>2, <1>3, <1>7, <1>8, <1>p, FindKeeps

\* The query of DNSPod finds the name, or a cut ID.
LEMMA DnspodKeeps == Inv /\ QueryDnspod => Inv'
<1> SUFFICES ASSUME Inv, QueryDnspod PROVE Inv'
  OBVIOUS
<1>0. /\ pc = "record" /\ Plugin("dnspod.cn") /\ Still /\ zone' = zone /\ name' = name
      /\ act' = act /\ round' = round /\ open' = open /\ failed' = failed /\ PrefixInv'
  BY PrefixKept DEF QueryDnspod, Still
<1> DEFINE m == Matching(zone, name, AnyType)
<1>1. PICK a \in IdArrives(m) : Finds(FirstId(a[2])) /\ query' = a[1]
  BY DEF QueryDnspod
<1>2. /\ ~Plugin("cloudflare.com") /\ ~Plugin("cloudxns.net")
      /\ ~OneOf({"cloudflare.com", "porkbun.com", "pdd.yandex.ru"})
  BY <1>0 DEF Plugin, OneOf
<1>3. ~IsId(given) /\ HostOf(given) = given /\ name = given
  BY <1>2, PlainName
<1>z. /\ zone \in Seq(Rec) /\ DistinctIn(zone) /\ \A r \in ToSet(zone) : \E j \in 1..Len(zone) : r = zone[j]
  BY ZoneRecs
<1>4. SelectsNamed(zone, name, AnyType, m)
  BY <1>z, MatchingSelects
<1> HIDE DEF m
<1>5. m \in Seq(Rec)
  <2> DEFINE Q == {zone[j] : j \in 1..Len(zone)}
  <2>1. Q \subseteq Rec
    BY <1>z
  <2>2. m \in Seq(Q)
    BY <1>4 DEF SelectsNamed
  <2> HIDE DEF Q
  <2> QED BY <2>1, <2>2
<1>6. Received(a, m)
  BY <1>5, IdReceived
<1>7. pc' \in {"edit", "done"} /\ (pc' = "edit" => id' = FirstId(a[2]) /\ FirstId(a[2]) # "0")
  <2>1. Finds(FirstId(a[2]))
    BY <1>1
  <2> QED BY <2>1 DEF Finds, SetupReturns
<1>8. ASSUME NEW r \in ToSet(zone), pc' = "edit", r.id = id' PROVE Named(r)'
  <2>1. CASE a[1] = "cut"
    BY <1>0, <1>1, <2>1, NamedNext
  <2>2. CASE a[1] = "whole"
    <3>1. a[2] = m /\ m # <<>>
      BY <1>6, <1>7, <1>8, <2>2 DEF Received, FirstId
    <3>2. 1 \in 1..Len(m) /\ id' = m[1].id
      BY <1>5, <1>7, <1>8, <3>1 DEF FirstId
    <3>3. PICK k \in 1..Len(zone) : m[1] = zone[k] /\ zone[k].host = name
      BY <1>4, <3>2 DEF SelectsNamed
    <3>4. PICK j \in 1..Len(zone) : r = zone[j]
      BY <1>z
    <3>5. j = k
      BY <1>8, <1>z, <3>2, <3>3, <3>4 DEF DistinctIn
    <3>6. r.domain = Own /\ r.host = HostOf(given)
      BY <1>2, <1>3, <3>3, <3>4, <3>5, ZoneRecs
    <3> QED BY <1>0, <3>6, NamedNext
  <2> QED BY <1>6, <2>1, <2>2 DEF Received
<1> QED BY <1>0, <1>2, <1>3, <1>7, <1>8, FindKeeps

\* The query of FreeDNS finds the name.
LEMMA FreednsKeeps == Inv /\ QueryFreedns => Inv'
<1> SUFFICES ASSUME Inv, QueryFreedns PROVE Inv'
  OBVIOUS
<1>0. /\ pc = "record" /\ Plugin("freedns.afraid.org") /\ Still /\ zone' = zone /\ name' = name
      /\ act' = act /\ round' = round /\ open' = open /\ failed' = failed /\ PrefixInv'
  BY PrefixKept DEF QueryFreedns, Still
<1>2. ~Plugin("cloudflare.com") /\ ~OneOf({"cloudflare.com", "porkbun.com", "pdd.yandex.ru"})
  BY <1>0 DEF Plugin, OneOf
<1>3. ~IsId(given) /\ HostOf(given) = given /\ name = given
  BY <1>2, PlainName
<1>z. /\ zone \in Seq(Rec) /\ DistinctIn(zone) /\ Len(zone) \in Nat
      /\ \A r \in ToSet(zone) : \E j \in 1..Len(zone) : r = zone[j]
      /\ \A j \in 1..Len(zone) : zone[j].id \in Ids
  BY ZoneRecs
<1>4. CASE pc' = "done"
  <2>1. \A r \in ToSet(zone) : pc' = "edit" /\ r.id = id' => Named(r)'
    BY <1>4
  <2> QED BY <1>0, <1>2, <1>3, <1>4, <2>1, FindKeeps
<1>5. CASE pc' # "done"
  <2>1. PICK a \in KeyArrives(zone) : FreednsSetup(a[2]) /\ query' = a[1]
    BY <1>5 DEF QueryFreedns, SetupReturns
  <2> DEFINE i == FirstId(Matching(a[2], name, AnyType))
  <2>2. pc' = "edit" /\ id' = i /\ i # "0"
    <3>1. IF i # "0" THEN pc' = "edit" /\ id' = i ELSE pc' = "done"
      BY <2>1 DEF FreednsSetup, SetupReturns
    <3> HIDE DEF i
    <3> QED BY <1>5, <3>1
  <2>3. Received(a, zone) /\ \A k \in 1..Len(a[2]) : Same(a[2][k], zone[k]) \/ KeyCut(a[2][k], zone[k], a[1])
    BY <1>z, KeyReceived
  <2>4. PICK R : a[2] \in Seq(R)
    BY <2>3 DEF Received
  <2>5. i = "0" \/ \E k \in 1..Len(a[2]) : i = a[2][k].id /\ a[2][k].host = name /\ a[2][k].type \in AnyType
    BY <2>4, FirstSelected
  <2> HIDE DEF i
  <2>6. PICK k \in 1..Len(a[2]) : i = a[2][k].id /\ a[2][k].host = name
    BY <2>2, <2>5
  <2>7. k \in 1..Len(zone)
    BY <1>z, <2>3, <2>4, <2>6 DEF Received
  <2>8. ASSUME NEW r \in ToSet(zone), r.id = id' PROVE Named(r)'
    <3>1. PICK j \in 1..Len(zone) : r = zone[j]
      BY <1>z
    <3>2. i # "partial"
      BY <1>z, <2>2, <2>8, <3>1, NamesAssumption DEF NoId
    <3>3. Same(a[2][k], zone[k])
      BY <2>3, <2>6, <3>2 DEF KeyCut
    <3>4. j = k
      BY <1>z, <2>2, <2>6, <2>7, <2>8, <3>1, <3>3 DEF DistinctIn, Same
    <3>5. r.domain = Own /\ r.host = HostOf(given)
      <4>1. ~Plugin("cloudxns.net")
        BY <1>0, AsksOne
      <4> QED BY <1>3, <2>6, <3>1, <3>3, <3>4, <4>1, ZoneRecs DEF Same
    <3> QED BY <1>0, <3>5, NamedNext
  <2> QED BY <1>0, <1>2, <1>3, <2>2, <2>8, FindKeeps
<1> QED BY <1>4, <1>5

-----------------------------------------------------------------------------
(* The update *)

\* A step behind setup() that leaves zone and alias alone.
LEMMA AnswerKeeps ==
  ASSUME Inv, Still, name' = name, round' = round, failed' = failed, open' = open, cx' = cx,
         pc \in {"edit", "answer"}, pc' \in {"answer", "done"}
  PROVE  Inv'
<1>1. ZoneInv' /\ NameInv' /\ obj' = obj
  BY Kept DEF Still
<1>2. PhaseInv
  BY DEF Inv
<1>3. PhaseInv'
  <2>1. round' \in 1..MaxRounds /\ failed' < round' /\ failed' \in 0..round' /\ open' \in 0..failed' /\ obj' \in Plugins
    BY <1>1, <1>2 DEF PhaseInv
  <2> QED BY <2>1 DEF PhaseInv
<1>4. PrefixInv' /\ EditInv' /\ MissingInv'
  BY NotEdit, PrefixKept
<1> QED BY <1>1, <1>3, <1>4 DEF Inv

\* The record of the alias after the update.
LEMMA EditedRecord ==
  ASSUME Inv, pc = "edit", NEW i \in Target
  PROVE  LET r == Edited(zone[i]) IN
         /\ i \in 1..Len(zone) /\ r \in Rec /\ r.id = zone[i].id /\ (zone[i].id = given => r.host = zone[i].host)
         /\ zone[i].id = given => r.type = Type
         /\ ~Plugin("cloudxns.net") => r.host \in Names /\ r.domain = Own
         /\ ~OneOf(Asks) => r.host = "www" /\ r.type = Type
<1> DEFINE r == Edited(zone[i])
           s == zone[i]
<1>z. /\ zone \in Seq(Rec) /\ DistinctIn(zone) /\ DOMAIN zone = 1..Len(zone) /\ \A j \in 1..Len(zone) : zone[j].id \in Ids
      /\ \A a : IsId(a) <=> IdIn(zone, a)
  BY ZoneRecs
<1>1. i \in 1..Len(zone) /\ s \in Rec
  BY <1>z DEF Target
<1>2. Type \in AnyType /\ round \in Nat
  BY Family, BoundsAssumption DEF Inv, PhaseInv
<1>3. ZoneInv /\ NameInv /\ EditInv
  BY DEF Inv
<1>4. HostOf(given) \in Names
  BY <1>3 DEF NameInv, HostOf, Names
<1>5. name \in Names
  BY <1>3, <1>4 DEF NameInv
<1>6. NewHost \in Names \cup Made /\ (~Plugin("cloudxns.net") => NewHost = name)
  <2>1. prefix \in Made
    BY DEF Inv, PrefixInv
  <2> QED BY <1>5, <2>1 DEF NewHost
<1>7. NewType(s) \in AnyType
  BY <1>1, <1>2 DEF NewType, Rec
<1>8. Address \in AnyType \X Nat
  BY <1>2 DEF Address
<1>9. /\ r \in Rec /\ r.id = s.id /\ r.domain = s.domain /\ r.type = NewType(s)
      /\ r.host = IF Plugin("freedns.afraid.org") THEN s.host ELSE NewHost
  BY <1>1, <1>6, <1>7, <1>8 DEF Rec, Edited
<1>10. ASSUME s.id = given PROVE r.host = s.host /\ r.type = Type
  <2>1. IsId(given)
    BY <1>1, <1>10, <1>z DEF IdIn
  <2>2. Plugin("cloudflare.com") /\ OneOf(Asks)
    BY <1>3, <2>1, AsksOne DEF NameInv
  <2>3. s.id = id
    BY <2>2 DEF Target
  <2>4. id # "none"
    BY <1>1, <1>z, <2>3, NamesAssumption DEF NoId
  <2>5. name = HostOf(given)
    BY <1>3, <2>4 DEF EditInv
  <2>6. HostOf(given) = s.host
    <3>1. HostOf(given) = HostIn(zone, given)
      BY <1>z, ZoneOf
    <3>2. HostIn(zone, zone[i].id) = zone[i].host
      BY <1>1, <1>z, HostInIs
    <3> QED BY <1>10, <3>1, <3>2
  <2>7. ~Plugin("freedns.afraid.org") /\ ~Plugin("cloudxns.net")
    BY <2>2, AsksOne
  <2>8. NewType(s) = Type
    BY <2>2 DEF NewType, OneOf, Plugin
  <2> HIDE DEF r, s
  <2> QED BY <1>6, <1>9, <2>5, <2>6, <2>7, <2>8
<1>11. ~Plugin("cloudxns.net") => r.host \in Names /\ r.domain = Own
  <2>1. ~Plugin("cloudxns.net") => s.host \in Names /\ s.domain = Own
    BY <1>1, <1>3 DEF ZoneInv
  <2> HIDE DEF r, s
  <2> QED BY <1>5, <1>6, <1>9, <2>1
<1>12. ASSUME ~OneOf(Asks) PROVE r.host = "www" /\ r.type = Type
  <2>1. ~Plugin("cloudflare.com") /\ ~Plugin("cloudxns.net")
    BY <1>12, AsksOne
  <2>2. name = "www"
    BY <1>3, <1>12, <2>1, PlainName DEF NameInv
  <2>3. s.host = "www" /\ s.type = Type
    BY <1>1, <1>3, <1>12 DEF ZoneInv
  <2>4. NewType(s) = s.type
    BY <1>12 DEF NewType, OneOf, Asks
  <2> HIDE DEF r, s
  <2> QED BY <1>6, <1>9, <2>1, <2>2, <2>3, <2>4
<1> QED BY <1>1, <1>9, <1>10, <1>11, <1>12

\* A new record.
NewRecord == [Record(FreshId, name, IF Plugin("pdd.yandex.ru") THEN "A" ELSE Type) EXCEPT !.value = Address]
\* A record that is created has a fresh ID and a name of the alias.
LEMMA CreatedRecord ==
  ASSUME Inv, pc = "edit", Creates, FreshIds # {}
  PROVE  /\ NewRecord \in Rec /\ ~IdIn(zone, NewRecord.id) /\ NewRecord.id # given /\ NewRecord.host \in Names /\ NewRecord.domain = Own
         /\ OneOf(Asks) /\ ~Plugin("cloudxns.net")
<1>1. FreshId \in FreshIds
  BY Zenon DEF FreshId
<1>2. FreshId \in NewIds /\ ~IsId(FreshId)
  BY <1>1 DEF FreshIds
<1>3. NameInv /\ Type \in AnyType /\ round \in Nat
  BY Family, BoundsAssumption DEF Inv, PhaseInv
<1>4. HostOf(given) \in Names
  BY <1>3 DEF NameInv, HostOf, Names
<1>5. name \in Names /\ FreshId # given
  BY <1>2, <1>3, <1>4 DEF NameInv
<1>6. Address \in AnyType \X Nat
  BY <1>3 DEF Address
<1> DEFINE t == IF Plugin("pdd.yandex.ru") THEN "A" ELSE Type
<1>7. t \in AnyType /\ FreshId \in Ids
  BY <1>2, <1>3, NamesAssumption DEF AnyType
<1> HIDE DEF t
<1>8. NewRecord \in Rec /\ NewRecord.id = FreshId /\ NewRecord.host = name /\ NewRecord.domain = Own
  <2>1. NewRecord = [Record(FreshId, name, t) EXCEPT !.value = Address]
    BY DEF NewRecord, t
  <2> QED BY <1>5, <1>6, <1>7, <2>1, AccountsAssumption DEF Record, RecordIn, Rec
<1>9. ~IdIn(zone, FreshId)
  BY <1>2, ZoneRecs
<1>10. OneOf(Asks) /\ ~Plugin("cloudxns.net")
  BY DEF Creates, OneOf, Asks, Plugin
<1> QED BY <1>5, <1>8, <1>9, <1>10

\* An update of the zone keeps the IDs and the name of the alias.
ZoneChange ==
  /\ ZoneInv' /\ zone' \in Seq(Rec)
  /\ (\A a : IdIn(zone, a) => IdIn(zone', a)) /\ (IdIn(zone', given) <=> IdIn(zone, given))
  /\ HostIn(zone', given) = HostIn(zone, given)
  /\ \A i \in 1..Len(zone') :
       zone'[i].id = given => \/ zone'[i].type = Type
                              \/ \E j \in 1..Len(zone) : zone[j].id = given /\ zone'[i].type = zone[j].type

\* What the provider does to the zone.
LEMMA ApplyZone ==
  ASSUME Inv, Apply
  PROVE  ZoneChange
<1>0. pc = "edit" /\ obj' = obj
  BY DEF Apply
<1>z. /\ zone \in Seq(Rec) /\ DistinctIn(zone) /\ DOMAIN zone = 1..Len(zone) /\ Len(zone) \in Nat /\ ZoneInv
  BY ZoneRecs DEF Inv
<1>1. /\ Type' = Type /\ (Plugin("cloudxns.net")' <=> Plugin("cloudxns.net")) /\ (OneOf(Asks)' <=> OneOf(Asks))
  BY <1>0 DEF Type, V6, Plugin, OneOf
<1>2. CASE Creates /\ FreshIds # {} /\ zone' = Append(zone, NewRecord)
  <2>1. /\ NewRecord \in Rec /\ ~IdIn(zone, NewRecord.id) /\ NewRecord.id # given /\ NewRecord.host \in Names /\ NewRecord.domain = Own
        /\ OneOf(Asks) /\ ~Plugin("cloudxns.net")
    BY <1>0, <1>2, CreatedRecord
  <2> DEFINE r == NewRecord
             y == Append(zone, r)
  <2>2. /\ y \in Seq(Rec) /\ Len(y) = Len(zone) + 1 /\ y[Len(zone) + 1] = r /\ \A j \in 1..Len(zone) : y[j] = zone[j]
        /\ DistinctIn(y) /\ (\A b : IdIn(zone, b) => IdIn(y, b)) /\ (IdIn(y, given) <=> IdIn(zone, given))
        /\ HostIn(y, given) = HostIn(zone, given)
    BY <1>z, <2>1, ZoneAppend
  <2>3. zone' = y
    BY <1>2
  <2> HIDE DEF y, r
  <2>4. \A j \in 1..Len(y) : j \in 1..Len(zone) \/ j = Len(zone) + 1
    BY <1>z, <2>2
  <2>5. \A j \in 1..Len(y) : y[j].host \in Names /\ y[j].domain = Own
    BY <1>z, <2>1, <2>2, <2>4 DEF ZoneInv, r
  <2>6. Distinct(zone)'
    BY <2>2, <2>3, ZoneOfNext
  <2>7. ZoneInv'
    BY <1>1, <2>1, <2>2, <2>3, <2>5, <2>6 DEF ZoneInv
  <2>8. ASSUME NEW j \in 1..Len(zone'), zone'[j].id = given
        PROVE  \E k \in 1..Len(zone) : zone[k].id = given /\ zone'[j].type = zone[k].type
    <3>1. j \in 1..Len(zone)
      BY <2>1, <2>2, <2>3, <2>4, <2>8 DEF r
    <3>2. zone'[j] = zone[j]
      BY <2>2, <2>3, <3>1
    <3> QED BY <2>8, <3>1, <3>2
  <2> QED BY <2>2, <2>3, <2>7, <2>8 DEF ZoneChange
<1>3. ASSUME NEW i \in Target, zone' = [zone EXCEPT ![i] = Edited(@)] PROVE ZoneChange
  <2>1. /\ i \in 1..Len(zone) /\ Edited(zone[i]) \in Rec /\ Edited(zone[i]).id = zone[i].id
        /\ zone[i].id = given => Edited(zone[i]).host = zone[i].host
        /\ zone[i].id = given => Edited(zone[i]).type = Type
        /\ ~Plugin("cloudxns.net") => Edited(zone[i]).host \in Names /\ Edited(zone[i]).domain = Own
        /\ ~OneOf(Asks) => Edited(zone[i]).host = "www" /\ Edited(zone[i]).type = Type
    BY <1>0, EditedRecord
  <2> DEFINE r == Edited(zone[i])
             y == [zone EXCEPT ![i] = r]
  <2>2. zone' = y
    BY <1>3
  <2> HIDE DEF r
  <2>3. /\ y \in Seq(Rec) /\ Len(y) = Len(zone) /\ y[i] = r
        /\ \A j \in 1..Len(zone) : y[j].id = zone[j].id /\ (j # i => y[j] = zone[j])
        /\ DistinctIn(y) /\ (\A b : IdIn(y, b) <=> IdIn(zone, b)) /\ HostIn(y, given) = HostIn(zone, given)
    <3>1. r \in Rec /\ r.id = zone[i].id /\ (zone[i].id = given => r.host = zone[i].host) /\ i \in 1..Len(zone)
      BY <2>1 DEF r
    <3>2. EditsTo(Rec, zone, i, r, given, [zone EXCEPT ![i] = r])
      BY <1>z, <3>1, ZoneEdit
    <3>3. EditsTo(Rec, zone, i, r, given, y)
      BY <3>2
    <3> HIDE DEF y
    <3> QED BY <3>3 DEF EditsTo
  <2> HIDE DEF y
  <2>4. Distinct(zone)'
    BY <2>2, <2>3, ZoneOfNext
  <2>5. ~Plugin("cloudxns.net") => \A j \in 1..Len(y) : y[j].host \in Names /\ y[j].domain = Own
    BY <1>z, <2>1, <2>3 DEF ZoneInv, r
  <2>6. ~OneOf(Asks) => \A j \in 1..Len(y) : y[j].host = "www" /\ y[j].type = Type
    BY <1>z, <2>1, <2>3 DEF ZoneInv, r
  <2>7. ZoneInv'
    BY <1>1, <2>2, <2>3, <2>4, <2>5, <2>6 DEF ZoneInv
  <2>8. ASSUME NEW j \in 1..Len(zone'), zone'[j].id = given
        PROVE  \/ zone'[j].type = Type
               \/ \E k \in 1..Len(zone) : zone[k].id = given /\ zone'[j].type = zone[k].type
    <3>1. j \in 1..Len(zone) /\ zone[j].id = given
      BY <2>2, <2>3, <2>8
    <3>2. CASE j = i
      BY <2>1, <2>2, <2>3, <3>1, <3>2 DEF r
    <3>3. CASE j # i
      BY <2>2, <2>3, <3>1, <3>3
    <3> QED BY <3>2, <3>3
  <2> QED BY <2>2, <2>3, <2>7, <2>8 DEF ZoneChange
<1> QED BY <1>2, <1>3 DEF Apply, NewRecord

\* Applying the update keeps the invariant, the alias and its record.
LEMMA ApplyKeeps ==
  ASSUME Inv, Apply
  PROVE  Inv' /\ HostOf(given)' = HostOf(given) /\ (\A a : IsId(a) => IsId(a)') /\ (IsId(given)' <=> IsId(given))
<1>0. /\ pc = "edit" /\ pc' = "answer" /\ obj' = obj /\ given' = given /\ name' = name /\ id' = id
      /\ round' = round /\ failed' = failed /\ open' = open
  BY DEF Apply
<1>1. ZoneChange
  BY ApplyZone
<1>2. zone \in Seq(Rec) /\ zone' \in Seq(Rec) /\ ZoneInv'
  BY <1>1, ZoneRecs DEF ZoneChange
<1>3. HostOf(given)' = HostOf(given)
  BY <1>0, <1>1, <1>2, ZoneOf, ZoneOfNext DEF ZoneChange
<1>4. (\A a : IsId(a) => IsId(a)') /\ (IsId(given)' <=> IsId(given))
  <2>1. \A a : IsId(a) => IsId(a)'
    BY <1>1, <1>2, ZoneOf, ZoneOfNext DEF ZoneChange
  <2>2. IsId(given)' <=> IsId(given)
    BY <1>0, <1>1, <1>2, ZoneOf, ZoneOfNext DEF ZoneChange
  <2> QED BY <2>1, <2>2
<1>5. /\ Type' = Type /\ (Plugin("cloudflare.com")' <=> Plugin("cloudflare.com")) /\ (OneOf(Asks)' <=> OneOf(Asks))
  BY <1>0 DEF Type, V6, Plugin, OneOf
<1>6. NameInv'
  <2>1. NameInv
    BY DEF Inv
  <2>2. IsId(given) => \A i \in 1..Len(zone') : zone'[i].id = given => zone'[i].type = Type
    BY <1>1, <2>1 DEF ZoneChange, NameInv
  <2> QED BY <1>0, <1>3, <1>4, <1>5, <2>1, <2>2 DEF NameInv
<1>7. PhaseInv'
  <2>1. PhaseInv
    BY DEF Inv
  <2> QED BY <1>0, <2>1 DEF PhaseInv
<1>8. PrefixInv' /\ EditInv' /\ MissingInv'
  <2>1. cx' = cx
    BY DEF Apply
  <2> QED BY <1>0, <2>1, NotEdit, PrefixKept
<1> QED BY <1>2, <1>3, <1>4, <1>6, <1>7, <1>8 DEF Inv

\* The invariant.
LEMMA NextInv == Inv /\ [Next]_vars => Inv'
<1> SUFFICES ASSUME Inv, [Next]_vars PROVE Inv'
  OBVIOUS
<1>1. CASE StartUpdate
  BY <1>1, StartKeeps
<1>2. CASE QueryFails \/ QueryRefused \/ QueryZone \/ QueryDomains
  BY <1>2, PlainQueriesKeep
<1>3. CASE QueryById
  BY <1>3, ByIdKeeps
<1>4. CASE QueryByName
  BY <1>4, ByNameKeeps
<1>5. CASE QueryAnyRecord
  BY <1>5, AnyRecordKeeps
<1>6. CASE QueryYandex
  BY <1>6, YandexKeeps
<1>7. CASE QueryCloudxns
  BY <1>7, CloudxnsKeeps
<1>8. CASE QueryDnspod
  BY <1>8, DnspodKeeps
<1>9. CASE QueryFreedns
  BY <1>9, FreednsKeeps
<1>10. CASE Apply
  BY <1>10, ApplyKeeps
<1>11. CASE Refuse \/ AnswerWords \/ AnswerJson \/ UpdateFails
  <2>1. /\ Still /\ name' = name /\ round' = round /\ failed' = failed /\ open' = open
        /\ cx' = cx /\ pc \in {"edit", "answer"} /\ pc' \in {"answer", "done"}
    BY <1>11 DEF Refuse, AnswerWords, AnswerJson, UpdateFails, UpdateReturns, ReadAnswer, Still
  <2> QED BY <2>1, AnswerKeeps
<1>12. CASE UNCHANGED vars
  <2>1. /\ Still /\ name' = name /\ query' = query /\ id' = id /\ pc' = pc /\ round' = round
        /\ open' = open /\ failed' = failed /\ act' = act /\ zone' = zone /\ given' = given /\ obj' = obj
        /\ cx' = cx
    BY <1>12 DEF vars, Still
  <2>2. ZoneInv' /\ NameInv' /\ HostOf(given)' = HostOf(given) /\ Type' = Type /\ \A D : OneOf(D)' <=> OneOf(D)
    BY <2>1, Kept
  <2>3. PhaseInv' /\ PrefixInv'
    <3>1. PhaseInv
      BY DEF Inv
    <3>2. PhaseInv'
      BY <2>1, <2>2, <3>1 DEF PhaseInv, Nothing
    <3> QED BY <2>1, <3>2, PrefixKept
  <2>4. EditInv'
    <3>1. EditInv /\ \A r : Named(r)' <=> Named(r)
      BY <2>1, Kept DEF Inv
    <3>2. IsId(given)' <=> IsId(given)
      BY <2>1 DEF IsId
    <3>3. ToSet(zone)' = ToSet(zone)
      BY <2>1
    <3> QED BY <2>1, <2>2, <3>1, <3>2, <3>3 DEF EditInv
  <2>5. MissingInv'
    BY <2>1, <2>2 DEF MissingInv, Creates, Inv
  <2> QED BY <2>2, <2>3, <2>4, <2>5 DEF Inv
<1> QED BY <1>1, <1>2, <1>3, <1>4, <1>5, <1>6, <1>7, <1>8, <1>9, <1>10, <1>11, <1>12 DEF Next, Query

-----------------------------------------------------------------------------
(* The theorems *)

\* The invariant: the IDs of the zone stay distinct, the alias is the one that
\* was given or the name of its record, and the record that setup() hands on to
\* the update is the one the update is meant for.
THEOREM Invariant == Spec => []Inv
<1>1. Init => Inv
  BY InitInv
<1>2. Inv /\ [Next]_vars => Inv'
  BY NextInv
<1> QED BY <1>1, <1>2, PTL DEF Spec

\* What the provider did with the update is kept up to the next one, with all
\* that it was done upon.
LEMMA ActStep ==
  ASSUME Inv, [Next]_vars
  PROVE  \/ act' = Nothing
         \/ act' = [kind |-> "refused"]
         \/ Apply
         \/ act' = act /\ Still /\ query' = query /\ cx' = cx
<1>1. CASE StartUpdate
  BY <1>1 DEF StartUpdate, Nothing
<1>2. CASE Query
  <2>1. pc \in {"zone", "record"} /\ act' = act
    BY <1>2 DEF Query, QueryFails, QueryRefused, QueryZone, QueryById, QueryByName, QueryAnyRecord, QueryYandex,
                QueryDomains, QueryCloudxns, QueryDnspod, QueryFreedns
  <2> QED BY <2>1, PhaseFacts
<1>3. CASE Refuse
  BY <1>3 DEF Refuse
<1>4. CASE AnswerWords \/ AnswerJson \/ UpdateFails
  BY <1>4 DEF AnswerWords, AnswerJson, UpdateFails, Still
<1>5. CASE UNCHANGED vars
  BY <1>5 DEF vars, Still
<1> QED BY <1>1, <1>2, <1>3, <1>4, <1>5 DEF Next

\* The record that an update edits.
LEMMA AppliedRecord ==
  ASSUME Inv, Apply, act'.kind = "edit"
  PROVE  /\ \E i \in 1..Len(zone) : i \in Target /\ act'.record = zone[i] /\ zone[i] \in ToSet(zone)
         /\ pc = "edit" /\ query' = query /\ cx' = cx /\ given' = given /\ obj' = obj
<1>1. pc = "edit" /\ query' = query /\ cx' = cx /\ given' = given /\ obj' = obj
  BY DEF Apply
<1>2. PICK i \in Target : act' = [kind |-> "edit", record |-> zone[i]]
  BY DEF Apply
<1>3. i \in DOMAIN zone
  BY DEF Target
<1>4. i \in 1..Len(zone) /\ zone[i] \in ToSet(zone)
  BY <1>3, ZoneRecs
<1> QED BY <1>1, <1>2, <1>4

\* An update changes the record of the alias, in its domain and of the address
\* family, and no other, with the exceptions Named() lists (the setup() of the
\* six plugins that ask for the record; in cloudxns.c the domain and the prefix
\* that it has chosen itself).
THEOREM OnlyNamedRecordAlways == Spec => []OnlyNamedRecord
<1>1. Init => OnlyNamedRecord
  BY DEF Init, OnlyNamedRecord, Nothing
<1>2. Inv /\ OnlyNamedRecord /\ [Next]_vars => OnlyNamedRecord'
  <2> SUFFICES ASSUME Inv, OnlyNamedRecord, [Next]_vars PROVE OnlyNamedRecord'
    OBVIOUS
  <2>1. CASE act' = Nothing \/ act' = [kind |-> "refused"]
    BY <2>1 DEF OnlyNamedRecord, Nothing
  <2>2. CASE Apply
    <3> SUFFICES ASSUME act'.kind = "edit" PROVE Named(act.record)'
      BY DEF OnlyNamedRecord
    <3>1. PICK i \in 1..Len(zone) : i \in Target /\ act'.record = zone[i] /\ zone[i] \in ToSet(zone)
      BY <2>2, AppliedRecord
    <3>2. pc = "edit" /\ query' = query /\ given' = given /\ obj' = obj /\ cx' = cx
      BY <2>2, AppliedRecord
    <3>3. HostOf(given)' = HostOf(given) /\ Type' = Type /\ \A d : Plugin(d)' <=> Plugin(d)
      BY <2>2, <3>2, ApplyKeeps DEF Type, V6, Plugin
    <3>4. Named(zone[i])
      <4>1. CASE OneOf(Asks)
        BY <3>1, <3>2, <4>1 DEF Inv, EditInv, Target
      <4>2. CASE ~OneOf(Asks)
        <5>1. zone[i].host = "www" /\ zone[i].type = Type /\ given = "www" /\ zone[i].domain = Own
          BY <4>2, AsksOne DEF Inv, ZoneInv, NameInv
        <5>2. HostOf(given) = given
          BY <4>2, AsksOne, PlainName
        <5> QED BY <5>1, <5>2 DEF Named
      <4> QED BY <4>1, <4>2
    <3> QED BY <3>1, <3>2, <3>3, <3>4 DEF Named, CutTo, cx
  <2>3. CASE act' = act /\ Still /\ query' = query /\ cx' = cx
    <3>1. HostOf(given)' = HostOf(given) /\ Type' = Type /\ given' = given /\ \A d : Plugin(d)' <=> Plugin(d)
      BY <2>3, Kept DEF Still
    <3> QED BY <2>3, <3>1 DEF OnlyNamedRecord, Named, CutTo, cx
  <2> QED BY <2>1, <2>2, <2>3, ActStep
<1> QED BY <1>1, <1>2, Invariant, PTL DEF Spec

\* A record is created only where the zone has none of that name and type, but
\* for an answer that is no whole success: cut, garbled, denied or without a body
\* (setup() takes RC_DDNS_RSP_NOHOST of json_extract() for a host to be created).
THEOREM CreatesOnlyMissingAlways == Spec => []CreatesOnlyMissing
<1>1. Init => CreatesOnlyMissing
  BY DEF Init, CreatesOnlyMissing, Nothing
<1>2. Inv /\ CreatesOnlyMissing /\ [Next]_vars => CreatesOnlyMissing'
  <2> SUFFICES ASSUME Inv, CreatesOnlyMissing, [Next]_vars PROVE CreatesOnlyMissing'
    OBVIOUS
  <2>1. CASE act' = Nothing \/ act' = [kind |-> "refused"]
    BY <2>1 DEF CreatesOnlyMissing, Nothing
  <2>2. CASE Apply
    <3> SUFFICES ASSUME act'.kind = "create", query' \notin {"cut", "stray", "denied", "empty"}
                 PROVE  ~act'.twin /\ act'.host = HostOf(given)'
      BY DEF CreatesOnlyMissing
    <3> DEFINE twin == \E i \in DOMAIN zone : zone[i].host = name /\ zone[i].type = Type
    <3>1. Creates /\ act' = [kind |-> "create", host |-> name, twin |-> twin] /\ pc = "edit" /\ query' = query
      BY <2>2 DEF Apply
    <3>2. name = HostOf(given) /\ \A i \in 1..Len(zone) : ~(zone[i].host = name /\ zone[i].type = Type)
      BY <3>1 DEF Inv, MissingInv
    <3>3. ~twin
      BY <3>2, ZoneRecs
    <3> HIDE DEF twin
    <3>4. act'.twin = twin /\ act'.host = name
      BY <3>1, Zenon
    <3>5. HostOf(given)' = HostOf(given)
      BY <2>2, ApplyKeeps
    <3>6. ~act'.twin
      BY <3>3, <3>4, Zenon
    <3> QED BY <3>2, <3>4, <3>5, <3>6, Zenon
  <2>3. CASE act' = act /\ Still /\ query' = query /\ cx' = cx
    <3>1. HostOf(given)' = HostOf(given)
      BY <2>3, Kept
    <3> QED BY <2>3, <3>1, Zenon DEF CreatesOnlyMissing
  <2> QED BY <2>1, <2>2, <2>3, ActStep
<1> QED BY <1>1, <1>2, Invariant, PTL DEF Spec

-----------------------------------------------------------------------------
(* What a step of setup() reads *)

\* A flag that is set only if v holds.
LEMMA OrFalse ==
  ASSUME NEW w, NEW v
  PROVE  (w \/ v) \in BOOLEAN /\ (w \in BOOLEAN /\ v = FALSE => (w \/ v) = w)
OBVIOUS

IdLeft == {"partial"} \cup UNION {Cuts(i) : i \in Ids}
QueryKinds == {"whole", "cut", "stray", "late", "denied", "empty"}
ReadsRight ==
  /\ query' \in QueryKinds
  /\ id' = "none" \/ (\E i \in 1..Len(zone) : id' = zone[i].id) \/ (query' = "cut" /\ id' \in IdLeft)
  /\ wild' \in BOOLEAN /\ (wild' # wild => query' = "stray" \/ Plugin("porkbun.com"))

\* One value of json_extract().
LEMMA WildRead ==
  ASSUME wild \in BOOLEAN, NEW x, NEW how, how # "stray" /\ ~Plugin("porkbun.com") => x.wild = FALSE,
         wild' = (wild \/ x.wild), query' = how
  PROVE  wild' \in BOOLEAN /\ (wild' # wild => query' = "stray" \/ Plugin("porkbun.com"))
<1>1. (wild \/ x.wild) \in BOOLEAN /\ (x.wild = FALSE => (wild \/ x.wild) = wild)
  BY OrFalse
<1> DEFINE o == wild \/ x.wild
<1>2. wild' = o
  OBVIOUS
<1>3. o \in BOOLEAN /\ (x.wild = FALSE => o = wild)
  BY <1>1
<1> HIDE DEF o
<1> QED BY <1>2, <1>3

\* The ways an answer in JSON arrives.
LEMMA JsonHow ==
  ASSUME NEW T, NEW a \in Arrives(T)
  PROVE  a[1] \in {"whole", "cut", "stray"}
BY DEF Arrives

\* Those of an answer to a query.
LEMMA ArrivesHow ==
  ASSUME NEW T, NEW a \in QueryArrives(T)
  PROVE  a[1] \in QueryKinds
<1>1. a \in Arrives(T) \/ a[1] \in {"denied", "empty"}
  BY QueryGives
<1> QED BY <1>1, JsonHow DEF QueryKinds

\* A list of records of the zone: the ID read is one of them.
LEMMA ListReadsRight ==
  ASSUME Inv, wild \in BOOLEAN, NEW recs, NEW N, Recs(recs, N), NEW first \in BOOLEAN,
         NEW a \in QueryArrives(Answer(Items(recs), "true", first)), ReadId(Extract(a[2], "id"), a[1]),
         \A k \in 1..N : \E i \in 1..Len(zone) : recs[k] = zone[i]
  PROVE  ReadsRight
<1> DEFINE x == Extract(a[2], "id")
<1>1. IdRead(x, a[1], recs, N, first)
  BY IdReads
<1>2. a[1] \in QueryKinds
  BY ArrivesHow
<1>3. query' = a[1] /\ id' = ByName(x) /\ wild' = (wild \/ x.wild)
  BY DEF ReadId, Read
<1> HIDE DEF x
<1>4. wild' \in BOOLEAN /\ (wild' # wild => query' = "stray" \/ Plugin("porkbun.com"))
  <2>1. a[1] # "stray" /\ ~Plugin("porkbun.com") => x.wild = FALSE
    BY <1>1 DEF IdRead
  <2> QED BY <1>3, <2>1, WildRead
<1>5. id' = "none" \/ \E i \in 1..Len(zone) : id' = zone[i].id
  <2>1. id' = IF x.rc = "OK" THEN x.val ELSE "none"
    BY <1>3 DEF ByName
  <2>2. CASE x.rc = "OK"
    <3>1. PICK j \in 1..N : x.val = recs[j].id
      BY <1>1, <2>2 DEF IdRead
    <3>2. PICK i \in 1..Len(zone) : recs[j] = zone[i]
      OBVIOUS
    <3>3. id' = zone[i].id
      BY <2>1, <2>2, <3>1, <3>2
    <3> QED BY <3>3
  <2> QED BY <2>1, <2>2
<1> QED BY <1>2, <1>3, <1>4, <1>5 DEF ReadsRight

\* The query for the record, of Cloudflare and Porkbun.
LEMMA ByNameReadsRight ==
  ASSUME Inv, wild \in BOOLEAN, QueryByName \/ QueryAnyRecord
  PROVE  ReadsRight
<1>1. CASE QueryByName
  <2> DEFINE m == Matching(zone, name, {Type})
  <2>1. PICK first \in BOOLEAN : \E a \in QueryArrives(Answer(Items(m), "true", first)) : ReadId(Extract(a[2], "id"), a[1])
    BY <1>1 DEF QueryByName, GetRecordType
  <2>2. PICK a \in QueryArrives(Answer(Items(m), "true", first)) : ReadId(Extract(a[2], "id"), a[1])
    BY <2>1
  <2>3. ~Plugin("cloudxns.net")
    BY <1>1, AsksOne DEF QueryByName
  <2>4. Picked(m, zone, name, {Type})
    BY <2>3, MatchingRecs
  <2> HIDE DEF m
  <2>5. Recs(m, Len(m)) /\ \A k \in 1..Len(m) : \E i \in 1..Len(zone) : m[k] = zone[i]
    BY <2>4 DEF Picked
  <2> QED BY <2>2, <2>5, ListReadsRight
<1>2. CASE QueryAnyRecord
  <2>1. PICK a \in QueryArrives(Answer(Items(zone), "true", FALSE)) : ReadId(Extract(a[2], "id"), a[1])
    BY <1>2 DEF QueryAnyRecord
  <2>2. ~Plugin("cloudxns.net")
    BY <1>2, AsksOne DEF QueryAnyRecord
  <2>3. Recs(zone, Len(zone)) /\ FALSE \in BOOLEAN /\ \A k \in 1..Len(zone) : \E i \in 1..Len(zone) : zone[k] = zone[i]
    BY <2>2, ZoneRecs
  <2> QED BY <2>1, <2>3, ListReadsRight
<1> QED BY <1>1, <1>2

\* The query of Cloudflare for a record ID.
LEMMA ByIdReadsRight ==
  ASSUME Inv, wild \in BOOLEAN, QueryById
  PROVE  ReadsRight
<1>0. /\ Plugin("cloudflare.com") /\ ~Plugin("cloudxns.net") /\ ~Plugin("porkbun.com") /\ IsId(name)
  BY AsksOne DEF QueryById
<1>1. PICK i \in 1..Len(zone) : zone[i].id = name /\ zone[i] \in ToSet(zone)
  BY <1>0, ZoneRecs DEF IdIn
<1> DEFINE r == CHOOSE q \in ToSet(zone) : q.id = name
<1>2. r \in ToSet(zone) /\ r.id = name
  <2>1. \E q \in ToSet(zone) : q.id = name
    BY <1>1
  <2> QED BY <2>1, Zenon
<1>3. PICK a \in QueryArrives(Answer(Item(r), "true", FALSE)) : ReadName(Extract(a[2], "name"), a[1])
  BY DEF QueryById
<1> HIDE DEF r
<1> DEFINE x == Extract(a[2], "name")
<1>4. r.id \in Ids /\ r.host \in Names
  BY <1>0, <1>2, ZoneRecs DEF Recs
<1>5. NameRead(x, a[1], r)
  BY <1>0, <1>3, <1>4, NameReads
<1>6. a[1] \in QueryKinds
  BY <1>3, ArrivesHow
<1>7. query' = a[1] /\ id' = ById(x) /\ wild' = (wild \/ x.wild)
  BY <1>3 DEF ReadName, Read
<1> HIDE DEF x
<1>8. wild' \in BOOLEAN /\ (wild' # wild => query' = "stray" \/ Plugin("porkbun.com"))
  <2>1. a[1] # "stray" /\ ~Plugin("porkbun.com") => x.wild = FALSE
    BY <1>5 DEF NameRead
  <2> QED BY <1>7, <2>1, WildRead
<1>9. id' \in {name, "none"}
  BY <1>7 DEF ById
<1> QED BY <1>1, <1>6, <1>7, <1>8, <1>9 DEF ReadsRight

\* The query for the zone.
LEMMA ZoneReadsRight ==
  ASSUME Inv, wild \in BOOLEAN, QueryZone
  PROVE  ReadsRight
<1>0. OneOf({"cloudflare.com", "porkbun.com"}) /\ ~Plugin("cloudxns.net") /\ id' = id /\ pc = "zone"
  BY DEF QueryZone, OneOf, Plugin
<1>1. PICK first \in BOOLEAN :
        \E a \in QueryArrives(Answer(IF Plugin("porkbun.com") THEN Items(zone) ELSE ZoneItem, "true", first)) :
          ReadZone(Extract(a[2], "id"), a[1])
  BY DEF QueryZone
<1>2. PICK a \in QueryArrives(Answer(IF Plugin("porkbun.com") THEN Items(zone) ELSE ZoneItem, "true", first)) :
        ReadZone(Extract(a[2], "id"), a[1])
  BY <1>1
<1> DEFINE x == Extract(a[2], "id")
<1>3. query' = a[1] /\ wild' = (wild \/ x.wild)
  BY <1>2 DEF ReadZone
<1>4. a[1] \in QueryKinds
  BY <1>2, ArrivesHow
<1>5. a[1] # "stray" /\ ~Plugin("porkbun.com") => x.wild = FALSE
  BY <1>2, ZoneReads
<1> HIDE DEF x
<1>6. wild' \in BOOLEAN /\ (wild' # wild => query' = "stray" \/ Plugin("porkbun.com"))
  BY <1>3, <1>5, WildRead
<1>7. id' = "none"
  BY <1>0 DEF Inv, PhaseInv
<1> QED BY <1>3, <1>4, <1>6, <1>7 DEF ReadsRight

\* The query of Yandex.
LEMMA YandexReadsRight ==
  ASSUME Inv, wild \in BOOLEAN, QueryYandex
  PROVE  ReadsRight
<1>0. Plugin("pdd.yandex.ru") /\ wild' = wild /\ pc = "record" /\ id = "none"
  BY PhaseFacts DEF QueryYandex
<1>1. PICK late \in BOOLEAN : \E a \in Arrives(YandexAnswer(zone, late)) :
       /\ IF Success(a[2]) /\ GetRecordId(a[2], name) # "-1" THEN pc' = "edit" /\ id' = GetRecordId(a[2], name)
          ELSE pc' = "done" /\ id' = id
       /\ query' = IF late /\ a[1] = "whole" THEN "late" ELSE a[1]
  BY DEF QueryYandex, SetupReturns
<1>2. PICK a \in Arrives(YandexAnswer(zone, late)) :
       /\ IF Success(a[2]) /\ GetRecordId(a[2], name) # "-1" THEN pc' = "edit" /\ id' = GetRecordId(a[2], name)
          ELSE pc' = "done" /\ id' = id
       /\ query' = IF late /\ a[1] = "whole" THEN "late" ELSE a[1]
  BY <1>1
<1>3. ListedRecs(zone, Len(zone)) /\ name \in Names
  BY <1>0, AsksOne, ZoneRecs, PlainName DEF Inv, NameInv
<1> DEFINE i == GetRecordId(a[2], name)
<1>4. /\ a[1] # "whole" => i = "-1"
      /\ a[1] = "whole" => IdFound(i, zone, Len(zone), late, name)
  BY <1>3, YandexId
<1>5. a[1] \in {"whole", "cut", "stray"}
  BY <1>2, JsonHow
<1>6. id' = "none" \/ (i # "-1" /\ id' = i)
  BY <1>0, <1>2
<1> HIDE DEF i
<1>7. id' = "none" \/ \E j \in 1..Len(zone) : id' = zone[j].id
  BY <1>4, <1>6 DEF IdFound
<1>8. query' \in QueryKinds
  BY <1>2, <1>5 DEF QueryKinds
<1> QED BY <1>0, <1>7, <1>8 DEF ReadsRight

\* The query of CloudXNS.
LEMMA CloudxnsReadsRight ==
  ASSUME Inv, wild \in BOOLEAN, QueryCloudxns
  PROVE  ReadsRight
<1>0. wild' = wild /\ pc = "record" /\ id = "none"
  BY PhaseFacts DEF QueryCloudxns
<1> DEFINE z == InDomain(zone, domain.id)
<1>1. PICK host \in PrefixMade : \E a \in ListArrives(z) : Finds(FirstId(Matching(a[2], host, AnyType))) /\ query' = a[1]
  BY DEF QueryCloudxns
<1>b. PICK a \in ListArrives(z) : Finds(FirstId(Matching(a[2], host, AnyType))) /\ query' = a[1]
  BY <1>1
<1> DEFINE i == FirstId(Matching(a[2], host, AnyType))
<1>z. z \in Seq(Rec) /\ \A k \in 1..Len(z) : \E j \in 1..Len(zone) : z[k] = zone[j]
  BY ChosenRecs
<1> HIDE DEF z
<1>2. Received(a, z) /\ \A k \in 1..Len(a[2]) : Same(a[2][k], z[k]) \/ HostCut(a[2][k], z[k], a[1])
  BY <1>b, <1>z, ListReceived
<1>3. PICK R : a[2] \in Seq(R)
  BY <1>2 DEF Received
<1>4. i = "0" \/ \E k \in 1..Len(a[2]) : i = a[2][k].id /\ a[2][k].host = host /\ a[2][k].type \in AnyType
  BY <1>3, FirstSelected
<1>5. Finds(i)
  BY <1>b
<1> HIDE DEF i
<1>6. id' = "none" \/ (i # "0" /\ id' = i)
  BY <1>0, <1>5 DEF Finds, SetupReturns
<1>7. \A k \in 1..Len(a[2]) : k \in 1..Len(z) /\ a[2][k].id = z[k].id
  BY <1>2, <1>3, <1>z DEF Received, Same, HostCut
<1>8. id' = "none" \/ \E k \in 1..Len(zone) : id' = zone[k].id
  BY <1>4, <1>6, <1>7, <1>z
<1> QED BY <1>0, <1>b, <1>2, <1>8 DEF ReadsRight, QueryKinds, Received

\* The query of DNSPod.
LEMMA DnspodReadsRight ==
  ASSUME Inv, wild \in BOOLEAN, QueryDnspod
  PROVE  ReadsRight
<1>0. wild' = wild /\ pc = "record" /\ id = "none"
  BY PhaseFacts DEF QueryDnspod
<1> DEFINE m == Matching(zone, name, AnyType)
<1>1. PICK a \in IdArrives(m) : Finds(FirstId(a[2])) /\ query' = a[1]
  BY DEF QueryDnspod
<1>z. zone \in Seq(Rec) /\ Len(zone) \in Nat /\ \A i \in 1..Len(zone) : zone[i].id \in Ids
  BY ZoneRecs
<1>2. SelectsNamed(zone, name, AnyType, m)
  BY <1>z, MatchingSelects
<1> HIDE DEF m
<1>3. m \in Seq(Rec)
  <2> DEFINE Q == {zone[j] : j \in 1..Len(zone)}
  <2>1. Q \subseteq Rec
    BY <1>z
  <2>2. m \in Seq(Q)
    BY <1>2 DEF SelectsNamed
  <2> HIDE DEF Q
  <2> QED BY <2>1, <2>2
<1>4. Received(a, m) /\ \A k \in 1..Len(a[2]) : Same(a[2][k], m[k]) \/ IdCut(a[2][k], m[k], a[1])
  BY <1>3, IdReceived
<1>5. PICK R : a[2] \in Seq(R)
  BY <1>4 DEF Received
<1>6. Finds(FirstId(a[2]))
  BY <1>1
<1>7. CASE FirstId(a[2]) = "0"
  <2>1. id' = "none"
    BY <1>0, <1>6, <1>7 DEF Finds
  <2> QED BY <1>0, <1>1, <1>4, <2>1 DEF ReadsRight, QueryKinds, Received
<1>8. CASE FirstId(a[2]) # "0"
  <2>1. a[2] # <<>> /\ id' = a[2][1].id
    BY <1>6, <1>8 DEF Finds, FirstId
  <2>2. 1 \in 1..Len(a[2]) /\ 1 \in 1..Len(m)
    BY <1>3, <1>4, <1>5, <2>1 DEF Received
  <2>3. PICK k \in 1..Len(zone) : m[1] = zone[k]
    BY <1>2, <2>2 DEF SelectsNamed
  <2>4. id' = zone[k].id \/ (a[1] = "cut" /\ id' \in Cuts(zone[k].id))
    BY <1>4, <2>1, <2>2, <2>3 DEF Same, IdCut
  <2>5. Cuts(zone[k].id) \subseteq IdLeft
    BY <1>z DEF IdLeft
  <2> QED BY <1>0, <1>1, <1>4, <2>4, <2>5 DEF ReadsRight, QueryKinds, Received
<1> QED BY <1>7, <1>8

\* The query of FreeDNS.
LEMMA FreednsReadsRight ==
  ASSUME Inv, wild \in BOOLEAN, QueryFreedns
  PROVE  ReadsRight
<1>0. wild' = wild /\ pc = "record" /\ id = "none"
  BY PhaseFacts DEF QueryFreedns
<1>z. zone \in Seq(Rec) /\ Len(zone) \in Nat
  BY ZoneRecs
<1>1. CASE query' = "whole" /\ id' = id
  BY <1>0, <1>1 DEF ReadsRight, QueryKinds
<1>2. ASSUME NEW a \in KeyArrives(zone), FreednsSetup(a[2]), query' = a[1] PROVE ReadsRight
  <2> DEFINE i == FirstId(Matching(a[2], name, AnyType))
  <2>1. IF i # "0" THEN pc' = "edit" /\ id' = i ELSE pc' = "done" /\ id' = id
    BY <1>2 DEF FreednsSetup, SetupReturns
  <2>2. Received(a, zone) /\ \A k \in 1..Len(a[2]) : Same(a[2][k], zone[k]) \/ KeyCut(a[2][k], zone[k], a[1])
    BY <1>z, KeyReceived
  <2>3. PICK R : a[2] \in Seq(R)
    BY <2>2 DEF Received
  <2>4. i = "0" \/ \E k \in 1..Len(a[2]) : i = a[2][k].id /\ a[2][k].host = name /\ a[2][k].type \in AnyType
    BY <2>3, FirstSelected
  <2> HIDE DEF i
  <2>5. \A k \in 1..Len(a[2]) : k \in 1..Len(zone) /\ (a[2][k].id = zone[k].id \/ (a[1] = "cut" /\ a[2][k].id = "partial"))
    BY <1>z, <2>2, <2>3 DEF Received, Same, KeyCut
  <2>6. id' = "none" \/ (\E k \in 1..Len(zone) : id' = zone[k].id) \/ (a[1] = "cut" /\ id' = "partial")
    BY <1>0, <2>1, <2>4, <2>5
  <2> QED BY <1>0, <1>2, <2>2, <2>6 DEF ReadsRight, QueryKinds, Received, IdLeft
<1> QED BY <1>1, <1>2 DEF QueryFreedns

\* Any query: the ID is one of the zone, none, or cut.
LEMMA QueryReadsRight ==
  ASSUME Inv, wild \in BOOLEAN, query \in QueryKinds, Query
  PROVE  ReadsRight
<1>1. CASE QueryFails \/ QueryRefused
  <2>1. pc \in {"zone", "record"} /\ query' = query /\ id' = id /\ wild' = wild
    BY <1>1 DEF QueryFails, QueryRefused
  <2> QED BY <2>1, PhaseFacts DEF ReadsRight
<1>2. CASE QueryDomains
  <2>1. pc \in {"zone", "record"} /\ id' = id /\ wild' = wild /\ \E a \in DomainsArrive : query' = a[1]
    BY <1>2 DEF QueryDomains
  <2>2. query' \in {"whole", "cut"}
    <3>1. PICK a \in DomainsArrive : query' = a[1]
      BY <2>1
    <3> DEFINE whole == [i \in DOMAIN account |-> Listed(account[i], account[i])]
    <3>2. \/ a = <<"whole", whole>>
          \/ \E n \in 0..(Len(whole) - 1) : a = <<"cut", SubSeq(whole, 1, n)>>
          \/ \E n \in DOMAIN account : \E d \in Cuts(account[n]) :
               a = <<"cut", [SubSeq(whole, 1, n) EXCEPT ![n] = Listed(account[n], d)]>>
      BY DEF DomainsArrive, CutBehind
    <3> HIDE DEF whole
    <3> QED BY <3>1, <3>2
  <2> QED BY <2>1, <2>2, PhaseFacts DEF ReadsRight, QueryKinds
<1> QED BY <1>1, <1>2, ZoneReadsRight, ByIdReadsRight, ByNameReadsRight, YandexReadsRight, CloudxnsReadsRight, DnspodReadsRight,
           FreednsReadsRight DEF Query

-----------------------------------------------------------------------------
(* What response() makes of the answer to the update *)

\* The answer in JSON to the update is read right.
LEMMA AnswerJsonReads ==
  ASSUME wild \in BOOLEAN, AnswerJson
  PROVE  /\ pc = "answer" /\ pc' = "done" /\ act' = act /\ obj' = obj
         /\ reply' \in {"whole", "cut", "stray", "status"}
         /\ rc' = "OK" => Applied
         /\ reply' = "whole" /\ Applied => rc' = "OK"
         /\ wild' \in BOOLEAN /\ (wild' # wild => reply' = "stray")
<1>0. pc = "answer" /\ act' = act /\ obj' = obj
  BY DEF AnswerJson
<1>1. ASSUME NEW status \in Statuses,
             UpdateReturns(IF StatusCode(status) = "OK" THEN "NOTOK" ELSE StatusCode(status), "status"), wild' = wild
      PROVE  pc' = "done" /\ reply' = "status" /\ rc' # "OK"
  BY <1>1 DEF UpdateReturns
<1> DEFINE done == Applied
           full(first) == IF Plugin("pdd.yandex.ru") THEN YandexDone(done)
                          ELSE Answer(<<Str("record")>>, IF done THEN "true" ELSE "false", first)
<1>2. done \in BOOLEAN
  BY DEF Applied
<1>3. ASSUME NEW first \in BOOLEAN, NEW a \in Arrives(full(first)), ReadAnswer(JsonResponse(a[2]), a[1])
      PROVE  /\ pc' = "done" /\ reply' \in {"whole", "cut", "stray"}
             /\ rc' = "OK" => done
             /\ reply' = "whole" /\ done => rc' = "OK"
             /\ wild' \in BOOLEAN /\ (wild' # wild => reply' = "stray")
  <2> DEFINE r == JsonResponse(a[2])
  <2>1. a[1] \in {"whole", "cut", "stray"}
    BY <1>3, JsonHow
  <2> HIDE DEF done
  <2>2. DoneRead(r, a[1], done)
    <3>1. CASE Plugin("pdd.yandex.ru")
      <4>1. r.ok = Success(a[2]) /\ r.wild = FALSE
        BY <3>1, Zenon DEF JsonResponse
      <4>2. a \in Arrives(YandexDone(done))
        BY <1>3, <3>1
      <4>3. (Success(a[2]) => done) /\ (a[1] = "whole" /\ done => Success(a[2]))
        BY <1>2, <4>2, OkReads
      <4> HIDE DEF r
      <4> QED BY <4>1, <4>3, Zenon DEF DoneRead
    <3>2. CASE ~Plugin("pdd.yandex.ru")
      <4>1. r = CheckSuccessOnly(a[2])
        BY <3>2 DEF JsonResponse
      <4>2. a \in Arrives(Answer(<<Str("record")>>, IF done THEN "true" ELSE "false", first))
        BY <1>3, <3>2
      <4>3. DoneRead(CheckSuccessOnly(a[2]), a[1], done)
        BY <1>2, <1>3, <4>2, SuccessReads
      <4> QED BY <4>1, <4>3
    <3> QED BY <3>1, <3>2
  <2>3. rc' = (IF r.ok THEN "OK" ELSE "NOTOK") /\ pc' = "done" /\ reply' = a[1] /\ wild' = (wild \/ r.wild)
    BY <1>3 DEF ReadAnswer, UpdateReturns
  <2> HIDE DEF r
  <2>4. (rc' = "OK" => done) /\ (reply' = "whole" /\ done => rc' = "OK")
    BY <2>2, <2>3 DEF DoneRead
  <2>5. wild' \in BOOLEAN /\ (wild' # wild => reply' = "stray")
    <3> DEFINE o == wild \/ r.wild
    <3>1. o \in BOOLEAN /\ (r.wild = FALSE => o = wild)
      BY OrFalse
    <3>2. wild' = o
      BY <2>3
    <3> HIDE DEF o
    <3>3. a[1] # "stray" => r.wild = FALSE
      BY <2>2 DEF DoneRead
    <3> QED BY <2>3, <3>1, <3>2, <3>3
  <2> QED BY <2>1, <2>3, <2>4, <2>5
<1>4. \/ \E first \in BOOLEAN : \E a \in Arrives(full(first)) : ReadAnswer(JsonResponse(a[2]), a[1])
      \/ \E status \in Statuses :
           /\ UpdateReturns(IF StatusCode(status) = "OK" THEN "NOTOK" ELSE StatusCode(status), "status")
           /\ wild' = wild
  BY DEF AnswerJson, YandexDone
<1>5. CASE \E first \in BOOLEAN : \E a \in Arrives(full(first)) : ReadAnswer(JsonResponse(a[2]), a[1])
  <2>1. PICK first \in BOOLEAN : \E a \in Arrives(full(first)) : ReadAnswer(JsonResponse(a[2]), a[1])
    BY <1>5
  <2>2. PICK a \in Arrives(full(first)) : ReadAnswer(JsonResponse(a[2]), a[1])
    BY <2>1
  <2> QED BY <1>0, <1>3, <2>1, <2>2
<1>6. CASE \E status \in Statuses :
             /\ UpdateReturns(IF StatusCode(status) = "OK" THEN "NOTOK" ELSE StatusCode(status), "status")
             /\ wild' = wild
  BY <1>0, <1>1, <1>6
<1> QED BY <1>4, <1>5, <1>6

\* A plugin returns what the first of its tests says that finds a word.
Hits(rules, words) == {n \in DOMAIN rules : rules[n].words \cap (words \cup {Anything}) # {}}
StatusOf(file, status) == IF status \in file.accepts THEN "OK" ELSE StatusValid(status)
FirstTest(file, status, words) ==
  \E h \in Hits(file.rules, words) :
     /\ \A m \in Hits(file.rules, words) : h <= m
     /\ Response(file, status, words) = IF StatusOf(file, status) # "OK" THEN StatusOf(file, status) ELSE file.rules[h].rc

\* response() returns the code of its first test that hits.
LEMMA ResponseIs ==
  ASSUME NEW o \in Plugins, NEW status, NEW words
  PROVE  FirstTest(Files[o.file], status, words)
<1> DEFINE file == Files[o.file]
           rules == file.rules
           code == StatusOf(file, status)
           hit  == Hits(rules, words)
           h    == CHOOSE n \in hit : \A m \in hit : n <= m
<1>1. DOMAIN rules = 1..Len(rules) /\ Len(rules) \in Nat /\ \E n \in DOMAIN rules : Anything \in rules[n].words
  BY TablesAssumption, Zenon
<1>2. Response(file, status, words) = IF code # "OK" THEN code ELSE rules[h].rc
  BY DEF Response, Hits, StatusOf
<1>3. hit # {} /\ hit \subseteq Nat
  BY <1>1 DEF Hits
<1> HIDE DEF hit, code
<1>4. h \in hit /\ \A m \in hit : h <= m
  BY <1>3, MinOfNats
<1> QED BY <1>2, <1>4, Zenon DEF hit, code, FirstTest

\* What reaches response() of the answer.
LEMMA ResponseKinds ==
  ASSUME NEW rules, NEW a \in ResponseArrives(rules)
  PROVE  \/ a.how = "whole" /\ a.status = 200 /\ \E w \in Says(rules) : a.words = {w}
         \/ a.how = "mixed"
         \/ a.how \in {"status", "line", "reason"} /\ a.words = {}
         \/ a.how = "header"
         \/ a.how = "body" /\ a.words \subseteq {"1"}
<1>1. ASSUME NEW w, NEW ws \in CutNumber(w) PROVE ws \subseteq {"1"}
  BY <1>1 DEF CutNumber
<1>2. CASE \E w \in Says(rules) : a = [how |-> "whole",  status |-> 200, words |-> {w}]
  BY <1>2
<1>3. CASE \E ws \in RefusesWithSuccess : a = [how |-> "mixed",  status |-> 200, words |-> ws]
  BY <1>3
<1>4. CASE \E s \in Statuses : a = [how |-> "status", status |-> s, words |-> {}]
  BY <1>4
<1>5. CASE a = [how |-> "line",   status |-> 0,   words |-> {}]
  BY <1>5
<1>6. CASE a = [how |-> "reason", status |-> 200, words |-> {}]
  BY <1>6
<1>7. CASE \E ws \in HeaderWords(rules) : a = [how |-> "header", status |-> 200, words |-> ws]
  BY <1>7
<1>8. CASE \E ws \in UNION {CutNumber(w) : w \in Says(rules)} : a = [how |-> "body", status |-> 200, words |-> ws]
  BY <1>1, <1>8
<1> QED BY <1>2, <1>3, <1>4, <1>5, <1>6, <1>7, <1>8, Zenon DEF ResponseArrives

\* The words of an update that was not applied are none of a success.
LEMMA RefusedSays ==
  ASSUME NEW rules, "refused" \notin OkWords(rules), ~Applied, NEW w \in Says(rules)
  PROVE  w \notin OkWords(rules)
BY DEF Says

\* The answer in words to the update: what a success means.
LEMMA AnswerWordsReads ==
  ASSUME Inv, AnswerWords
  PROVE  /\ pc = "answer" /\ pc' = "done" /\ act' = act /\ obj' = obj /\ wild' = wild
         /\ reply' \in {"whole", "mixed", "status", "line", "reason", "header", "body"}
         /\ rc' = "OK" => \/ Applied
                          \/ ~ReadsBody
                          \/ reply' \in {"header", "mixed"}
                          \/ reply' = "body" /\ Plugin("dnsexit.com")
         /\ reply' = "whole" /\ Applied => rc' = "OK" \/ Plugin("mydns.jp")
<1> DEFINE rules == Files[obj.file].rules
<1>0. pc = "answer" /\ act' = act /\ obj' = obj /\ wild' = wild /\ This = Files[obj.file] /\ obj \in Plugins
  BY DEF AnswerWords, This, Inv, PhaseInv
<1>1. PICK a \in ResponseArrives(rules) : UpdateReturns(Response(Files[obj.file], a.status, a.words), a.how)
  BY <1>0 DEF AnswerWords
<1>2. pc' = "done" /\ reply' = a.how /\ rc' = Response(Files[obj.file], a.status, a.words)
  BY <1>1 DEF UpdateReturns
<1> DEFINE status == StatusOf(Files[obj.file], a.status)
           hit == Hits(rules, a.words)
<1>3. PICK h \in hit : /\ \A m \in hit : h <= m
                       /\ Response(Files[obj.file], a.status, a.words) = IF status # "OK" THEN status ELSE rules[h].rc
  <2>1. FirstTest(Files[obj.file], a.status, a.words)
    BY <1>0, ResponseIs
  <2> QED BY <2>1, Zenon DEF FirstTest
<1>4. /\ "refused" \notin OkWords(rules) /\ ("1" \in OkWords(rules) => Plugin("dnsexit.com"))
      /\ DOMAIN rules = 1..Len(rules) /\ Len(rules) \in Nat
      /\ \E n \in DOMAIN rules : Anything \in rules[n].words
      /\ \/ Plugin("mydns.jp")
         \/ /\ rules[1].rc = "OK" /\ OkWords(rules) \subseteq rules[1].words
            /\ OkWords(rules) = {} => Anything \in rules[1].words
  BY <1>0, TablesAssumption, Zenon DEF Plugin
<1>5. a.status = 200 => status = "OK"
  BY DEF StatusValid, StatusOf
<1>k. \/ a.how = "whole" /\ a.status = 200 /\ \E w \in Says(rules) : a.words = {w}
      \/ a.how = "mixed"
      \/ a.how \in {"status", "line", "reason"} /\ a.words = {}
      \/ a.how = "header"
      \/ a.how = "body" /\ a.words \subseteq {"1"}
  BY <1>1, ResponseKinds
<1>r. ReadsBody <=> \A n \in DOMAIN rules : rules[n].rc = "OK" => Anything \notin rules[n].words
  BY <1>0 DEF ReadsBody
<1>o. This.rules = rules
  BY <1>0
<1>m. \A n : n \in hit <=> n \in DOMAIN rules /\ \E w \in rules[n].words : w \in a.words \/ w = Anything
  BY DEF Hits
<1> HIDE DEF rules, hit, status
<1>6. ASSUME rc' = "OK", ReadsBody, ~Applied
      PROVE  a.how \in {"header", "mixed"} \/ (a.how = "body" /\ Plugin("dnsexit.com"))
  <2>1. rules[h].rc = "OK" /\ h \in DOMAIN rules /\ Anything \notin rules[h].words
    BY <1>2, <1>3, <1>6, <1>m, <1>r
  <2>2. PICK w \in rules[h].words : w \in a.words /\ w # Anything
    BY <1>3, <1>m, <2>1
  <2>3. w \in OkWords(rules)
    BY <2>1, <2>2 DEF OkWords
  <2>4. CASE a.how = "whole" /\ \E v \in Says(rules) : a.words = {v}
    <3>1. w \in Says(rules)
      BY <2>2, <2>4
    <3> QED BY <1>4, <1>6, <2>3, <3>1, RefusedSays
  <2> QED BY <1>4, <1>k, <2>2, <2>3, <2>4
<1>7. ASSUME a.how = "whole", Applied, ~Plugin("mydns.jp") PROVE rc' = "OK"
  <2>1. PICK w \in Says(rules) : a.words = {w} /\ status = "OK"
    BY <1>5, <1>7, <1>k
  <2>2. 1 \in DOMAIN rules /\ rules[1].rc = "OK"
    BY <1>4, <1>7
  <2>3. 1 \in hit
    <3>1. CASE OkWords(rules) = {}
      BY <1>4, <1>7, <1>m, <2>2, <3>1
    <3>2. CASE OkWords(rules) # {}
      <4>1. w \in OkWords(rules)
        BY <1>7, <2>1, <3>2 DEF Says
      <4> QED BY <1>4, <1>7, <1>m, <2>1, <2>2, <4>1
    <3> QED BY <3>1, <3>2
  <2>4. h = 1
    <3>1. h \in 1..Len(rules) /\ h <= 1
      BY <1>3, <1>4, <1>m, <2>3
    <3> QED BY <1>4, <3>1
  <2> QED BY <1>2, <1>3, <2>1, <2>2, <2>4
<1> QED BY <1>0, <1>2, <1>6, <1>7, <1>k, <1>o

\* setup() that ends without an update returns an error.
LEMMA SetupNotOk ==
  ASSUME Query, pc' = "done"
  PROVE  rc' # "OK"
<1>1. ASSUME NEW x, NEW how, ReadZone(x, how) \/ Read(x, how) PROVE rc' # "OK"
  BY <1>1 DEF ReadZone, Read, Found, SetupReturns
<1>2. CASE QueryZone \/ QueryById \/ QueryByName \/ QueryAnyRecord
  <2>1. \E x, how : ReadZone(x, how) \/ Read(x, how)
    BY <1>2 DEF QueryZone, QueryById, QueryByName, QueryAnyRecord, ReadName, ReadId
  <2> QED BY <1>1, <2>1
<1>3. CASE QueryFails \/ QueryRefused
  BY <1>3 DEF QueryFails, QueryRefused, SetupReturns
<1>4. CASE QueryYandex \/ QueryDomains
  BY <1>4 DEF QueryYandex, QueryDomains, SetupReturns
<1>5. CASE QueryCloudxns \/ QueryDnspod
  <2>1. \E i : Finds(i)
    BY <1>5 DEF QueryCloudxns, QueryDnspod
  <2> QED BY <2>1 DEF Finds, SetupReturns
<1>6. CASE QueryFreedns
  <2>1. rc' = "AUTH_FAIL" \/ \E recs : FreednsSetup(recs)
    BY <1>6 DEF QueryFreedns, SetupReturns
  <2> QED BY <2>1 DEF FreednsSetup, SetupReturns
<1> QED BY <1>2, <1>3, <1>4, <1>5, <1>6 DEF Query

\* Every step keeps the types.
LEMMA TypeNext == Inv /\ TypeOK /\ [Next]_vars => TypeOK'
<1> SUFFICES ASSUME Inv, TypeOK, [Next]_vars PROVE TypeOK'
  OBVIOUS
<1> DEFINE Phase == /\ pc' \in {"idle", "zone", "record", "edit", "answer", "done"}
                    /\ round' \in 0..MaxRounds /\ open' \in 0..failed' /\ failed' \in 0..MaxRounds
           IdOK == /\ id' \in Ids \cup NoId \cup (UNION {Cuts(i) : i \in Ids})
                   /\ query' # "cut" => id' = "none" \/ IsId(id)'
           Rest == /\ query' \in QueryKinds /\ wild' \in BOOLEAN
                   /\ reply' \in {"none", "whole", "cut", "stray", "mixed", "status", "line", "reason", "header", "body", "lost"}
                   /\ act'.kind \in {"none", "refused", "edit", "create"}
<1>1. Phase
  <2>1. PhaseInv'
    BY NextInv DEF Inv
  <2>2. round' \in 0..MaxRounds /\ round' \in Nat /\ failed' \in 0..round'
    BY <2>1, BoundsAssumption DEF PhaseInv
  <2>3. failed' \in 0..MaxRounds
    BY <2>2, BoundsAssumption
  <2> QED BY <2>1, <2>2, <2>3 DEF PhaseInv
<1>2. Rest
  <2>1. CASE Query
    <3>1. pc \in {"zone", "record"} /\ act' = act /\ reply' = reply
      BY <2>1 DEF Query, QueryFails, QueryRefused, QueryZone, QueryById, QueryByName, QueryAnyRecord, QueryYandex,
                  QueryDomains, QueryCloudxns, QueryDnspod, QueryFreedns
    <3> QED BY <2>1, <3>1, QueryReadsRight DEF TypeOK, QueryKinds, ReadsRight
  <2>2. CASE StartUpdate \/ Refuse
    BY <2>2 DEF StartUpdate, Refuse, TypeOK, QueryKinds, Nothing
  <2>3. CASE Apply
    <3>1. act'.kind \in {"edit", "create"}
      BY <2>3 DEF Apply
    <3>2. query' = query /\ wild' = wild /\ reply' = reply
      BY <2>3 DEF Apply
    <3> QED BY <3>1, <3>2 DEF TypeOK, QueryKinds
  <2>4. CASE AnswerWords
    <3>1. query' = query
      BY <2>4 DEF AnswerWords
    <3> QED BY <2>4, <3>1, AnswerWordsReads DEF TypeOK, QueryKinds
  <2>5. CASE AnswerJson
    <3>1. query' = query
      BY <2>5 DEF AnswerJson
    <3> QED BY <2>5, <3>1, AnswerJsonReads DEF TypeOK, QueryKinds
  <2>6. CASE UpdateFails
    BY <2>6 DEF UpdateFails, UpdateReturns, TypeOK, QueryKinds
  <2>7. CASE UNCHANGED vars
    BY <2>7 DEF vars, TypeOK, QueryKinds
  <2> QED BY <2>1, <2>2, <2>3, <2>4, <2>5, <2>6, <2>7 DEF Next
<1>3. IdOK
  <2>1. CASE Query
    <3>1. ReadsRight
      BY <2>1, QueryReadsRight DEF TypeOK, QueryKinds
    <3>2. IdLeft \subseteq NoId \cup (UNION {Cuts(i) : i \in Ids})
      BY DEF IdLeft, NoId
    <3>3. "none" \in NoId /\ zone' = zone
      BY <2>1 DEF NoId, Query, QueryFails, QueryRefused, QueryZone, QueryById, QueryByName, QueryAnyRecord, QueryYandex,
                  QueryDomains, QueryCloudxns, QueryDnspod, QueryFreedns
    <3>4. ASSUME NEW i \in 1..Len(zone), id' = zone[i].id PROVE id' \in Ids /\ IsId(id)'
      <4>1. id' \in Ids /\ i \in DOMAIN zone'
        BY <3>3, <3>4, ZoneRecs
      <4>2. id' = zone'[i].id
        BY <3>3, <3>4
      <4> QED BY <4>1, <4>2 DEF IsId
    <3>5. CASE id' = "none"
      BY <3>3, <3>5
    <3>6. CASE \E i \in 1..Len(zone) : id' = zone[i].id
      BY <3>4, <3>6
    <3>7. CASE query' = "cut" /\ id' \in IdLeft
      BY <3>2, <3>7
    <3> QED BY <3>1, <3>5, <3>6, <3>7 DEF ReadsRight
  <2>2. CASE StartUpdate
    BY <2>2 DEF StartUpdate, NoId
  <2>3. CASE Apply
    <3>1. id' = id /\ query' = query
      BY <2>3 DEF Apply
    <3>2. IsId(id) => IsId(id)'
      <4>1. \A a : IsId(a) => IsId(a)'
        BY <2>3, ApplyKeeps
      <4>2. \A a : IsId(a)' <=> \E i \in DOMAIN zone' : zone'[i].id = a
        BY DEF IsId
      <4>3. IsId(id)' <=> \E i \in DOMAIN zone' : zone'[i].id = id'
        BY DEF IsId
      <4> QED BY <3>1, <4>1, <4>2, <4>3
    <3> QED BY <3>1, <3>2 DEF TypeOK
  <2>4. CASE Refuse \/ AnswerWords \/ AnswerJson \/ UpdateFails \/ UNCHANGED vars
    <3>1. id' = id /\ query' = query /\ zone' = zone
      BY <2>4 DEF Refuse, AnswerWords, AnswerJson, UpdateFails, vars
    <3>2. IsId(id)' <=> IsId(id)
      BY <3>1 DEF IsId
    <3> QED BY <3>1, <3>2 DEF TypeOK
  <2> QED BY <2>1, <2>2, <2>3, <2>4 DEF Next
<1>4. account' \in Seq(Domains) /\ domain'.id \in Domains \cup {"none"}
  BY NextInv DEF Inv, PrefixInv
<1> QED BY <1>1, <1>2, <1>3, <1>4 DEF TypeOK, QueryKinds

\* Every variable has a value of its type; an ID that setup() hands on is one of
\* the zone, unless the answer was cut in it; and the connections that
\* json_extract() leaves open are never more than the queries that failed.
THEOREM TypeCorrect == Spec => []TypeOK
<1>1. Init => TypeOK
  <2> SUFFICES ASSUME Init PROVE TypeOK
    OBVIOUS
  <2>1. /\ pc = "idle" /\ id = "none" /\ query = "whole" /\ act = Nothing /\ reply = "none"
        /\ open = 0 /\ failed = 0 /\ round = 0
    BY DEF Init
  <2>2. wild \in BOOLEAN
    BY Zenon DEF Init
  <2>3. "none" \in NoId /\ Nothing.kind = "none"
    BY DEF NoId, Nothing
  <2>4. 0 \in 0..MaxRounds /\ 0 \in 0..0
    BY BoundsAssumption
  <2>5. account \in Seq(Domains) /\ domain.id \in Domains \cup {"none"}
    BY InitInv DEF Inv, PrefixInv
  <2> QED BY <2>1, <2>2, <2>3, <2>4, <2>5 DEF TypeOK
<1>2. Inv /\ TypeOK /\ [Next]_vars => TypeOK'
  BY TypeNext
<1> QED BY <1>1, <1>2, Invariant, PTL DEF Spec

\* A plugin reads only tokens that jsmn_parse() has written, but for a closing
\* bracket too many and for porkbun.c, which looks one token behind the array
\* (get_result_value(), json_extract() and check_success_only()).
THEOREM TokensWrittenAlways == Spec => TokensWritten
<1> DEFINE A == wild' # wild => query' = "stray" \/ reply' = "stray" \/ Plugin("porkbun.com")
<1>1. Inv /\ TypeOK /\ [Next]_vars => [A]_vars
  <2> SUFFICES ASSUME Inv, TypeOK, Next PROVE A
    OBVIOUS
  <2>1. CASE Query
    BY <2>1, QueryReadsRight DEF TypeOK, QueryKinds, ReadsRight
  <2>2. CASE StartUpdate \/ Apply \/ Refuse \/ UpdateFails
    BY <2>2 DEF StartUpdate, Apply, Refuse, UpdateFails
  <2>3. CASE AnswerWords
    BY <2>3, AnswerWordsReads
  <2>4. CASE AnswerJson
    BY <2>4, AnswerJsonReads DEF TypeOK
  <2> QED BY <2>1, <2>2, <2>3, <2>4 DEF Next
<1> QED BY <1>1, Invariant, TypeCorrect, PTL DEF Spec, TokensWritten

\* When send_update() returns 0 the provider has applied the update: but for the
\* plugins that do not read the body, an answer cut in its header, the result
\* numbers of dnsexit.com, and the refusals of Loopia and FreeDNS that hold a word
\* of success (the response() of every plugin).
THEOREM AcceptedMeansDoneAlways == Spec => []AcceptedMeansDone
<1>1. Init => AcceptedMeansDone
  BY DEF Init, AcceptedMeansDone
<1>2. Inv /\ TypeOK /\ AcceptedMeansDone /\ [Next]_vars => AcceptedMeansDone'
  <2> SUFFICES ASSUME Inv, TypeOK, AcceptedMeansDone, [Next]_vars PROVE AcceptedMeansDone'
    OBVIOUS
  <2>1. CASE StartUpdate \/ Apply \/ Refuse
    <3>1. pc' # "done"
      BY <2>1 DEF StartUpdate, FirstStep, Apply, Refuse
    <3> QED BY <3>1 DEF AcceptedMeansDone
  <2>2. CASE Query
    BY <2>2, SetupNotOk DEF AcceptedMeansDone
  <2>3. CASE UpdateFails
    BY <2>3 DEF UpdateFails, UpdateReturns, AcceptedMeansDone
  <2>4. CASE AnswerWords
    <3>1. obj' = obj /\ act' = act
      BY <2>4, AnswerWordsReads
    <3>2. /\ Applied' <=> Applied
          /\ ReadsBody' <=> ReadsBody
          /\ Plugin("dnsexit.com")' <=> Plugin("dnsexit.com")
      BY <3>1 DEF Applied, ReadsBody, This, Plugin
    <3> QED BY <2>4, <3>2, AnswerWordsReads DEF AcceptedMeansDone
  <2>5. CASE AnswerJson
    <3>1. act' = act /\ (rc' = "OK" => Applied)
      BY <2>5, AnswerJsonReads DEF TypeOK
    <3> QED BY <3>1 DEF AcceptedMeansDone, Applied
  <2>6. CASE UNCHANGED vars
    <3>1. obj' = obj /\ act' = act /\ pc' = pc /\ rc' = rc /\ reply' = reply
      BY <2>6 DEF vars
    <3>2. /\ Applied' <=> Applied
          /\ ReadsBody' <=> ReadsBody
          /\ Plugin("dnsexit.com")' <=> Plugin("dnsexit.com")
      BY <3>1 DEF Applied, ReadsBody, This, Plugin
    <3> QED BY <3>1, <3>2 DEF AcceptedMeansDone
  <2> QED BY <2>1, <2>2, <2>3, <2>4, <2>5, <2>6 DEF Next
<1> QED BY <1>1, <1>2, Invariant, TypeCorrect, PTL DEF Spec

\* An applied update whose answer arrives whole is taken for a success, but for
\* mydns.jp (the response() of every plugin).
THEOREM DoneMeansAcceptedAlways == Spec => []DoneMeansAccepted
<1>1. Init => DoneMeansAccepted
  BY DEF Init, DoneMeansAccepted
<1>2. Inv /\ TypeOK /\ DoneMeansAccepted /\ [Next]_vars => DoneMeansAccepted'
  <2> SUFFICES ASSUME Inv, TypeOK, DoneMeansAccepted, [Next]_vars PROVE DoneMeansAccepted'
    OBVIOUS
  <2>1. CASE StartUpdate \/ Apply \/ Refuse
    <3>1. pc' # "done"
      BY <2>1 DEF StartUpdate, FirstStep, Apply, Refuse
    <3> QED BY <3>1 DEF DoneMeansAccepted
  <2>2. CASE Query
    <3>1. pc \in {"zone", "record"} /\ act' = act
      BY <2>2 DEF Query, QueryFails, QueryRefused, QueryZone, QueryById, QueryByName, QueryAnyRecord, QueryYandex,
                  QueryDomains, QueryCloudxns, QueryDnspod, QueryFreedns
    <3>2. act' = Nothing
      BY <3>1, PhaseFacts
    <3> QED BY <3>2 DEF DoneMeansAccepted, Applied, Nothing
  <2>3. CASE UpdateFails
    BY <2>3 DEF UpdateFails, UpdateReturns, DoneMeansAccepted
  <2>4. CASE AnswerWords
    <3>1. obj' = obj /\ act' = act /\ (reply' = "whole" /\ Applied => rc' = "OK" \/ Plugin("mydns.jp"))
      BY <2>4, AnswerWordsReads
    <3> QED BY <3>1 DEF DoneMeansAccepted, Applied, Plugin
  <2>5. CASE AnswerJson
    <3>1. act' = act /\ (reply' = "whole" /\ Applied => rc' = "OK")
      BY <2>5, AnswerJsonReads DEF TypeOK
    <3> QED BY <3>1 DEF DoneMeansAccepted, Applied
  <2>6. CASE UNCHANGED vars
    BY <2>6 DEF vars, DoneMeansAccepted, Applied, Plugin
  <2> QED BY <2>1, <2>2, <2>3, <2>4, <2>5, <2>6 DEF Next
<1> QED BY <1>1, <1>2, Invariant, TypeCorrect, PTL DEF Spec

=============================================================================
