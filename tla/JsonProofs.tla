----------------------------- MODULE JsonProofs -----------------------------
(***************************************************************************)
(* What jsmn_parse() makes of a text of any length: the tokens are the     *)
(* strings, primitives and containers of the text in their order, and a    *)
(* text that is well nested, or any beginning of it, leaves no token       *)
(* unwritten.                                                              *)
(***************************************************************************)
EXTENDS Json, TLAPS, FiniteSetTheorems, WellFoundedInduction

-----------------------------------------------------------------------------
(* Numbers, induction and recursion *)

\* A set of numbers has a smallest element.
LEMMA MinOfNats ==
  ASSUME NEW T \in SUBSET Nat, T # {}
  PROVE  Min(T) \in T /\ \A x \in T : Min(T) <= x
<1> DEFINE less == {p \in Nat \X Nat : p[1] < p[2]}
<1>1. IsWellFoundedOn(less, Nat)
  BY NatLessThanWellFounded DEF OpToRel
<1> HIDE DEF less
<1>2. PICK m \in T : \A y \in T : ~(<<y, m>> \in less)
  BY <1>1, WFMin
<1>3. ASSUME NEW y \in T PROVE m <= y
  <2>1. y \in Nat /\ m \in Nat
    OBVIOUS
  <2>2. y < m => <<y, m>> \in less
    BY <2>1 DEF less
  <2> QED BY <1>2, <2>1, <2>2
<1>4. \E x \in T : \A y \in T : x =< y
  BY <1>3
<1> QED BY <1>4 DEF Min

\* Induction up to a bound, for a set of numbers.
LEMMA Upto ==
  ASSUME NEW N \in Nat, NEW I, 0 \in I, \A n \in 0..(N - 1) : n \in I => n + 1 \in I
  PROVE  \A n \in 0..N : n \in I
<1> SUFFICES ASSUME NEW k \in 0..N, k \notin I PROVE FALSE
  OBVIOUS
<1> DEFINE B == {n \in 0..N : n \notin I}
<1>1. B \in SUBSET Nat /\ B # {}
  OBVIOUS
<1>2. PICK m \in B : \A x \in B : m <= x
  BY <1>1, MinOfNats
<1>3. m # 0 /\ m - 1 \in 0..(N - 1)
  BY <1>2
<1>4. m - 1 \in I
  BY <1>2, <1>3
<1> QED BY <1>2, <1>3, <1>4

\* The largest element of a set of positions.
LEMMA MaxOfPositions ==
  ASSUME NEW n \in Nat, NEW T \in SUBSET (1..n), T # {}
  PROVE  Max(T) \in T /\ \A x \in T : x <= Max(T)
<1> DEFINE U == {n - x : x \in T}
<1>1. U \in SUBSET Nat /\ U # {}
  OBVIOUS
<1>2. PICK u \in U : \A y \in U : u <= y
  BY <1>1, MinOfNats
<1>3. PICK m \in T : u = n - m
  OBVIOUS
<1>4. \A x \in T : m >= x
  BY <1>2, <1>3
<1>5. \E x \in T : \A y \in T : x >= y
  BY <1>4
<1> QED BY <1>5 DEF Max

\* The largest element is the one that no other exceeds.
LEMMA MaxIs ==
  ASSUME NEW T \in SUBSET Nat, NEW m \in T, \A x \in T : x <= m
  PROVE  Max(T) = m
<1>1. \E x \in T : \A y \in T : x >= y
  OBVIOUS
<1>2. Max(T) \in T /\ \A y \in T : Max(T) >= y
  BY <1>1 DEF Max
<1>3. Max(T) \in Nat /\ m \in Nat
  BY <1>2
<1>4. Max(T) <= m /\ Max(T) >= m
  BY <1>2
<1> QED BY <1>3, <1>4

\* A function that is defined by recursion on its argument exists, when each
\* step stays in a set S.
Iterates(g, S, N, b, step) ==
  g \in [0..N -> S] /\ g[0] = b /\ \A n \in 1..N : g[n] = step[<<g[n - 1], n>>]

\* A loop over N turns has a run: the recursive function exists for any step.
LEMMA Recursion ==
  ASSUME NEW S, NEW N \in Nat, NEW b \in S, NEW step \in [S \X (1..N) -> S]
  PROVE  \E g : Iterates(g, S, N, b, step)
<1> DEFINE Good(g, m) == g[0] = b /\ \A n \in 1..m : g[n] = step[<<g[n - 1], n>>]
           I == {m \in 0..N : \E g \in [0..m -> S] : Good(g, m)}
<1>1. 0 \in I
  <2> DEFINE g == [n \in 0..0 |-> b]
  <2>1. g \in [0..0 -> S] /\ g[0] = b
    OBVIOUS
  <2>2. \A n \in 1..0 : g[n] = step[<<g[n - 1], n>>]
    OBVIOUS
  <2>3. Good(g, 0)
    BY <2>1, <2>2
  <2> HIDE DEF g, Good
  <2> QED BY <2>1, <2>3
<1>2. ASSUME NEW m \in 0..(N - 1), m \in I PROVE m + 1 \in I
  <2>1. PICK g \in [0..m -> S] : Good(g, m)
    BY <1>2
  <2> DEFINE h == [n \in 0..(m + 1) |-> IF n = m + 1 THEN step[<<g[m], m + 1>>] ELSE g[n]]
  <2>2. step[<<g[m], m + 1>>] \in S
    OBVIOUS
  <2>3. h \in [0..(m + 1) -> S]
    BY <2>2
  <2>4. h[0] = b
    BY <2>1
  <2>5. ASSUME NEW n \in 1..(m + 1) PROVE h[n] = step[<<h[n - 1], n>>]
    <3>1. h[n - 1] = g[n - 1]
      <4>1. n - 1 \in 0..(m + 1) /\ n - 1 # m + 1
        OBVIOUS
      <4> QED BY <4>1
    <3>2. CASE n = m + 1
      <4>1. h[m + 1] = step[<<g[m], m + 1>>]
        OBVIOUS
      <4>2. n - 1 = m
        BY <3>2
      <4> HIDE DEF h
      <4> QED BY <3>1, <3>2, <4>1, <4>2
    <3>3. CASE n \in 1..m
      <4>1. h[n] = g[n]
        BY <3>3
      <4> QED BY <2>1, <3>1, <3>3, <4>1
    <3> QED BY <3>2, <3>3
  <2>6. Good(h, m + 1)
    BY <2>4, <2>5
  <2> HIDE DEF h, Good
  <2>7. \E f \in [0..(m + 1) -> S] : Good(f, m + 1)
    BY <2>3, <2>6
  <2>8. m + 1 \in 0..N
    OBVIOUS
  <2> QED BY <2>7, <2>8, Zenon
<1> HIDE DEF Good
<1> HIDE DEF I
<1>3. N \in 0..N /\ \A n \in 0..N : n \in I
  BY <1>1, <1>2, Upto
<1>4. PICK g \in [0..N -> S] : Good(g, N)
  BY <1>3 DEF I
<1>5. Iterates(g, S, N, b, step)
  BY <1>4 DEF Good, Iterates
<1> QED BY <1>5

-----------------------------------------------------------------------------
(* The parser's state, and what each turn does to it *)

Lexemes(V) ==
  {LBrace, RBrace, LBracket, RBracket, Colon, CommaLex, Cut, Bad}
  \cup {Str(v) : v \in V} \cup {Prim(v) : v \in V}
TokenTypes == {"object", "array", "string", "primitive", "uninit"}
TokenSet(V) == [type : TokenTypes, v : V, open : BOOLEAN, size : Nat]
Codes == {"OK", "INVAL", "PART"}
ParserSet(V) == {p \in [toks : Seq(TokenSet(V)), super : Nat, rc : Codes] : p.super <= Len(p.toks)}

\* The tokens of p are those of q, but for their size and for being closed.
Continues(q, p) ==
  /\ Len(p.toks) <= Len(q.toks)
  /\ \A i \in 1..Len(p.toks) : q.toks[i].type = p.toks[i].type /\ q.toks[i].v = p.toks[i].v
StaysOpen(q, p) ==
  \A i \in 1..Len(p.toks) : q.toks[i].open = p.toks[i].open

\* The innermost open container.
Inner(p) == IF OpenTokens(p) = {} THEN 0 ELSE Max(OpenTokens(p))

\* A parser is a record of three parts.
Parser(toks, super, rc) == [toks |-> toks, super |-> super, rc |-> rc]

\* The fields of a parser and their types.
LEMMA ParserParts ==
  ASSUME NEW V, NEW p \in ParserSet(V)
  PROVE  /\ p = Parser(p.toks, p.super, p.rc)
         /\ p.toks \in Seq(TokenSet(V)) /\ p.super \in 0..Len(p.toks) /\ p.rc \in Codes
         /\ Len(p.toks) \in Nat /\ DOMAIN p.toks = 1..Len(p.toks)
<1>1. p \in [toks : Seq(TokenSet(V)), super : Nat, rc : Codes] /\ p.super <= Len(p.toks)
  BY DEF ParserSet
<1>2. p = Parser(p.toks, p.super, p.rc) /\ p.toks \in Seq(TokenSet(V)) /\ p.super \in Nat /\ p.rc \in Codes
  BY <1>1 DEF Parser
<1>3. Len(p.toks) \in Nat /\ DOMAIN p.toks = 1..Len(p.toks)
  BY <1>2
<1> QED BY <1>1, <1>2, <1>3

\* A parser is its three fields.
LEMMA ParserMade ==
  ASSUME NEW V, NEW toks \in Seq(TokenSet(V)), NEW super \in 0..Len(toks), NEW rc \in Codes
  PROVE  /\ Parser(toks, super, rc) \in ParserSet(V)
         /\ Parser(toks, super, rc).toks = toks
         /\ Parser(toks, super, rc).super = super
         /\ Parser(toks, super, rc).rc = rc
<1>1. Parser(toks, super, rc) \in [toks : Seq(TokenSet(V)), super : Nat, rc : Codes]
  BY DEF Parser
<1>2. /\ Parser(toks, super, rc).toks = toks
      /\ Parser(toks, super, rc).super = super
      /\ Parser(toks, super, rc).rc = rc
  BY DEF Parser
<1> QED BY <1>1, <1>2 DEF ParserSet

\* jsmn_init(): no token, nothing open.
LEMMA StartType == \A V : Start \in ParserSet(V) /\ OpenTokens(Start) = {} /\ Inner(Start) = 0
BY DEF Start, ParserSet, Codes, OpenTokens, Inner

\* jsmn_fill_token(): what a written token holds.
LEMMA TokenFacts ==
  ASSUME NEW V, NEW v \in V, NEW type \in {"object", "array", "string", "primitive"}
  PROVE  /\ Token(type, v) \in TokenSet(V) /\ Token(type, v).type = type /\ Token(type, v).v = v
         /\ Token(type, v).open <=> type \in {"object", "array"}
         /\ Token(type, v).size = 0
<1>1. CASE type \in {"object", "array"}
  <2>1. Token(type, v) = [type |-> type, v |-> v, open |-> TRUE, size |-> 0]
    BY <1>1 DEF Token
  <2> QED BY <1>1, <2>1 DEF TokenSet, TokenTypes
<1>2. CASE type \in {"string", "primitive"}
  <2>1. Token(type, v) = [type |-> type, v |-> v, open |-> FALSE, size |-> 0]
    <3>1. (type \in {"object", "array"}) = FALSE
      BY <1>2
    <3> QED BY <3>1, Zenon DEF Token
  <2> QED BY <1>2, <2>1 DEF TokenSet, TokenTypes
<1> QED BY <1>1, <1>2

\* What an unwritten token holds.
LEMMA UninitFacts ==
  ASSUME NEW V, "nil" \in V
  PROVE  Uninit \in TokenSet(V) /\ Uninit.type = "uninit" /\ Uninit.open = FALSE
<1>1. Uninit \in TokenSet(V)
  BY DEF Uninit, TokenSet, TokenTypes
<1>2. Uninit.type = "uninit" /\ Uninit.open = FALSE
  BY DEF Uninit
<1> QED BY <1>1, <1>2

\* The innermost open container is the last of the open tokens.
LEMMA InnerFacts ==
  ASSUME NEW V, NEW p \in ParserSet(V)
  PROVE  /\ OpenTokens(p) \in SUBSET (1..Len(p.toks))
         /\ Inner(p) \in 0..Len(p.toks)
         /\ OpenTokens(p) # {} => Inner(p) = Max(OpenTokens(p)) /\ Inner(p) \in OpenTokens(p)
         /\ \A i \in OpenTokens(p) : i <= Inner(p)
<1>1. Len(p.toks) \in Nat /\ OpenTokens(p) \in SUBSET (1..Len(p.toks))
  BY DEF ParserSet, OpenTokens
<1>2. CASE OpenTokens(p) = {}
  BY <1>1, <1>2 DEF Inner
<1>3. CASE OpenTokens(p) # {}
  <2>1. Max(OpenTokens(p)) \in OpenTokens(p) /\ \A i \in OpenTokens(p) : i <= Max(OpenTokens(p))
    BY <1>1, <1>3, MaxOfPositions, Zenon
  <2>2. Inner(p) = Max(OpenTokens(p))
    BY <1>3 DEF Inner
  <2> QED BY <1>1, <1>3, <2>1, <2>2
<1> QED BY <1>1, <1>2, <1>3

\* An error code changes nothing else of the parser.
LEMMA FailFacts ==
  ASSUME NEW V, NEW p \in ParserSet(V), NEW rc \in Codes
  PROVE  /\ Fail(p, rc) \in ParserSet(V) /\ Fail(p, rc).rc = rc
         /\ Fail(p, rc).toks = p.toks /\ Fail(p, rc).super = p.super
BY DEF Fail, ParserSet

\* A new token is the last; of the others only the size of the superior changes.
LEMMA AllocFacts ==
  ASSUME NEW V, NEW p \in ParserSet(V), NEW tok \in TokenSet(V)
  PROVE  LET q == Alloc(p, tok) IN
         /\ q \in ParserSet(V) /\ q.super = p.super /\ q.rc = p.rc
         /\ Len(q.toks) = Len(p.toks) + 1 /\ q.toks[Len(p.toks) + 1] = tok
         /\ Continues(q, p) /\ StaysOpen(q, p)
         /\ \A i \in 1..Len(p.toks) : i # p.super => q.toks[i].size = p.toks[i].size
<1> DEFINE grown == IF p.super = 0 THEN p.toks ELSE [p.toks EXCEPT ![p.super].size = @ + 1]
           q == Alloc(p, tok)
<1>1. p.toks \in Seq(TokenSet(V)) /\ p.super \in 0..Len(p.toks) /\ Len(p.toks) \in Nat
  BY DEF ParserSet
<1>2. /\ grown \in Seq(TokenSet(V)) /\ Len(grown) = Len(p.toks)
      /\ \A i \in 1..Len(p.toks) :
           /\ grown[i].type = p.toks[i].type /\ grown[i].v = p.toks[i].v
           /\ grown[i].open = p.toks[i].open
           /\ i # p.super => grown[i].size = p.toks[i].size
  <2>1. CASE p.super = 0
    BY <1>1, <2>1
  <2>2. CASE p.super \in 1..Len(p.toks)
    <3>1. p.toks[p.super] \in TokenSet(V)
      BY <1>1, <2>2
    <3>2. [p.toks[p.super] EXCEPT !.size = @ + 1] \in TokenSet(V)
      BY <3>1 DEF TokenSet
    <3>3. grown = [p.toks EXCEPT ![p.super] = [p.toks[p.super] EXCEPT !.size = @ + 1]]
      BY <2>2
    <3> HIDE DEF grown
    <3>4. grown \in Seq(TokenSet(V)) /\ Len(grown) = Len(p.toks)
      BY <1>1, <2>2, <3>2, <3>3
    <3>5. ASSUME NEW i \in 1..Len(p.toks)
          PROVE  /\ grown[i].type = p.toks[i].type /\ grown[i].v = p.toks[i].v
                 /\ grown[i].open = p.toks[i].open
                 /\ i # p.super => grown[i].size = p.toks[i].size
      <4>1. grown[i] = IF i = p.super THEN [p.toks[p.super] EXCEPT !.size = @ + 1] ELSE p.toks[i]
        BY <1>1, <2>2, <3>3
      <4> QED BY <3>1, <4>1 DEF TokenSet
    <3> QED BY <3>4, <3>5
  <2> QED BY <1>1, <2>1, <2>2
<1>3. q = [p EXCEPT !.toks = Append(grown, tok)]
  BY DEF Alloc
<1> HIDE DEF grown, q
<1>4. q.toks = Append(grown, tok) /\ q.super = p.super /\ q.rc = p.rc
  BY <1>3 DEF ParserSet
<1>5. q \in ParserSet(V)
  <2>1. Append(grown, tok) \in Seq(TokenSet(V)) /\ Len(Append(grown, tok)) = Len(p.toks) + 1
    BY <1>1, <1>2
  <2>2. q \in [toks : Seq(TokenSet(V)), super : Nat, rc : Codes]
    BY <1>3, <2>1 DEF ParserSet
  <2> QED BY <1>1, <1>4, <2>1, <2>2 DEF ParserSet
<1>6. /\ Len(q.toks) = Len(p.toks) + 1 /\ q.toks[Len(p.toks) + 1] = tok
      /\ \A i \in 1..Len(p.toks) : q.toks[i] = grown[i]
  BY <1>1, <1>2, <1>4
<1> QED BY <1>1, <1>2, <1>4, <1>5, <1>6 DEF q, Continues, StaysOpen

\* A container that is opened becomes the superior token and the innermost one.
LEMMA OpenFacts ==
  ASSUME NEW V, "nil" \in V, NEW p \in ParserSet(V), NEW type \in {"object", "array"}
  PROVE  LET q == OpenContainer(p, type) IN
         /\ q \in ParserSet(V) /\ Continues(q, p) /\ Len(q.toks) = Len(p.toks) + 1
         /\ SuperIs(p, {"object"}) => q.rc = "INVAL" /\ q.toks[Len(q.toks)] = Uninit
         /\ ~SuperIs(p, {"object"}) =>
              /\ q.rc = p.rc /\ q.toks[Len(q.toks)] = Token(type, "nil") /\ StaysOpen(q, p)
              /\ q.super = Len(q.toks) /\ Inner(q) = Len(q.toks)
              /\ OpenTokens(q) = OpenTokens(p) \cup {Len(q.toks)}
<1> DEFINE q == OpenContainer(p, type)
           n == Len(p.toks)
<1>0. p = Parser(p.toks, p.super, p.rc) /\ p.toks \in Seq(TokenSet(V)) /\ n \in Nat /\ p.super \in 0..n
      /\ p.rc \in Codes /\ DOMAIN p.toks = 1..n
  BY ParserParts
<1>1. CASE SuperIs(p, {"object"})
  <2> DEFINE t == Append(p.toks, Uninit)
  <2>1. q = Parser(t, p.super, "INVAL")
    BY <1>0, <1>1 DEF OpenContainer, Fail, Parser
  <2>2. Uninit \in TokenSet(V)
    BY UninitFacts
  <2>3. t \in Seq(TokenSet(V)) /\ Len(t) = n + 1 /\ t[n + 1] = Uninit /\ \A i \in 1..n : t[i] = p.toks[i]
    BY <1>0, <2>2
  <2> HIDE DEF t, q, n
  <2>4. "INVAL" \in Codes /\ p.super \in 0..Len(t)
    BY <1>0, <2>3 DEF Codes
  <2>5. q \in ParserSet(V) /\ q.toks = t /\ q.rc = "INVAL"
    BY <2>1, <2>3, <2>4, ParserMade
  <2>6. Continues(q, p)
    BY <1>0, <2>3, <2>5 DEF Continues, n
  <2> QED BY <1>1, <2>3, <2>5, <2>6 DEF q, n
<1>2. CASE ~SuperIs(p, {"object"})
  <2> DEFINE tok == Token(type, "nil")
             a == Alloc(p, tok)
  <2>1. tok \in TokenSet(V) /\ tok.open
    BY TokenFacts
  <2> HIDE DEF tok
  <2>2. /\ a \in ParserSet(V) /\ a.super = p.super /\ a.rc = p.rc
        /\ Len(a.toks) = n + 1 /\ a.toks[n + 1] = tok
        /\ Continues(a, p) /\ StaysOpen(a, p)
    BY <2>1, AllocFacts
  <2>3. a = Parser(a.toks, a.super, a.rc) /\ a.toks \in Seq(TokenSet(V)) /\ DOMAIN a.toks = 1..(n + 1)
    BY <2>2, ParserParts
  <2>4. q = Parser(a.toks, n + 1, p.rc)
    <3>1. q = [a EXCEPT !.super = n + 1]
      BY <1>2 DEF OpenContainer, tok
    <3> HIDE DEF q, a, n
    <3> QED BY <2>2, <2>3, <3>1 DEF Parser
  <2> HIDE DEF a, q, n
  <2>5. q \in ParserSet(V) /\ q.toks = a.toks /\ q.super = n + 1 /\ q.rc = p.rc
    <3>1. n + 1 \in 0..Len(a.toks)
      BY <1>0, <2>2
    <3> QED BY <1>0, <2>3, <2>4, <3>1, ParserMade
  <2>6. Continues(q, p) /\ StaysOpen(q, p)
    BY <2>2, <2>5 DEF Continues, StaysOpen
  <2>7. OpenTokens(q) = OpenTokens(p) \cup {n + 1}
    <3>1. \A i \in 1..n : q.toks[i].open = p.toks[i].open
      BY <2>6 DEF StaysOpen, n
    <3>2. q.toks[n + 1].open /\ DOMAIN q.toks = 1..(n + 1)
      BY <2>1, <2>2, <2>3, <2>5
    <3> QED BY <1>0, <3>1, <3>2 DEF OpenTokens
  <2>8. Inner(q) = n + 1
    <3>1. OpenTokens(p) \in SUBSET (1..n)
      BY InnerFacts DEF n
    <3>2. OpenTokens(q) \in SUBSET Nat
      BY <1>0, <2>7, <3>1
    <3>3. n + 1 \in OpenTokens(q)
      BY <2>7
    <3>4. \A i \in OpenTokens(q) : i <= n + 1
      BY <1>0, <2>7, <3>1
    <3>5. Max(OpenTokens(q)) = n + 1
      BY <3>2, <3>3, <3>4, MaxIs, Zenon
    <3> QED BY <3>3, <3>5 DEF Inner
  <2> QED BY <1>0, <1>2, <2>2, <2>5, <2>6, <2>7, <2>8 DEF q, n, tok
<1> QED BY <1>1, <1>2

\* A closer closes the innermost container, if that has the type.
LEMMA CloseFacts ==
  ASSUME NEW V, NEW p \in ParserSet(V), NEW type
  PROVE  LET q == CloseContainer(p, type) IN
         /\ q \in ParserSet(V) /\ Continues(q, p) /\ Len(q.toks) = Len(p.toks)
         /\ OpenTokens(p) = {} \/ p.toks[Inner(p)].type # type => q.rc = "INVAL"
         /\ OpenTokens(p) # {} /\ p.toks[Inner(p)].type = type =>
              /\ q.rc = p.rc /\ q.super = Inner(q)
              /\ OpenTokens(q) = OpenTokens(p) \ {Inner(p)}
<1> DEFINE q == CloseContainer(p, type)
           k == Inner(p)
           n == Len(p.toks)
           rest == OpenTokens(p) \ {k}
<1>0. p = Parser(p.toks, p.super, p.rc) /\ p.toks \in Seq(TokenSet(V)) /\ n \in Nat /\ p.super \in 0..n
      /\ p.rc \in Codes /\ DOMAIN p.toks = 1..n
  BY ParserParts
<1>a. OpenTokens(p) # {} => k = Max(OpenTokens(p)) /\ k \in 1..n
  BY InnerFacts
<1>1. CASE OpenTokens(p) = {} \/ p.toks[k].type # type
  <2>1. q = Fail(p, "INVAL")
    BY <1>1, <1>a DEF CloseContainer
  <2>2. q \in ParserSet(V) /\ q.rc = "INVAL" /\ q.toks = p.toks
    BY <2>1, FailFacts DEF Codes
  <2> HIDE DEF q, k, n
  <2> QED BY <1>0, <1>1, <2>2 DEF Continues, q, k, n
<1>2. CASE OpenTokens(p) # {} /\ p.toks[k].type = type
  <2> DEFINE tok == [p.toks[k] EXCEPT !.open = FALSE]
             t == [p.toks EXCEPT ![k] = tok]
             sup  == IF rest = {} THEN 0 ELSE Max(rest)
  <2>1. q = Parser(t, sup, p.rc)
    <3>1. q = [p EXCEPT !.toks = t, !.super = sup]
      BY <1>2, <1>a DEF CloseContainer
    <3> HIDE DEF q, t, sup, k, n
    <3> QED BY <1>0, <3>1 DEF Parser
  <2>2. k \in 1..n
    BY <1>2, <1>a
  <2>3. p.toks[k] \in TokenSet(V)
    BY <1>0, <2>2
  <2>4. tok \in TokenSet(V) /\ tok.type = p.toks[k].type /\ tok.v = p.toks[k].v /\ tok.open = FALSE
    BY <2>3 DEF TokenSet
  <2> HIDE DEF tok
  <2>5. t \in Seq(TokenSet(V)) /\ Len(t) = n /\ t[k] = tok /\ \A i \in 1..n : i # k => t[i] = p.toks[i]
    BY <1>0, <2>2, <2>4
  <2>6. rest \in SUBSET (1..n) /\ sup \in 0..n
    <3>1. rest \in SUBSET (1..n)
      BY InnerFacts
    <3>2. rest # {} => Max(rest) \in rest
      BY <1>0, <3>1, MaxOfPositions, Zenon
    <3> QED BY <1>0, <3>1, <3>2
  <2> HIDE DEF t, q, k, n
  <2>7. q \in ParserSet(V) /\ q.toks = t /\ q.super = sup /\ q.rc = p.rc
    <3> HIDE DEF sup
    <3> QED BY <1>0, <2>1, <2>5, <2>6, ParserMade
  <2>8. Continues(q, p)
    <3>1. ASSUME NEW i \in 1..n PROVE t[i].type = p.toks[i].type /\ t[i].v = p.toks[i].v
      BY <2>4, <2>5
    <3> QED BY <1>0, <2>5, <2>7, <3>1 DEF Continues, n
  <2>9. OpenTokens(q) = rest
    <3>1. DOMAIN q.toks = 1..n
      BY <2>5, <2>7
    <3>2. ~q.toks[k].open /\ \A i \in 1..n : i # k => q.toks[i].open = p.toks[i].open
      BY <2>4, <2>5, <2>7
    <3> QED BY <1>0, <3>1, <3>2 DEF OpenTokens
  <2>10. q.super = Inner(q)
    BY <2>7, <2>9 DEF Inner
  <2> QED BY <1>2, <2>5, <2>7, <2>8, <2>9, <2>10 DEF q, k, n
<1> QED BY <1>1, <1>2

\* A comma leads back to the innermost container.
LEMMA CommaFacts ==
  ASSUME NEW V, NEW p \in ParserSet(V)
  PROVE  LET q == Comma(p) IN
         /\ q \in ParserSet(V) /\ q.toks = p.toks /\ q.rc = p.rc
         /\ q.super = IF p.super = 0 \/ SuperIs(p, {"object", "array"}) \/ OpenTokens(p) = {}
                      THEN p.super ELSE Inner(p)
<1> DEFINE q == Comma(p)
           stay == p.super = 0 \/ SuperIs(p, {"object", "array"}) \/ OpenTokens(p) = {}
<1>0. p = Parser(p.toks, p.super, p.rc) /\ p.toks \in Seq(TokenSet(V)) /\ p.rc \in Codes
  BY ParserParts
<1>1. CASE stay
  BY <1>0, <1>1 DEF Comma
<1>2. CASE ~stay
  <2>1. Inner(p) = Max(OpenTokens(p)) /\ Inner(p) \in 0..Len(p.toks)
    BY <1>2, InnerFacts
  <2>2. q = [p EXCEPT !.super = Inner(p)]
    BY <1>2, <2>1 DEF Comma
  <2>3. q = Parser(p.toks, Inner(p), p.rc)
    <3> HIDE DEF q
    <3> QED BY <1>0, <2>2 DEF Parser
  <2> HIDE DEF q
  <2>4. q \in ParserSet(V) /\ q.toks = p.toks /\ q.super = Inner(p) /\ q.rc = p.rc
    BY <1>0, <2>1, <2>3, ParserMade
  <2> QED BY <1>2, <2>4 DEF q
<1> QED BY <1>1, <1>2

\* A colon makes the last token the superior one.
LEMMA ColonFacts ==
  ASSUME NEW V, NEW p \in ParserSet(V)
  PROVE  LET q == [p EXCEPT !.super = Len(p.toks)] IN
         q \in ParserSet(V) /\ q.toks = p.toks /\ q.rc = p.rc /\ q.super = Len(p.toks)
<1> DEFINE q == [p EXCEPT !.super = Len(p.toks)]
<1>0. p = Parser(p.toks, p.super, p.rc) /\ p.toks \in Seq(TokenSet(V)) /\ p.rc \in Codes
      /\ Len(p.toks) \in Nat
  BY ParserParts
<1>1. q = Parser(p.toks, Len(p.toks), p.rc)
  BY <1>0 DEF Parser
<1>2. Len(p.toks) \in 0..Len(p.toks)
  BY <1>0
<1> HIDE DEF q
<1>3. q \in ParserSet(V) /\ q.toks = p.toks /\ q.rc = p.rc /\ q.super = Len(p.toks)
  BY <1>0, <1>1, <1>2, ParserMade
<1> QED BY <1>3 DEF q

\* A string, and a primitive, add a token that is not open.
Added(V, q, p, tok) ==
  /\ q \in ParserSet(V) /\ q.super = p.super /\ q.rc = p.rc
  /\ Len(q.toks) = Len(p.toks) + 1 /\ q.toks[Len(p.toks) + 1] = tok
  /\ Continues(q, p) /\ StaysOpen(q, p) /\ OpenTokens(q) = OpenTokens(p) /\ Inner(q) = Inner(p)
  /\ \A i \in 1..Len(p.toks) : i # p.super => q.toks[i].size = p.toks[i].size

\* A string or a primitive adds its token and opens nothing.
LEMMA ValueAlloc ==
  ASSUME NEW V, NEW p \in ParserSet(V), NEW v \in V, NEW type \in {"string", "primitive"}
  PROVE  Added(V, Alloc(p, Token(type, v)), p, Token(type, v))
<1> DEFINE tok == Token(type, v)
           q == Alloc(p, tok)
           n == Len(p.toks)
<1>1. tok \in TokenSet(V) /\ ~tok.open
  BY TokenFacts
<1> HIDE DEF tok
<1>2. /\ q \in ParserSet(V) /\ q.super = p.super /\ q.rc = p.rc
      /\ Len(q.toks) = n + 1 /\ q.toks[n + 1] = tok /\ Continues(q, p) /\ StaysOpen(q, p)
      /\ \A i \in 1..Len(p.toks) : i # p.super => q.toks[i].size = p.toks[i].size
  BY <1>1, AllocFacts
<1>3. n \in Nat /\ DOMAIN p.toks = 1..n
  BY ParserParts
<1> HIDE DEF q
<1>4. DOMAIN q.toks = 1..(n + 1)
  BY <1>2, ParserParts
<1> HIDE DEF n
<1>5. OpenTokens(q) = OpenTokens(p)
  <2>1. \A i \in 1..n : q.toks[i].open = p.toks[i].open
    BY <1>2 DEF StaysOpen, n
  <2>2. ~q.toks[n + 1].open
    BY <1>1, <1>2
  <2> QED BY <1>3, <1>4, <2>1, <2>2 DEF OpenTokens
<1>6. Inner(q) = Inner(p)
  BY <1>5 DEF Inner
<1>7. Added(V, q, p, tok)
  BY <1>2, <1>5, <1>6 DEF n, Added
<1> QED BY <1>7 DEF q, tok

\* What a lexeme adds to the tokens.
IsCounted(lex) == lex[1] \in {"lbrace", "lbracket", "str", "prim"}
LexType(lex) ==
  CASE lex[1] = "lbrace"   -> "object"
    [] lex[1] = "lbracket" -> "array"
    [] lex[1] = "str"      -> "string"
    [] lex[1] = "prim"     -> "primitive"
LexValue(lex) == IF lex[1] \in {"str", "prim"} THEN lex[2] ELSE "nil"
Writes(tok, lex) == tok.type = LexType(lex) /\ tok.v = LexValue(lex)

\* What can be said of a turn whatever the lexeme: the tokens grow by one if the
\* lexeme is counted, and the new one is that of the lexeme, if all goes well.
Advances(q, p, lex) ==
  /\ Continues(q, p)
  /\ IsCounted(lex)  => Len(q.toks) <= Len(p.toks) + 1
  /\ ~IsCounted(lex) => Len(q.toks) = Len(p.toks)
  /\ q.rc = "OK" /\ IsCounted(lex) =>
       Len(q.toks) = Len(p.toks) + 1 /\ Writes(q.toks[Len(q.toks)], lex)
  /\ q.rc # "OK" /\ Len(q.toks) = Len(p.toks) + 1 => q.toks[Len(q.toks)] = Uninit /\ q.rc = "INVAL"
  /\ q.rc = "PART" => lex[1] \in {"prim", "cut"}

\* The cases of the switch of jsmn_parse().
LEMMA LexemeKinds ==
  ASSUME NEW V, NEW lex \in Lexemes(V)
  PROVE  \/ lex = LBrace \/ lex = RBrace \/ lex = LBracket \/ lex = RBracket
         \/ lex = Colon \/ lex = CommaLex \/ lex = Cut \/ lex = Bad
         \/ \E v \in V : lex = Str(v)
         \/ \E v \in V : lex = Prim(v)
BY DEF Lexemes

\* The same tokens continue each other.
LEMMA ContinuesSame ==
  ASSUME NEW V, NEW p \in ParserSet(V), NEW q \in ParserSet(V), q.toks = p.toks
  PROVE  Continues(q, p)
BY ParserParts DEF Continues

\* The turn for each kind of lexeme.
LEMMA StepIs ==
  ASSUME NEW p, NEW last
  PROVE  /\ Step(p, LBrace, last)   = OpenContainer(p, "object")
         /\ Step(p, LBracket, last) = OpenContainer(p, "array")
         /\ Step(p, RBrace, last)   = CloseContainer(p, "object")
         /\ Step(p, RBracket, last) = CloseContainer(p, "array")
         /\ Step(p, Colon, last)    = [p EXCEPT !.super = Len(p.toks)]
         /\ Step(p, CommaLex, last) = Comma(p)
         /\ Step(p, Cut, last)      = Fail(p, "PART")
         /\ Step(p, Bad, last)      = Fail(p, "INVAL")
<1>1. Step(p, LBrace, last) = OpenContainer(p, "object") /\ Step(p, LBracket, last) = OpenContainer(p, "array")
  BY DEF Step, LBrace, LBracket
<1>2. Step(p, RBrace, last) = CloseContainer(p, "object") /\ Step(p, RBracket, last) = CloseContainer(p, "array")
  BY DEF Step, RBrace, RBracket
<1>3. Step(p, Colon, last) = [p EXCEPT !.super = Len(p.toks)]
  BY DEF Step, Colon
<1>4. Step(p, CommaLex, last) = Comma(p)
  BY DEF Step, CommaLex
<1>5. Step(p, Cut, last) = Fail(p, "PART") /\ Step(p, Bad, last) = Fail(p, "INVAL")
  BY DEF Step, Cut, Bad
<1> QED BY <1>1, <1>2, <1>3, <1>4, <1>5

\* The turn of the loop for a string and for a primitive.
LEMMA StepValueIs ==
  ASSUME NEW p, NEW last, NEW v
  PROVE  /\ Step(p, Str(v), last)  = Alloc(p, Token("string", v))
         /\ Step(p, Prim(v), last) = Primitive(p, v, last)
<1>1. Step(p, Str(v), last) = Alloc(p, Token("string", v))
  BY DEF Step, Str
<1>2. Step(p, Prim(v), last) = Primitive(p, v, last)
  BY DEF Step, Prim
<1> QED BY <1>1, <1>2

\* The token each lexeme stands for.
LEMMA LexFacts ==
  /\ IsCounted(LBrace) /\ LexType(LBrace) = "object" /\ LexValue(LBrace) = "nil"
  /\ IsCounted(LBracket) /\ LexType(LBracket) = "array" /\ LexValue(LBracket) = "nil"
  /\ \A v : IsCounted(Str(v)) /\ LexType(Str(v)) = "string" /\ LexValue(Str(v)) = v
  /\ \A v : IsCounted(Prim(v)) /\ LexType(Prim(v)) = "primitive" /\ LexValue(Prim(v)) = v
  /\ ~IsCounted(RBrace) /\ ~IsCounted(RBracket) /\ ~IsCounted(Colon) /\ ~IsCounted(CommaLex)
  /\ ~IsCounted(Cut) /\ ~IsCounted(Bad)
<1>1. IsCounted(LBrace) /\ LexType(LBrace) = "object" /\ LexValue(LBrace) = "nil"
  BY DEF IsCounted, LexType, LexValue, LBrace
<1>2. IsCounted(LBracket) /\ LexType(LBracket) = "array" /\ LexValue(LBracket) = "nil"
  BY DEF IsCounted, LexType, LexValue, LBracket
<1>3. \A v : IsCounted(Str(v)) /\ LexType(Str(v)) = "string" /\ LexValue(Str(v)) = v
  BY DEF IsCounted, LexType, LexValue, Str
<1>4. \A v : IsCounted(Prim(v)) /\ LexType(Prim(v)) = "primitive" /\ LexValue(Prim(v)) = v
  BY DEF IsCounted, LexType, LexValue, Prim
<1>5. ~IsCounted(RBrace) /\ ~IsCounted(RBracket) /\ ~IsCounted(Colon) /\ ~IsCounted(CommaLex)
  BY DEF IsCounted, RBrace, RBracket, Colon, CommaLex
<1>6. ~IsCounted(Cut) /\ ~IsCounted(Bad)
  BY DEF IsCounted, Cut, Bad
<1> QED BY <1>1, <1>2, <1>3, <1>4, <1>5, <1>6

\* jsmn_parse_primitive(): when it is refused, cut, or written.
LEMMA PrimitiveFacts ==
  ASSUME NEW V, NEW p \in ParserSet(V), NEW v \in V, NEW last \in BOOLEAN
  PROVE  LET q == Primitive(p, v, last)
             no == SuperIs(p, {"object"}) \/ (SuperIs(p, {"string"}) /\ p.toks[p.super].size # 0)
         IN /\ no => q = Fail(p, "INVAL")
            /\ ~no /\ last => q = Fail(p, "PART")
            /\ ~no /\ ~last => q = Alloc(p, Token("primitive", v))
BY DEF Primitive

\* One turn of the loop keeps what was written and adds at most the token of its lexeme.
LEMMA StepAdvances ==
  ASSUME NEW V, "nil" \in V, NEW p \in ParserSet(V), p.rc = "OK", NEW lex \in Lexemes(V), NEW last \in BOOLEAN
  PROVE  Step(p, lex, last) \in ParserSet(V) /\ Advances(Step(p, lex, last), p, lex)
<1> DEFINE q == Step(p, lex, last)
<1> HIDE DEF q
<1>0. Len(p.toks) \in Nat
  BY ParserParts
<1>1. ASSUME NEW type \in {"object", "array"}, q = OpenContainer(p, type), IsCounted(lex),
             LexType(lex) = type, LexValue(lex) = "nil"
      PROVE  q \in ParserSet(V) /\ Advances(q, p, lex)
  <2>1. Token(type, "nil").type = type /\ Token(type, "nil").v = "nil"
    BY DEF Token
  <2>2. /\ q \in ParserSet(V) /\ Continues(q, p) /\ Len(q.toks) = Len(p.toks) + 1
        /\ SuperIs(p, {"object"}) => q.rc = "INVAL" /\ q.toks[Len(q.toks)] = Uninit
        /\ ~SuperIs(p, {"object"}) => q.rc = p.rc /\ q.toks[Len(q.toks)] = Token(type, "nil")
    BY <1>1, OpenFacts
  <2> QED BY <1>0, <1>1, <2>1, <2>2 DEF Advances, Writes
<1>2. ASSUME NEW type \in {"object", "array"}, q = CloseContainer(p, type), ~IsCounted(lex)
      PROVE  q \in ParserSet(V) /\ Advances(q, p, lex)
  <2>1. /\ q \in ParserSet(V) /\ Continues(q, p) /\ Len(q.toks) = Len(p.toks)
        /\ q.rc \in {"INVAL", p.rc}
    BY <1>2, CloseFacts
  <2> QED BY <1>0, <1>2, <2>1 DEF Advances
<1>3. ASSUME q \in ParserSet(V), q.toks = p.toks,
             \/ q.rc = "OK" /\ ~IsCounted(lex)
             \/ q.rc = "INVAL"
             \/ q.rc = "PART" /\ lex[1] \in {"prim", "cut"}
      PROVE  q \in ParserSet(V) /\ Advances(q, p, lex)
  <2>1. Continues(q, p)
    BY <1>3, ContinuesSame
  <2> QED BY <1>0, <1>3, <2>1 DEF Advances
<1>4. ASSUME NEW v \in V, NEW type \in {"string", "primitive"}, q = Alloc(p, Token(type, v)), IsCounted(lex),
             LexType(lex) = type, LexValue(lex) = v
      PROVE  q \in ParserSet(V) /\ Advances(q, p, lex)
  <2>1. Token(type, v).type = type /\ Token(type, v).v = v
    BY DEF Token
  <2>2. Added(V, q, p, Token(type, v))
    BY <1>4, ValueAlloc
  <2>3. /\ q \in ParserSet(V) /\ Continues(q, p) /\ Len(q.toks) = Len(p.toks) + 1
        /\ q.rc = p.rc /\ q.toks[Len(p.toks) + 1] = Token(type, v)
    BY <2>2 DEF Added
  <2> QED BY <1>0, <1>4, <2>1, <2>3 DEF Advances, Writes
<1> SUFFICES q \in ParserSet(V) /\ Advances(q, p, lex)
  BY DEF q
<1>5. CASE lex = LBrace
  <2>1. q = OpenContainer(p, "object")
    BY <1>5, StepIs DEF q
  <2> QED BY <1>1, <1>5, <2>1, LexFacts
<1>6. CASE lex = LBracket
  <2>1. q = OpenContainer(p, "array")
    BY <1>6, StepIs DEF q
  <2> QED BY <1>1, <1>6, <2>1, LexFacts
<1>7. CASE lex = RBrace
  <2>1. q = CloseContainer(p, "object")
    BY <1>7, StepIs DEF q
  <2> QED BY <1>2, <1>7, <2>1, LexFacts
<1>8. CASE lex = RBracket
  <2>1. q = CloseContainer(p, "array")
    BY <1>8, StepIs DEF q
  <2> QED BY <1>2, <1>8, <2>1, LexFacts
<1>9. CASE lex = Colon
  <2>0. q = [p EXCEPT !.super = Len(p.toks)]
    BY <1>9, StepIs DEF q
  <2>1. q \in ParserSet(V) /\ q.toks = p.toks /\ q.rc = "OK"
    BY <2>0, ColonFacts
  <2> QED BY <1>3, <1>9, <2>1, LexFacts
<1>10. CASE lex = CommaLex
  <2>0. q = Comma(p)
    BY <1>10, StepIs DEF q
  <2>1. q \in ParserSet(V) /\ q.toks = p.toks /\ q.rc = "OK"
    BY <2>0, CommaFacts
  <2> QED BY <1>3, <1>10, <2>1, LexFacts
<1>11. CASE lex \in {Cut, Bad}
  <2>0. (q = Fail(p, "PART") /\ lex = Cut) \/ q = Fail(p, "INVAL")
    BY <1>11, StepIs DEF q
  <2>1. q \in ParserSet(V) /\ q.toks = p.toks /\ ((q.rc = "PART" /\ lex = Cut) \/ q.rc = "INVAL")
    BY <2>0, FailFacts DEF Codes
  <2>2. Cut[1] = "cut"
    BY DEF Cut
  <2> QED BY <1>3, <2>1, <2>2
<1>12. ASSUME NEW v \in V, lex = Str(v) PROVE q \in ParserSet(V) /\ Advances(q, p, lex)
  <2>1. q = Alloc(p, Token("string", v))
    BY <1>12, StepValueIs DEF q
  <2> QED BY <1>4, <1>12, <2>1, LexFacts
<1>13. ASSUME NEW v \in V, lex = Prim(v) PROVE q \in ParserSet(V) /\ Advances(q, p, lex)
  <2>1. lex[1] = "prim"
    BY <1>13 DEF Prim
  <2>2. q = Primitive(p, v, last)
    BY <1>13, StepValueIs DEF q
  <2>3. CASE q = Alloc(p, Token("primitive", v))
    BY <1>4, <1>13, <2>3, LexFacts
  <2>4. CASE q = Fail(p, "INVAL") \/ q = Fail(p, "PART")
    <3>1. q \in ParserSet(V) /\ q.toks = p.toks /\ q.rc \in {"INVAL", "PART"}
      BY <2>4, FailFacts DEF Codes
    <3> QED BY <1>3, <2>1, <3>1
  <2> QED BY <2>2, <2>3, <2>4, PrimitiveFacts
<1> QED BY <1>5, <1>6, <1>7, <1>8, <1>9, <1>10, <1>11, <1>12, <1>13, LexemeKinds

\* A turn behind an error does nothing.
LEMMA TurnType ==
  ASSUME NEW V, "nil" \in V, NEW p \in ParserSet(V), NEW lex \in Lexemes(V), NEW last \in BOOLEAN
  PROVE  /\ Turn(p, lex, last) \in ParserSet(V)
         /\ p.rc = "OK" => Turn(p, lex, last) = Step(p, lex, last) /\ Advances(Turn(p, lex, last), p, lex)
         /\ p.rc # "OK" => Turn(p, lex, last) = p
<1>1. CASE p.rc = "OK"
  BY <1>1, StepAdvances DEF Turn
<1>2. CASE p.rc # "OK"
  BY <1>2 DEF Turn
<1> QED BY <1>1, <1>2

\* The loop over a text: at[n] is the parser behind n lexemes.
Runs(V, text, at) ==
  /\ at \in [0..Len(text) -> ParserSet(V)] /\ at[0] = Start
  /\ \A n \in 1..Len(text) : at[n] = Turn(at[n - 1], text[n], n = Len(text))

\* The loop of jsmn_parse() is defined for every text.
LEMMA LoopRuns ==
  ASSUME NEW V, "nil" \in V, NEW text \in Seq(Lexemes(V))
  PROVE  Runs(V, text, Loop(text))
<1> DEFINE N == Len(text)
           S == ParserSet(V)
           step == [x \in S \X (1..N) |-> Turn(x[1], text[x[2]], x[2] = N)]
           Is(g) == g = [n \in 0..N |-> IF n = 0 THEN Start ELSE Turn(g[n - 1], text[n], n = N)]
<1>1. N \in Nat /\ Start \in S
  BY StartType
<1>2. step \in [S \X (1..N) -> S]
  <2>1. ASSUME NEW x \in S \X (1..N) PROVE Turn(x[1], text[x[2]], x[2] = N) \in S
    <3>1. x[1] \in S /\ text[x[2]] \in Lexemes(V) /\ (x[2] = N) \in BOOLEAN
      OBVIOUS
    <3> HIDE DEF N
    <3> QED BY <3>1, TurnType
  <2> QED BY <2>1
<1> HIDE DEF S
<1>3. PICK g \in [0..N -> S] : g[0] = Start /\ \A n \in 1..N : g[n] = step[<<g[n - 1], n>>]
  <2> HIDE DEF step, N
  <2>1. PICK g : Iterates(g, S, N, Start, step)
    BY <1>1, <1>2, Recursion
  <2> QED BY <2>1 DEF Iterates
<1>4. ASSUME NEW n \in 1..N PROVE g[n] = Turn(g[n - 1], text[n], n = N)
  <2>1. n - 1 \in 0..N /\ g[n - 1] \in S
    BY <1>1
  <2>2. <<g[n - 1], n>> \in S \X (1..N)
    BY <2>1
  <2>3. step[<<g[n - 1], n>>] = Turn(g[n - 1], text[n], n = N)
    BY <2>2
  <2> QED BY <1>3, <2>3
<1>5. Is(g)
  <2> DEFINE h == [n \in 0..N |-> IF n = 0 THEN Start ELSE Turn(g[n - 1], text[n], n = N)]
  <2>1. ASSUME NEW n \in 0..N PROVE g[n] = h[n]
    <3>1. h[n] = IF n = 0 THEN Start ELSE Turn(g[n - 1], text[n], n = N)
      OBVIOUS
    <3> QED BY <1>1, <1>3, <1>4, <3>1
  <2>2. g = [n \in 0..N |-> g[n]] /\ h = [n \in 0..N |-> h[n]]
    BY <1>3
  <2> HIDE DEF N, h
  <2>3. g = h
    BY <2>1, <2>2, Zenon
  <2> QED BY <2>3 DEF h
<1>6. Loop(text) = CHOOSE h : Is(h)
  BY Zenon DEF Loop
<1> HIDE DEF Is
<1>7. Is(Loop(text))
  BY <1>5, <1>6
<1> DEFINE at == Loop(text)
<1>8. at = [n \in 0..N |-> IF n = 0 THEN Start ELSE Turn(at[n - 1], text[n], n = N)]
  BY <1>7 DEF Is
<1> HIDE DEF at
<1>9. at[0] = Start /\ \A n \in 1..N : at[n] = Turn(at[n - 1], text[n], n = N)
  <2> HIDE DEF N
  <2> QED BY <1>1, <1>8
<1>10. \A n \in 0..N : at[n] \in S
  <2> DEFINE I == {n \in 0..N : at[n] \in S}
  <2>1. 0 \in I
    BY <1>1, <1>9
  <2>2. ASSUME NEW n \in 0..(N - 1), n \in I PROVE n + 1 \in I
    <3>1. at[n + 1] = Turn(at[n], text[n + 1], n + 1 = N) /\ text[n + 1] \in Lexemes(V) /\ n + 1 \in 0..N
      BY <1>1, <1>9
    <3>2. Turn(at[n], text[n + 1], n + 1 = N) \in S
      <4>1. (n + 1 = N) \in BOOLEAN /\ at[n] \in S /\ text[n + 1] \in Lexemes(V)
        BY <2>2, <3>1
      <4> HIDE DEF N
      <4> QED BY <4>1, TurnType DEF S
    <3> QED BY <3>1, <3>2
  <2> HIDE DEF I, N
  <2>3. \A n \in 0..N : n \in I
    BY <1>1, <2>1, <2>2, Upto
  <2> QED BY <2>3 DEF I
<1>11. at \in [0..N -> S]
  <2> HIDE DEF N
  <2> QED BY <1>8, <1>10
<1> QED BY <1>9, <1>11 DEF Runs, at, S

-----------------------------------------------------------------------------
(* The tokens are those of the text, in its order *)

\* Continuing is transitive.
LEMMA ContinuesTrans ==
  ASSUME NEW V, NEW p \in ParserSet(V), NEW q \in ParserSet(V), NEW r \in ParserSet(V),
         Continues(q, p), Continues(r, q)
  PROVE  Continues(r, p)
BY ParserParts DEF Continues

\* One turn, as part of the loop.
LEMMA RunsStep ==
  ASSUME NEW V, "nil" \in V, NEW text \in Seq(Lexemes(V)), NEW at, Runs(V, text, at), NEW n \in 1..Len(text)
  PROVE  /\ n - 1 \in 0..Len(text) /\ at[n - 1] \in ParserSet(V) /\ at[n] \in ParserSet(V)
         /\ at[n - 1].rc = "OK" => /\ at[n] = Step(at[n - 1], text[n], n = Len(text))
                                   /\ Advances(at[n], at[n - 1], text[n])
         /\ at[n - 1].rc # "OK" => at[n] = at[n - 1]
<1>1. Len(text) \in Nat /\ text[n] \in Lexemes(V) /\ (n = Len(text)) \in BOOLEAN
  OBVIOUS
<1>2. n - 1 \in 0..Len(text) /\ n \in 0..Len(text)
  BY <1>1
<1>3. at[n - 1] \in ParserSet(V) /\ at[n] \in ParserSet(V) /\ at[n] = Turn(at[n - 1], text[n], n = Len(text))
  BY <1>2 DEF Runs
<1>4. /\ at[n - 1].rc = "OK" => /\ at[n] = Step(at[n - 1], text[n], n = Len(text))
                                /\ Advances(at[n], at[n - 1], text[n])
      /\ at[n - 1].rc # "OK" => at[n] = at[n - 1]
  <2> DEFINE p == at[n - 1]
             lex == text[n]
             last == n = Len(text)
  <2>1. p \in ParserSet(V) /\ lex \in Lexemes(V) /\ last \in BOOLEAN
    BY <1>1, <1>3
  <2> HIDE DEF p, lex, last
  <2>2. /\ p.rc = "OK" => Turn(p, lex, last) = Step(p, lex, last) /\ Advances(Turn(p, lex, last), p, lex)
        /\ p.rc # "OK" => Turn(p, lex, last) = p
    BY <2>1, TurnType
  <2> QED BY <1>3, <2>2 DEF p, lex, last
<1> QED BY <1>2, <1>3, <1>4

\* What happens behind the first m lexemes.
Later(q, p) ==
  /\ Continues(q, p)
  /\ q.rc = "OK" => p.rc = "OK"
  /\ p.rc # "OK" => q = p

\* A later state of the loop has the tokens of an earlier one.
LEMMA RunsLater ==
  ASSUME NEW V, "nil" \in V, NEW text \in Seq(Lexemes(V)), NEW at, Runs(V, text, at),
         NEW m \in 0..Len(text), NEW n \in m..Len(text)
  PROVE  Later(at[n], at[m])
<1> DEFINE N == Len(text)
           I == {k \in 0..N : m <= k => Later(at[k], at[m])}
<1>1. N \in Nat /\ \A k \in 0..N : at[k] \in ParserSet(V)
  BY DEF Runs
<1>2. Later(at[m], at[m])
  BY <1>1, ContinuesSame DEF Later
<1>3. 0 \in I
  <2>1. m <= 0 => m = 0
    BY <1>1
  <2> QED BY <1>1, <1>2, <2>1
<1>4. ASSUME NEW k \in 0..(N - 1), k \in I PROVE k + 1 \in I
  <2>1. k + 1 \in 1..N /\ k + 1 \in 0..N /\ k \in 0..N
    BY <1>1
  <2>2. CASE m = k + 1
    BY <1>2, <2>1, <2>2
  <2>3. CASE m > k + 1
    BY <1>1, <2>1, <2>3
  <2>4. CASE m <= k
    <3>1. Later(at[k], at[m])
      BY <1>4, <2>4
    <3>2. /\ at[k].rc = "OK" => Advances(at[k + 1], at[k], text[k + 1])
          /\ at[k].rc # "OK" => at[k + 1] = at[k]
      <4>1. (k + 1) - 1 = k
        BY <1>1
      <4> QED BY <2>1, <4>1, RunsStep
    <3>3. CASE at[k].rc = "OK"
      <4>1. Continues(at[k + 1], at[k])
        BY <3>2, <3>3 DEF Advances
      <4>2. Continues(at[k + 1], at[m])
        BY <1>1, <2>1, <3>1, <4>1, ContinuesTrans DEF Later
      <4> QED BY <2>1, <3>1, <3>3, <4>2 DEF Later
    <3>4. CASE at[k].rc # "OK"
      BY <2>1, <3>1, <3>2, <3>4
    <3> QED BY <3>3, <3>4
  <2> QED BY <1>1, <2>1, <2>2, <2>3, <2>4
<1> HIDE DEF I, N
<1>5. \A k \in 0..N : k \in I
  BY <1>1, <1>3, <1>4, Upto
<1>6. n \in 0..N /\ m <= n
  BY <1>1 DEF N
<1> QED BY <1>5, <1>6 DEF I

\* Token number k is that of lexeme number i.
Wrote(text, at, k, i) ==
  /\ i \in 1..Len(text) /\ IsCounted(text[i]) /\ at[i].rc = "OK" /\ at[i - 1].rc = "OK"
  /\ Len(at[i].toks) = k /\ Len(at[i - 1].toks) = k - 1
  /\ k \in Nat /\ Writes(at[i].toks[k], text[i])

\* A counted lexeme that was read has a token that holds it to the end.
LEMMA WroteForward ==
  ASSUME NEW V, "nil" \in V, NEW text \in Seq(Lexemes(V)), NEW at, Runs(V, text, at),
         NEW i \in 1..Len(text), IsCounted(text[i]), at[i].rc = "OK"
  PROVE  Wrote(text, at, Len(at[i].toks), i)
<1>1. /\ i - 1 \in 0..Len(text) /\ at[i - 1] \in ParserSet(V) /\ at[i] \in ParserSet(V)
      /\ at[i - 1].rc = "OK" => Advances(at[i], at[i - 1], text[i])
      /\ at[i - 1].rc # "OK" => at[i] = at[i - 1]
  BY RunsStep
<1>2. at[i - 1].rc = "OK"
  BY <1>1
<1>3. Len(at[i].toks) = Len(at[i - 1].toks) + 1 /\ Writes(at[i].toks[Len(at[i].toks)], text[i])
  BY <1>1, <1>2 DEF Advances
<1>4. Len(at[i].toks) \in Nat /\ Len(at[i - 1].toks) \in Nat
  BY <1>1, ParserParts
<1> QED BY <1>2, <1>3, <1>4 DEF Wrote

\* A token that was written stays what it is.
LEMMA WroteStays ==
  ASSUME NEW V, "nil" \in V, NEW text \in Seq(Lexemes(V)), NEW at, Runs(V, text, at),
         NEW k, NEW i, Wrote(text, at, k, i), NEW n \in i..Len(text)
  PROVE  k \in 1..Len(at[n].toks) /\ Writes(at[n].toks[k], text[i])
<1>1. i \in 0..Len(text) /\ n \in 0..Len(text) /\ i - 1 \in 0..Len(text)
  BY DEF Wrote
<1>2. at[n] \in ParserSet(V) /\ at[i] \in ParserSet(V) /\ at[i - 1] \in ParserSet(V)
  BY <1>1 DEF Runs
<1>3. Later(at[n], at[i])
  BY <1>1, RunsLater
<1>4. Len(at[n].toks) \in Nat /\ Len(at[i].toks) \in Nat /\ Len(at[i - 1].toks) \in Nat
  BY <1>2, ParserParts
<1>5. k \in 1..Len(at[i].toks) /\ k \in 1..Len(at[n].toks)
  BY <1>3, <1>4 DEF Wrote, Later, Continues
<1>6. at[n].toks[k].type = at[i].toks[k].type /\ at[n].toks[k].v = at[i].toks[k].v
  BY <1>3, <1>5 DEF Later, Continues
<1> QED BY <1>5, <1>6 DEF Wrote, Writes

\* Every token is that of a lexeme, or is the one that an error left unwritten.
FromText(text, at, n) ==
  \A k \in 1..Len(at[n].toks) :
    \/ at[n].toks[k] = Uninit /\ k = Len(at[n].toks) /\ at[n].rc = "INVAL"
    \/ \E i \in 1..n : Wrote(text, at, k, i)

\* Every token was written by a lexeme of the text.
LEMMA WroteExists ==
  ASSUME NEW V, "nil" \in V, NEW text \in Seq(Lexemes(V)), NEW at, Runs(V, text, at), NEW n \in 0..Len(text)
  PROVE  FromText(text, at, n)
<1> DEFINE N == Len(text)
           I == {m \in 0..N : FromText(text, at, m)}
<1>1. N \in Nat /\ \A k \in 0..N : at[k] \in ParserSet(V)
  BY DEF Runs
<1>2. 0 \in I
  <2>1. Len(at[0].toks) = 0
    BY DEF Runs, Start
  <2> QED BY <1>1, <2>1 DEF FromText
<1>3. ASSUME NEW m \in 0..(N - 1), m \in I PROVE m + 1 \in I
  <2>0. m + 1 \in 1..N /\ m + 1 \in 0..N /\ m \in 0..N /\ (m + 1) - 1 = m
    BY <1>1
  <2>1. /\ at[m].rc = "OK" => Advances(at[m + 1], at[m], text[m + 1])
        /\ at[m].rc # "OK" => at[m + 1] = at[m]
    BY <2>0, RunsStep
  <2>2. at[m] \in ParserSet(V) /\ at[m + 1] \in ParserSet(V)
    BY <1>1, <2>0
  <2>3. Len(at[m].toks) \in Nat /\ Len(at[m + 1].toks) \in Nat
    BY <2>2, ParserParts
  <2>4. FromText(text, at, m)
    BY <1>3
  <2>5. CASE at[m].rc # "OK"
    <3>1. 1..m \subseteq 1..(m + 1)
      BY <2>0
    <3>2. FromText(text, at, m + 1)
      BY <2>1, <2>4, <2>5, <3>1 DEF FromText
    <3> QED BY <2>0, <3>2
  <2>6. CASE at[m].rc = "OK"
    <3>1. Advances(at[m + 1], at[m], text[m + 1])
      BY <2>1, <2>6
    <3>2. ASSUME NEW k \in 1..Len(at[m].toks) PROVE \E i \in 1..(m + 1) : Wrote(text, at, k, i)
      <4>1. PICK i \in 1..m : Wrote(text, at, k, i)
        BY <2>4, <2>6 DEF FromText
      <4>2. i \in 1..(m + 1)
        BY <2>0
      <4> QED BY <4>1, <4>2
    <3>3. ASSUME NEW k \in 1..Len(at[m + 1].toks), k \notin 1..Len(at[m].toks)
          PROVE  \/ at[m + 1].toks[k] = Uninit /\ k = Len(at[m + 1].toks) /\ at[m + 1].rc = "INVAL"
                 \/ \E i \in 1..(m + 1) : Wrote(text, at, k, i)
      <4>0. /\ IsCounted(text[m + 1])  => Len(at[m + 1].toks) <= Len(at[m].toks) + 1
            /\ ~IsCounted(text[m + 1]) => Len(at[m + 1].toks) = Len(at[m].toks)
        BY <3>1 DEF Advances
      <4>1. k = Len(at[m].toks) + 1 /\ k = Len(at[m + 1].toks) /\ IsCounted(text[m + 1])
        <5> DEFINE a == Len(at[m].toks)
                   b == Len(at[m + 1].toks)
                   c == IsCounted(text[m + 1])
        <5>1. a \in Nat /\ b \in Nat /\ (c => b <= a + 1) /\ (~c => b = a) /\ k \in 1..b /\ k \notin 1..a
          BY <2>3, <3>3, <4>0, Zenon
        <5> HIDE DEF a, b, c
        <5>2. a < k /\ k <= b
          BY <5>1
        <5>3. c
          BY <5>1, <5>2
        <5>4. k = a + 1 /\ k = b
          BY <5>1, <5>2, <5>3
        <5> QED BY <5>3, <5>4 DEF a, b, c
      <4>2. CASE at[m + 1].rc = "OK"
        <5>1. Wrote(text, at, k, m + 1)
          BY <2>0, <4>1, <4>2, WroteForward
        <5>2. m + 1 \in 1..(m + 1)
          BY <2>0
        <5> QED BY <5>1, <5>2
      <4>3. CASE at[m + 1].rc # "OK"
        BY <3>1, <4>1, <4>3 DEF Advances
      <4> QED BY <4>2, <4>3
    <3>4. FromText(text, at, m + 1)
      BY <3>2, <3>3 DEF FromText
    <3> QED BY <2>0, <3>4
  <2> QED BY <2>5, <2>6
<1> HIDE DEF I, N
<1>4. \A m \in 0..N : m \in I
  BY <1>1, <1>2, <1>3, Upto
<1> QED BY <1>4 DEF I, N

\* Between the lexemes of two tokens that follow each other there is none that
\* adds a token.
LEMMA WroteNext ==
  ASSUME NEW V, "nil" \in V, NEW text \in Seq(Lexemes(V)), NEW at, Runs(V, text, at),
         NEW k, NEW i, NEW j, Wrote(text, at, k, i), Wrote(text, at, k + 1, j)
  PROVE  i < j /\ \A m \in (i + 1)..(j - 1) : ~IsCounted(text[m])
<1> DEFINE N == Len(text)
<1>1. N \in Nat /\ \A m \in 0..N : at[m] \in ParserSet(V)
  BY DEF Runs
<1>2. i \in 1..N /\ j \in 1..N /\ k \in Nat
  BY DEF Wrote
<1>3. \A m \in 0..N : Len(at[m].toks) \in Nat
  BY <1>1, ParserParts
<1>4. \A l, m \in 0..N : l <= m => Len(at[l].toks) <= Len(at[m].toks)
  <2> SUFFICES ASSUME NEW l \in 0..N, NEW m \in 0..N, l <= m PROVE Len(at[l].toks) <= Len(at[m].toks)
    OBVIOUS
  <2>1. m \in l..N
    BY <1>1
  <2>2. Later(at[m], at[l])
    BY <2>1, RunsLater
  <2> QED BY <2>2 DEF Later, Continues
<1>5. i \in 0..N /\ j \in 0..N /\ j - 1 \in 0..N
  BY <1>1, <1>2
<1>6. Len(at[i].toks) = k /\ Len(at[j].toks) = k + 1 /\ Len(at[j - 1].toks) = k /\ at[j].rc = "OK"
  BY <1>2 DEF Wrote
<1>7. i < j
  <2>1. ~(j <= i)
    BY <1>2, <1>4, <1>5, <1>6
  <2> QED BY <1>2, <2>1
<1>8. ASSUME NEW m \in (i + 1)..(j - 1), IsCounted(text[m]) PROVE FALSE
  <2>1. m \in 1..N /\ m \in 0..N /\ m - 1 \in 0..N /\ i <= m - 1 /\ m <= j - 1 /\ j \in m..N
    BY <1>1, <1>2
  <2>2. Later(at[j], at[m])
    BY <2>1, RunsLater
  <2>3. at[m].rc = "OK"
    BY <1>6, <2>2 DEF Later
  <2>4. Wrote(text, at, Len(at[m].toks), m)
    BY <1>8, <2>1, <2>3, WroteForward
  <2>5. Len(at[m - 1].toks) = Len(at[m].toks) - 1
    BY <2>4 DEF Wrote
  <2>6. k <= Len(at[m - 1].toks) /\ Len(at[m].toks) <= k
    BY <1>4, <1>5, <1>6, <2>1
  <2> QED BY <1>3, <2>1, <2>5, <2>6, <1>2
<1> QED BY <1>7, <1>8

\* There is one token for each lexeme that has one, as long as nothing fails.
LEMMA CountIs ==
  ASSUME NEW V, "nil" \in V, NEW text \in Seq(Lexemes(V)), NEW at, Runs(V, text, at), NEW n \in 0..Len(text)
  PROVE  /\ IsFiniteSet(Counted(text) \cap 1..n)
         /\ Len(at[n].toks) <= Cardinality(Counted(text) \cap 1..n)
         /\ at[n].rc = "OK" => Len(at[n].toks) = Cardinality(Counted(text) \cap 1..n)
<1> DEFINE N == Len(text)
           C(m) == Counted(text) \cap 1..m
           I == {m \in 0..N : /\ IsFiniteSet(C(m)) /\ Len(at[m].toks) <= Cardinality(C(m))
                              /\ at[m].rc = "OK" => Len(at[m].toks) = Cardinality(C(m))}
<1>1. N \in Nat /\ \A k \in 0..N : at[k] \in ParserSet(V)
  BY DEF Runs
<1>2. 0 \in I
  <2>1. Len(at[0].toks) = 0
    BY DEF Runs, Start
  <2>2. C(0) = {}
    OBVIOUS
  <2>3. IsFiniteSet(C(0)) /\ Cardinality(C(0)) = 0
    BY <2>2, FS_EmptySet
  <2> QED BY <1>1, <2>1, <2>3
<1>3. ASSUME NEW m \in 0..(N - 1), m \in I PROVE m + 1 \in I
  <2>0. m + 1 \in 1..N /\ m + 1 \in 0..N /\ m \in 0..N /\ (m + 1) - 1 = m
    BY <1>1
  <2>1. /\ at[m].rc = "OK" => Advances(at[m + 1], at[m], text[m + 1])
        /\ at[m].rc # "OK" => at[m + 1] = at[m]
    BY <2>0, RunsStep
  <2>2. at[m] \in ParserSet(V) /\ at[m + 1] \in ParserSet(V)
    BY <1>1, <2>0
  <2>3. Len(at[m].toks) \in Nat /\ Len(at[m + 1].toks) \in Nat
    BY <2>2, ParserParts
  <2>4. IsFiniteSet(C(m)) /\ Cardinality(C(m)) \in Nat
    BY <1>3, FS_CardinalityType
  <2>5. C(m + 1) = IF IsCounted(text[m + 1]) THEN C(m) \cup {m + 1} ELSE C(m)
    <3>1. \A x : x \in 1..(m + 1) <=> x \in 1..m \/ x = m + 1
      BY <2>0
    <3>2. m + 1 \in Counted(text) <=> IsCounted(text[m + 1])
      BY <2>0 DEF Counted, IsCounted
    <3>3. C(m + 1) = (C(m) \cup (Counted(text) \cap {m + 1}))
      BY <3>1
    <3> QED BY <3>2, <3>3
  <2>6. m + 1 \notin C(m)
    BY <2>0
  <2> HIDE DEF C
  <2>7. /\ IsFiniteSet(C(m + 1))
        /\ Cardinality(C(m + 1)) = IF IsCounted(text[m + 1]) THEN Cardinality(C(m)) + 1 ELSE Cardinality(C(m))
    <3>1. CASE IsCounted(text[m + 1])
      BY <2>4, <2>5, <2>6, <3>1, FS_AddElement
    <3>2. CASE ~IsCounted(text[m + 1])
      BY <2>4, <2>5, <3>2
    <3> QED BY <3>1, <3>2
  <2>8. Len(at[m].toks) <= Cardinality(C(m)) /\ (at[m].rc = "OK" => Len(at[m].toks) = Cardinality(C(m)))
    BY <1>3
  <2>9. CASE at[m].rc # "OK"
    BY <2>0, <2>1, <2>3, <2>4, <2>7, <2>8, <2>9
  <2>10. CASE at[m].rc = "OK"
    BY <2>0, <2>1, <2>3, <2>4, <2>7, <2>8, <2>10 DEF Advances
  <2> QED BY <2>9, <2>10
<1> HIDE DEF I, N
<1>4. \A m \in 0..N : m \in I
  BY <1>1, <1>2, <1>3, Upto
<1> QED BY <1>4 DEF I, N

-----------------------------------------------------------------------------
(* What the plugins get *)

\* The end of jsmn_parse() changes the result only.
LEMMA FillFacts ==
  ASSUME NEW V, "nil" \in V, NEW text \in Seq(Lexemes(V))
  PROVE  LET p == Loop(text)[Len(text)] IN
         /\ p \in ParserSet(V) /\ Fill(text) \in ParserSet(V) /\ Fill(text).toks = p.toks
         /\ Fill(text).rc = "OK" <=> p.rc = "OK" /\ OpenTokens(p) = {}
<1> DEFINE p == Loop(text)[Len(text)]
<1>1. p \in ParserSet(V)
  BY LoopRuns DEF Runs
<1>2. Fill(text) = End(p)
  BY DEF Fill
<1> HIDE DEF p
<1>3. CASE p.rc = "OK" /\ OpenTokens(p) # {}
  <2>1. Fill(text) = Fail(p, "PART")
    BY <1>2, <1>3 DEF End
  <2> QED BY <1>1, <1>3, <2>1, FailFacts DEF Codes, p
<1>4. CASE ~(p.rc = "OK" /\ OpenTokens(p) # {})
  <2>1. Fill(text) = p
    BY <1>2, <1>4 DEF End
  <2> QED BY <1>1, <1>4, <2>1 DEF p
<1> QED BY <1>3, <1>4

\* A token is a lexeme of the text, or was not written.
FromLex(text, toks) ==
  \A k \in 1..Len(toks) :
    \/ toks[k].type = "uninit"
    \/ \E i \in 1..Len(text) : Wrote(text, Loop(text), k, i) /\ Writes(toks[k], text[i])

\* So were those of the second pass, of parse_json() and of get_tokens().
LEMMA FillFromLex ==
  ASSUME NEW V, "nil" \in V, NEW text \in Seq(Lexemes(V))
  PROVE  /\ FromLex(text, Fill(text).toks)
         /\ FromLex(text, ParseJson(text)) /\ FromLex(text, GetTokens(text))
<1> DEFINE N == Len(text)
           at == Loop(text)
           toks == Fill(text).toks
<1>1. Runs(V, text, at) /\ N \in 0..N /\ N \in Nat
  BY LoopRuns
<1>2. toks = at[N].toks /\ toks \in Seq(TokenSet(V))
  BY FillFacts, ParserParts
<1> HIDE DEF at, toks
<1>3. FromText(text, at, N)
  BY <1>1, WroteExists
<1>4. ASSUME NEW k \in 1..Len(toks)
      PROVE  \/ toks[k].type = "uninit"
             \/ \E i \in 1..N : Wrote(text, at, k, i) /\ Writes(toks[k], text[i])
  <2>1. CASE toks[k] = Uninit
    BY <2>1 DEF Uninit
  <2>2. CASE toks[k] # Uninit
    <3>1. PICK i \in 1..N : Wrote(text, at, k, i)
      BY <1>2, <1>3, <2>2 DEF FromText
    <3>2. N \in i..N
      BY <1>1
    <3>3. Writes(toks[k], text[i])
      BY <1>1, <1>2, <3>1, <3>2, WroteStays
    <3> QED BY <3>1, <3>3
  <2> QED BY <2>1, <2>2
<1>5. FromLex(text, toks)
  BY <1>4 DEF FromLex, at
<1>6. FromLex(text, <<>>)
  BY DEF FromLex
<1>7. ASSUME NEW n \in Nat PROVE FromLex(text, Allocated(toks, n))
  <2> DEFINE l == Len(toks)
             m == IF n - l \in Nat THEN n - l ELSE 0
             pad == [i \in 1..m |-> Uninit]
  <2>0. l \in Nat /\ m \in Nat /\ 1..(n - l) = 1..m
    BY <1>2
  <2>1. Allocated(toks, n) = toks \o pad
    BY <2>0 DEF Allocated
  <2>2. pad \in Seq({Uninit}) /\ Len(pad) = m
    BY <2>0
  <2> HIDE DEF pad, m, l
  <2>3. ASSUME NEW k \in 1..Len(toks \o pad)
        PROVE  \/ (toks \o pad)[k].type = "uninit"
               \/ \E i \in 1..Len(text) : Wrote(text, Loop(text), k, i) /\ Writes((toks \o pad)[k], text[i])
    <3>1. CASE k \in 1..Len(toks)
      <4>1. (toks \o pad)[k] = toks[k]
        BY <1>2, <2>2, <3>1
      <4> QED BY <1>5, <3>1, <4>1 DEF FromLex
    <3>2. CASE k \notin 1..Len(toks)
      <4>1. (toks \o pad)[k] = Uninit
        BY <1>2, <2>2, <3>2
      <4> QED BY <4>1 DEF Uninit
    <3> QED BY <3>1, <3>2
  <2> QED BY <2>1, <2>3 DEF FromLex
<1>8. FromLex(text, ParseJson(text))
  <2>1. CASE ~Lexical(text) \/ Counted(text) = {}
    BY <1>6, <2>1 DEF ParseJson
  <2>2. CASE Lexical(text) /\ Counted(text) # {}
    <3>1. IsFiniteSet(Counted(text) \cap 1..N)
      BY <1>1, CountIs
    <3>2. Counted(text) \cap 1..N = Counted(text)
      BY DEF Counted
    <3>3. Cardinality(Counted(text)) \in Nat
      BY <3>1, <3>2, FS_CardinalityType
    <3> QED BY <1>7, <2>2, <3>3 DEF ParseJson, toks
  <2> QED BY <2>1, <2>2
<1>9. FromLex(text, GetTokens(text))
  BY <1>5, <1>6 DEF GetTokens, ObjectTokens, toks
<1> QED BY <1>5, <1>8, <1>9 DEF toks

\* The lexeme of a string, and of a primitive, is known from the token.
LEMMA WritesIs ==
  ASSUME NEW V, NEW lex \in Lexemes(V), IsCounted(lex), NEW tok, Writes(tok, lex)
  PROVE  /\ tok.type \in {"object", "array", "string", "primitive"}
         /\ tok.type = "string" => lex = Str(tok.v)
         /\ tok.type = "primitive" => lex = Prim(tok.v)
         /\ tok.type = "object" => lex = LBrace
         /\ tok.type = "array" => lex = LBracket
<1>1. \/ lex = LBrace \/ lex = LBracket \/ (\E v \in V : lex = Str(v)) \/ (\E v \in V : lex = Prim(v))
  BY LexemeKinds, LexFacts
<1> QED BY <1>1, LexFacts DEF Writes

\* Two tokens that follow each other.
LEMMA Neighbours ==
  ASSUME NEW V, "nil" \in V, NEW text \in Seq(Lexemes(V)), NEW toks, FromLex(text, toks),
         NEW k \in 1..Len(toks), k + 1 \in 1..Len(toks), toks[k].type # "uninit", toks[k + 1].type # "uninit"
  PROVE  \E i, j \in 1..Len(text) :
           /\ i < j /\ IsCounted(text[i]) /\ IsCounted(text[j])
           /\ Writes(toks[k], text[i]) /\ Writes(toks[k + 1], text[j])
           /\ \A m \in (i + 1)..(j - 1) : ~IsCounted(text[m])
<1>1. PICK i \in 1..Len(text) : Wrote(text, Loop(text), k, i) /\ Writes(toks[k], text[i])
  BY DEF FromLex
<1>2. PICK j \in 1..Len(text) : Wrote(text, Loop(text), k + 1, j) /\ Writes(toks[k + 1], text[j])
  BY DEF FromLex
<1>3. i < j /\ \A m \in (i + 1)..(j - 1) : ~IsCounted(text[m])
  BY <1>1, <1>2, LoopRuns, WroteNext
<1>4. IsCounted(text[i]) /\ IsCounted(text[j])
  BY <1>1, <1>2 DEF Wrote
<1> QED BY <1>1, <1>2, <1>3, <1>4

\* What parse_json() and get_tokens() return are tokens.
LEMMA TokensType ==
  ASSUME NEW V, "nil" \in V, NEW text \in Seq(Lexemes(V))
  PROVE  ParseJson(text) \in Seq(TokenSet(V)) /\ GetTokens(text) \in Seq(TokenSet(V))
<1> DEFINE toks == Fill(text).toks
<1>1. toks \in Seq(TokenSet(V))
  BY FillFacts, ParserParts
<1>2. Uninit \in TokenSet(V)
  BY UninitFacts
<1> HIDE DEF toks
<1>3. Counted(text) # {} => Cardinality(Counted(text)) \in Nat
  <2>0. Runs(V, text, Loop(text)) /\ Len(text) \in 0..Len(text)
    BY LoopRuns
  <2>1. IsFiniteSet(Counted(text) \cap 1..Len(text))
    BY <2>0, CountIs
  <2>2. Counted(text) \cap 1..Len(text) = Counted(text)
    BY DEF Counted
  <2> QED BY <2>1, <2>2, FS_CardinalityType
<1>4. ASSUME NEW n \in Nat PROVE Allocated(toks, n) \in Seq(TokenSet(V))
  <2> DEFINE l == Len(toks)
             m == IF n - l \in Nat THEN n - l ELSE 0
             pad == [i \in 1..m |-> Uninit]
  <2>0. l \in Nat /\ m \in Nat /\ 1..(n - l) = 1..m
    BY <1>1
  <2>1. Allocated(toks, n) = toks \o pad
    BY <2>0 DEF Allocated
  <2>2. pad \in Seq(TokenSet(V))
    BY <1>2, <2>0
  <2> QED BY <1>1, <2>1, <2>2
<1>5. ParseJson(text) \in Seq(TokenSet(V))
  <2>1. CASE ~Lexical(text) \/ Counted(text) = {}
    BY <2>1 DEF ParseJson
  <2>2. CASE Lexical(text) /\ Counted(text) # {}
    BY <1>3, <1>4, <2>2 DEF ParseJson, toks
  <2> QED BY <2>1, <2>2
<1>6. GetTokens(text) \in Seq(TokenSet(V))
  BY <1>1 DEF GetTokens, ObjectTokens, toks
<1> QED BY <1>5, <1>6

\* A text that is the beginning of another; a key that is always followed by a
\* colon and a value of a set.
Begins(text, whole) ==
  Len(text) <= Len(whole) /\ \A i \in 1..Len(text) : text[i] = whole[i]
KeyHas(text, key, vals) ==
  \A i \in 1..Len(text) :
    text[i] = Str(key) => i + 2 <= Len(text) /\ text[i + 1] = Colon /\ text[i + 2] \in vals

\* The token behind a key is the value of the key, in every beginning of a text.
LEMMA KeyValue ==
  ASSUME NEW V, "nil" \in V, NEW text \in Seq(Lexemes(V)), NEW whole \in Seq(Lexemes(V)), Begins(text, whole),
         NEW key, NEW vals, KeyHas(whole, key, vals), \A s \in vals : IsCounted(s),
         NEW toks, FromLex(text, toks), NEW k \in 1..Len(toks), k + 1 \in 1..Len(toks),
         IsString(toks[k], key), toks[k + 1].type # "uninit"
  PROVE  \E s \in vals : Writes(toks[k + 1], s)
<1>1. toks[k].type = "string" /\ toks[k].v = key
  BY DEF IsString
<1>2. PICK i, j \in 1..Len(text) :
           /\ i < j /\ IsCounted(text[i]) /\ IsCounted(text[j])
           /\ Writes(toks[k], text[i]) /\ Writes(toks[k + 1], text[j])
           /\ \A m \in (i + 1)..(j - 1) : ~IsCounted(text[m])
  BY <1>1, Neighbours
<1>3. text[i] = Str(key)
  BY <1>1, <1>2, WritesIs
<1>4. i \in 1..Len(whole) /\ whole[i] = Str(key)
  BY <1>3 DEF Begins
<1>5. i + 2 <= Len(whole) /\ whole[i + 1] = Colon /\ whole[i + 2] \in vals
  BY <1>4 DEF KeyHas
<1>6. i \in Nat /\ j \in Nat /\ j <= Len(text) /\ Len(text) \in Nat
  OBVIOUS
<1>7. j # i + 1
  <2>1. SUFFICES ASSUME j = i + 1 PROVE FALSE
    OBVIOUS
  <2>2. text[j] = Colon
    BY <1>5, <2>1 DEF Begins
  <2> QED BY <1>2, <2>2, LexFacts
<1>8. i + 2 <= j /\ i + 2 \in 1..Len(text)
  BY <1>2, <1>6, <1>7
<1>9. text[i + 2] = whole[i + 2]
  BY <1>8 DEF Begins
<1>10. j = i + 2
  <2>1. SUFFICES ASSUME i + 2 < j PROVE FALSE
    BY <1>6, <1>8
  <2>2. i + 2 \in (i + 1)..(j - 1)
    BY <1>6, <2>1
  <2> QED BY <1>2, <1>5, <1>9, <2>2
<1> QED BY <1>2, <1>5, <1>9, <1>10

\* A text that starts with a closing bracket, or ends inside a string, gives
\* no token.
LEMMA StrayTokens ==
  ASSUME NEW V, "nil" \in V, NEW text \in Seq(Lexemes(V)), Len(text) >= 1, text[1] = RBrace,
         NEW toks, FromLex(text, toks)
  PROVE  Fill(text).rc # "OK" /\ \A k \in 1..Len(toks) : toks[k].type = "uninit"
<1> DEFINE at == Loop(text)
           N == Len(text)
<1>1. Runs(V, text, at) /\ N \in Nat /\ 1 \in 1..N /\ 1 \in 0..N /\ N \in 1..N /\ 1 - 1 = 0
  BY LoopRuns
<1> HIDE DEF at
<1>2. at[0] = Start /\ at[0].rc = "OK" /\ at[0] \in ParserSet(V)
  BY <1>1, StartType DEF Runs, Start
<1>3. PICK n \in 1..N : n = 1
  BY <1>1
<1>a. n - 1 = 0 /\ at[n] = Step(at[n - 1], text[n], n = Len(text))
  <2>1. n - 1 = 0
    BY <1>3
  <2>2. at[n - 1].rc = "OK"
    BY <1>2, <2>1
  <2>3. at[n - 1].rc = "OK" => at[n] = Step(at[n - 1], text[n], n = Len(text))
    BY <1>1, RunsStep
  <2> QED BY <2>1, <2>2, <2>3
<1>4. at[1] = CloseContainer(Start, "object")
  BY <1>2, <1>3, <1>a, StepIs
<1>5. at[1].rc = "INVAL"
  BY <1>2, <1>4, CloseFacts, StartType
<1>6. ASSUME NEW i \in 1..N PROVE at[i].rc # "OK"
  <2>1. i \in 1..N /\ Later(at[i], at[1])
    BY <1>1, RunsLater
  <2> QED BY <1>5, <2>1 DEF Later
<1>7. Fill(text).rc # "OK"
  BY <1>1, <1>6, FillFacts DEF at
<1>8. ASSUME NEW k \in 1..Len(toks), toks[k].type # "uninit" PROVE FALSE
  <2>1. PICK i \in 1..N : Wrote(text, at, k, i)
    BY <1>8 DEF FromLex, at
  <2> QED BY <1>6, <2>1 DEF Wrote
<1> QED BY <1>7, <1>8

\* A text that ends inside a string has no tokens: the first pass fails.
LEMMA CutTokens ==
  ASSUME NEW V, "nil" \in V, NEW text \in Seq(Lexemes(V)), Len(text) >= 1, text[Len(text)] = Cut
  PROVE  ParseJson(text) = <<>> /\ GetTokens(text) = <<>>
<1> DEFINE at == Loop(text)
           N == Len(text)
<1>1. Runs(V, text, at) /\ N \in Nat /\ N \in 1..N
  BY LoopRuns
<1> HIDE DEF at
<1>2. ParseJson(text) = <<>>
  <2>1. ~Lexical(text)
    BY <1>1 DEF Lexical
  <2> QED BY <2>1 DEF ParseJson
<1>3. at[N].rc # "OK"
  <2>1. /\ at[N - 1] \in ParserSet(V)
        /\ at[N - 1].rc = "OK" => at[N] = Step(at[N - 1], Cut, N = Len(text))
        /\ at[N - 1].rc # "OK" => at[N] = at[N - 1]
    BY <1>1, RunsStep
  <2>2. at[N - 1].rc = "OK" => at[N] = Fail(at[N - 1], "PART")
    BY <2>1, StepIs
  <2>3. Fail(at[N - 1], "PART").rc = "PART"
    BY <2>1, FailFacts DEF Codes
  <2> QED BY <2>1, <2>2, <2>3
<1>4. Fill(text).rc # "OK"
  BY <1>1, <1>3, FillFacts DEF at
<1> QED BY <1>2, <1>4 DEF GetTokens, ObjectTokens

\* However the answer arrives, the token behind a key is a value of the key.
KeyReads(toks, key, vals) ==
  \A k \in 1..Len(toks) :
    k + 1 \in 1..Len(toks) /\ IsString(toks[k], key) /\ toks[k + 1].type # "uninit" =>
      \E s \in vals : Writes(toks[k + 1], s)

\* A value that get_result_value() finds is a value of the key.
LEMMA ValueFound ==
  ASSUME NEW S, NEW toks \in Seq(S), NEW key, NEW vals, KeyReads(toks, key, vals), NEW from,
         ResultValue(toks, key, from).found, ResultValue(toks, key, from).tok.type # "uninit"
  PROVE  \E s \in vals : Writes(ResultValue(toks, key, from).tok, s)
<1> DEFINE x == ResultValue(toks, key, from)
           hits == {i \in 2..(Len(toks) - 1) : IsString(toks[i], key)}
           k == Min(hits)
<1>2. hits # {} /\ x.tok = toks[k + 1]
  BY DEF ResultValue, ValueOf
<1> HIDE DEF x
<1>3. hits \in SUBSET Nat
  OBVIOUS
<1>4. k \in hits
  <2> HIDE DEF hits
  <2> QED BY <1>2, <1>3, MinOfNats
<1> HIDE DEF k
<1>5. k \in 1..Len(toks) /\ k + 1 \in 1..Len(toks) /\ IsString(toks[k], key)
  BY <1>4
<1> QED BY <1>2, <1>5 DEF x, KeyReads

\* check_success() is true only of a "success" whose value is true.
LEMMA SuccessFound ==
  ASSUME NEW S, NEW toks \in Seq(S), NEW vals, KeyReads(toks, "success", vals), NEW from \in {0, 1},
         CheckSuccess(toks, from).ok
  PROVE  \E s \in vals : Writes([type |-> "primitive", v |-> "true"], s)
<1> DEFINE At(i) == IF from + i + 1 <= Len(toks) THEN toks[from + i + 1] ELSE Uninit
           last  == Len(toks) - 1
           hits  == {i \in 1..last : IsString(At(i), "success")}
           k == Min(hits)
<1>1. hits # {} /\ k < last /\ At(k + 1).type = "primitive" /\ At(k + 1).v = "true"
  BY DEF CheckSuccess
<1>2. Len(toks) \in Nat /\ hits \in SUBSET Nat
  OBVIOUS
<1>3. k \in hits
  <2> HIDE DEF hits
  <2> QED BY <1>1, <1>2, MinOfNats
<1> HIDE DEF k
<1>4. k \in 1..last /\ IsString(At(k), "success")
  BY <1>3
<1>5. Uninit.type = "uninit"
  BY DEF Uninit
<1>6. from + k + 1 <= Len(toks) /\ IsString(toks[from + k + 1], "success")
  BY <1>4, <1>5 DEF IsString
<1>7. from + (k + 1) + 1 <= Len(toks) /\ toks[from + (k + 1) + 1].type = "primitive"
      /\ toks[from + (k + 1) + 1].v = "true"
  BY <1>1, <1>5
<1>8. (from + k + 1) + 1 = from + (k + 1) + 1 /\ from + k + 1 \in 1..Len(toks) /\ from + (k + 1) + 1 \in 1..Len(toks)
  BY <1>2, <1>4, <1>6, <1>7
<1>9. PICK s \in vals : Writes(toks[from + (k + 1) + 1], s)
  BY <1>6, <1>7, <1>8 DEF KeyReads
<1> QED BY <1>7, <1>9 DEF Writes

\* What the search for "success" finds is a value of the key.
LEMMA OkFound ==
  ASSUME NEW S, NEW toks \in Seq(S), NEW vals, KeyReads(toks, "success", vals), HasSuccess(toks)
  PROVE  \E s \in vals : Writes([type |-> "string", v |-> "ok"], s)
<1>1. PICK i \in 2..(Len(toks) - 1) : IsString(toks[i], "success") /\ IsString(toks[i + 1], "ok")
  BY DEF HasSuccess, OkBehind
<1>2. i \in 1..Len(toks) /\ i + 1 \in 1..Len(toks) /\ toks[i + 1].type = "string" /\ toks[i + 1].v = "ok"
  BY <1>1 DEF IsString
<1>3. PICK s \in vals : Writes(toks[i + 1], s)
  BY <1>1, <1>2 DEF KeyReads
<1> QED BY <1>2, <1>3 DEF Writes

-----------------------------------------------------------------------------
(* Texts that are put together *)

\* The text w stands in text behind lexeme number o.
Stands(text, o, w) ==
  o \in Nat /\ o + Len(w) <= Len(text) /\ \A j \in 1..Len(w) : text[o + j] = w[j]

\* Every lexeme of the set marks lies in one of the texts of W.
Covered(text, marks, W) ==
  \A i \in 1..Len(text) : text[i] \in marks =>
    \E w \in W, o \in Nat : o < i /\ i <= o + Len(w) /\ Stands(text, o, w)

Text(V, text, marks, W) == text \in Seq(Lexemes(V)) /\ Covered(text, marks, W)

\* A window of a part is one of the whole.
LEMMA StandsCat ==
  ASSUME NEW L, NEW a \in Seq(L), NEW b \in Seq(L), NEW w \in Seq(L), NEW o \in Nat
  PROVE  /\ Stands(a, o, w) => Stands(a \o b, o, w)
         /\ Stands(b, o, w) => Stands(a \o b, Len(a) + o, w)
<1>0. Len(a) \in Nat /\ Len(b) \in Nat /\ Len(w) \in Nat /\ Len(a \o b) = Len(a) + Len(b)
  OBVIOUS
<1>1. ASSUME Stands(a, o, w) PROVE Stands(a \o b, o, w)
  <2>1. ASSUME NEW j \in 1..Len(w) PROVE (a \o b)[o + j] = w[j]
    <3>1. o + j \in 1..Len(a) /\ a[o + j] = w[j]
      BY <1>0, <1>1 DEF Stands
    <3> QED BY <3>1
  <2> QED BY <1>0, <1>1, <2>1 DEF Stands
<1>2. ASSUME Stands(b, o, w) PROVE Stands(a \o b, Len(a) + o, w)
  <2>1. ASSUME NEW j \in 1..Len(w) PROVE (a \o b)[(Len(a) + o) + j] = w[j]
    <3>1. o + j \in 1..Len(b) /\ b[o + j] = w[j]
      BY <1>0, <1>2 DEF Stands
    <3>2. (Len(a) + o) + j = Len(a) + (o + j)
      BY <1>0
    <3>3. (a \o b)[Len(a) + (o + j)] = b[o + j]
      BY <1>0, <3>1
    <3> QED BY <3>1, <3>2, <3>3
  <2> QED BY <1>0, <1>2, <2>1 DEF Stands
<1> QED BY <1>1, <1>2

\* A text whose marks all start a window of W may be put behind another.
LEMMA TextCat ==
  ASSUME NEW V, NEW marks, NEW W \in SUBSET Seq(Lexemes(V)), NEW a, NEW b,
         Text(V, a, marks, W), Text(V, b, marks, W)
  PROVE  Text(V, a \o b, marks, W)
<1> DEFINE L == Lexemes(V)
           c == a \o b
<1>1. a \in Seq(L) /\ b \in Seq(L) /\ c \in Seq(L) /\ Len(a) \in Nat /\ Len(b) \in Nat /\ Len(c) = Len(a) + Len(b)
  BY DEF Text
<1> HIDE DEF L
<1>2. ASSUME NEW i \in 1..Len(c), c[i] \in marks
      PROVE  \E w \in W, o \in Nat : o < i /\ i <= o + Len(w) /\ Stands(c, o, w)
  <2>1. CASE i \in 1..Len(a)
    <3>1. a[i] = c[i]
      BY <1>1, <2>1
    <3>2. PICK w \in W, o \in Nat : o < i /\ i <= o + Len(w) /\ Stands(a, o, w)
      BY <1>2, <2>1, <3>1 DEF Text, Covered
    <3>3. Stands(c, o, w)
      BY <1>1, <3>2, StandsCat DEF L
    <3> QED BY <3>2, <3>3
  <2>2. CASE i \notin 1..Len(a)
    <3> DEFINE k == i - Len(a)
    <3>1. k \in 1..Len(b) /\ b[k] = c[i]
      BY <1>1, <2>2
    <3>2. PICK w \in W, o \in Nat : o < k /\ k <= o + Len(w) /\ Stands(b, o, w)
      BY <1>2, <3>1 DEF Text, Covered
    <3>3. Stands(c, Len(a) + o, w)
      BY <1>1, <3>2, StandsCat DEF L
    <3>4. Len(w) \in Nat
      OBVIOUS
    <3>5. Len(a) + o \in Nat /\ Len(a) + o < i /\ i <= (Len(a) + o) + Len(w)
      BY <1>1, <3>2, <3>4
    <3> QED BY <3>3, <3>5
  <2> QED BY <2>1, <2>2
<1>3. Covered(c, marks, W)
  BY <1>2 DEF Covered
<1> QED BY <1>1, <1>3 DEF Text, L

\* A lexeme that is no mark is such a text.
LEMMA TextOne ==
  ASSUME NEW V, NEW marks, NEW W, NEW lex \in Lexemes(V), lex \notin marks
  PROVE  Text(V, <<lex>>, marks, W)
BY DEF Text, Covered

\* The empty text is one.
LEMMA TextEmpty ==
  ASSUME NEW V, NEW marks, NEW W
  PROVE  Text(V, <<>>, marks, W)
<1>1. <<>> \in Seq(Lexemes(V)) /\ Len(<<>>) = 0
  OBVIOUS
<1>2. 1..0 = {}
  OBVIOUS
<1> QED BY <1>1, <1>2 DEF Text, Covered

\* A window is one.
LEMMA TextWindow ==
  ASSUME NEW V, NEW marks, NEW W, NEW w \in W, w \in Seq(Lexemes(V))
  PROVE  Text(V, w, marks, W)
<1>1. 0 \in Nat /\ Stands(w, 0, w) /\ \A i \in 1..Len(w) : 0 < i /\ i <= 0 + Len(w)
  BY DEF Stands
<1> QED BY <1>1 DEF Text, Covered

\* The recursion of Commas().
CommaRun(L, texts, upto) ==
  /\ upto \in [0..Len(texts) -> Seq(L)] /\ upto[0] = <<>>
  /\ \A n \in 1..Len(texts) : upto[n] = IF n = 1 THEN texts[1] ELSE upto[n - 1] \o <<CommaLex>> \o texts[n]
  /\ Commas(texts) = upto[Len(texts)]

\* The texts with commas between them, one text at a time.
LEMMA CommasRun ==
  ASSUME NEW L, CommaLex \in L, NEW texts \in Seq(Seq(L))
  PROVE  \E upto : CommaRun(L, texts, upto)
<1> DEFINE N == Len(texts)
           S == Seq(L)
           Body(u, n) == IF n = 1 THEN texts[1] ELSE u \o <<CommaLex>> \o texts[n]
           step == [x \in S \X (1..N) |-> Body(x[1], x[2])]
           Is(g) == g = [n \in 0..N |-> IF n = 0 THEN <<>> ELSE Body(g[n - 1], n)]
<1>1. N \in Nat /\ <<>> \in S
  OBVIOUS
<1>2. ASSUME NEW u \in S, NEW n \in 1..N PROVE Body(u, n) \in S
  OBVIOUS
<1> HIDE DEF S
<1>3. step \in [S \X (1..N) -> S]
  <2>1. ASSUME NEW x \in S \X (1..N) PROVE Body(x[1], x[2]) \in S
    <3>1. x[1] \in S /\ x[2] \in 1..N
      OBVIOUS
    <3> HIDE DEF Body, N
    <3> QED BY <1>2, <3>1, Zenon
  <2> HIDE DEF Body
  <2> QED BY <2>1
<1>4. PICK g : Iterates(g, S, N, <<>>, step)
  <2> HIDE DEF step, N
  <2> QED BY <1>1, <1>3, Recursion
<1>5. g \in [0..N -> S] /\ g[0] = <<>>
  BY <1>4 DEF Iterates
<1>6. ASSUME NEW n \in 1..N PROVE g[n] = Body(g[n - 1], n)
  <2> HIDE DEF Body
  <2>1. n - 1 \in 0..N /\ g[n - 1] \in S
    <3> HIDE DEF N
    <3>1. n - 1 \in 0..N
      BY <1>1
    <3> QED BY <1>5, <3>1
  <2>2. <<g[n - 1], n>> \in S \X (1..N)
    BY <2>1
  <2>3. step[<<g[n - 1], n>>] = Body(g[n - 1], n)
    BY <2>2
  <2> QED BY <1>4, <2>3 DEF Iterates
<1>7. Is(g)
  <2> HIDE DEF Body
  <2> DEFINE h == [n \in 0..N |-> IF n = 0 THEN <<>> ELSE Body(g[n - 1], n)]
  <2>1. ASSUME NEW n \in 0..N PROVE g[n] = h[n]
    <3>1. h[n] = IF n = 0 THEN <<>> ELSE Body(g[n - 1], n)
      OBVIOUS
    <3> QED BY <1>1, <1>5, <1>6, <3>1
  <2>2. g = [n \in 0..N |-> g[n]] /\ h = [n \in 0..N |-> h[n]]
    BY <1>5
  <2> HIDE DEF N, h
  <2>3. g = h
    BY <2>1, <2>2, Zenon
  <2> QED BY <2>3 DEF h
<1> DEFINE at == CHOOSE h : Is(h)
<1>8. Commas(texts) = at[N]
  BY Zenon DEF Commas
<1>9. Is(at)
  <2> HIDE DEF Is
  <2> QED BY <1>7
<1>10. at = [n \in 0..N |-> IF n = 0 THEN <<>> ELSE Body(at[n - 1], n)]
  <2> HIDE DEF Body, N, at
  <2> QED BY <1>9
<1> HIDE DEF at, Is
<1>11. at[0] = <<>> /\ \A n \in 1..N : at[n] = Body(at[n - 1], n)
  <2> HIDE DEF N, Body
  <2> QED BY <1>1, <1>10
<1>12. \A n \in 0..N : at[n] \in S
  <2> DEFINE I == {n \in 0..N : at[n] \in S}
  <2>1. 0 \in I
    BY <1>1, <1>11
  <2>2. ASSUME NEW n \in 0..(N - 1), n \in I PROVE n + 1 \in I
    <3> HIDE DEF Body
    <3>1. n + 1 \in 1..N /\ n + 1 \in 0..N /\ (n + 1) - 1 = n
      BY <1>1
    <3>2. at[n + 1] = Body(at[n], n + 1)
      BY <1>11, <3>1
    <3>3. at[n + 1] \in S
      BY <1>2, <2>2, <3>1, <3>2
    <3> QED BY <3>1, <3>3
  <2> HIDE DEF I, N
  <2>3. \A n \in 0..N : n \in I
    BY <1>1, <2>1, <2>2, Upto
  <2> QED BY <2>3 DEF I
<1>13. at \in [0..N -> S]
  <2> HIDE DEF N
  <2> QED BY <1>10, <1>12
<1>14. CommaRun(L, texts, at)
  BY <1>8, <1>11, <1>13 DEF CommaRun, S
<1> QED BY <1>14

\* Texts with commas between them.
LEMMA CommaTexts ==
  ASSUME NEW V, NEW marks, CommaLex \notin marks, NEW W \in SUBSET Seq(Lexemes(V)),
         NEW texts \in Seq(Seq(Lexemes(V))), \A i \in 1..Len(texts) : Text(V, texts[i], marks, W)
  PROVE  Text(V, Commas(texts), marks, W)
<1> DEFINE L == Lexemes(V)
           N == Len(texts)
<1>1. CommaLex \in L
  BY DEF Lexemes
<1>2. Text(V, <<CommaLex>>, marks, W)
  BY <1>1, TextOne
<1>3. PICK upto : CommaRun(L, texts, upto)
  BY <1>1, CommasRun
<1> DEFINE I == {n \in 0..N : Text(V, upto[n], marks, W)}
<1>4. N \in Nat
  OBVIOUS
<1>5. 0 \in I
  <2>1. upto[0] = <<>> /\ <<>> \in Seq(L)
    BY <1>3 DEF CommaRun
  <2> QED BY <1>4, <2>1, TextEmpty
<1>6. ASSUME NEW n \in 0..(N - 1), n \in I PROVE n + 1 \in I
  <2>1. n + 1 \in 1..N /\ n + 1 \in 0..N /\ (n + 1) - 1 = n
    BY <1>4
  <2>2. Text(V, texts[n + 1], marks, W) /\ Text(V, upto[n], marks, W)
    BY <1>6, <2>1
  <2>3. upto[n + 1] = IF n + 1 = 1 THEN texts[n + 1] ELSE upto[n] \o <<CommaLex>> \o texts[n + 1]
    BY <1>3, <2>1 DEF CommaRun
  <2>4. Text(V, upto[n] \o <<CommaLex>>, marks, W)
    BY <1>2, <2>2, TextCat
  <2>5. Text(V, upto[n] \o <<CommaLex>> \o texts[n + 1], marks, W)
    BY <2>2, <2>4, TextCat
  <2>6. Text(V, upto[n + 1], marks, W)
    BY <2>2, <2>3, <2>5, Zenon
  <2> QED BY <2>1, <2>6
<1> HIDE DEF I
<1>7. N \in I
  <2> HIDE DEF N
  <2>1. \A n \in 0..N : n \in I
    BY <1>4, <1>5, <1>6, Upto
  <2> QED BY <1>4, <2>1
<1> QED BY <1>3, <1>7 DEF CommaRun, I

\* Few texts with commas.
Pair(a, b) == a \o <<CommaLex>> \o b
FewCommas(a, b, c) ==
  Commas(<<a>>) = a /\ Commas(<<a, b>>) = Pair(a, b) /\ Commas(<<a, b, c>>) = Pair(Pair(a, b), c)

\* Up to three of them, written out.
LEMMA CommasFew ==
  ASSUME NEW L, CommaLex \in L, NEW a \in Seq(L), NEW b \in Seq(L), NEW c \in Seq(L)
  PROVE  FewCommas(a, b, c)
<1>1. Commas(<<a>>) = a
  <2> DEFINE t == <<a>>
  <2>1. t \in Seq(Seq(L)) /\ Len(t) = 1 /\ t[1] = a
    OBVIOUS
  <2> HIDE DEF t
  <2>2. PICK u : CommaRun(L, t, u)
    BY <2>1, CommasRun
  <2> QED BY <2>1, <2>2 DEF CommaRun, t
<1>2. Commas(<<a, b>>) = a \o <<CommaLex>> \o b
  <2> DEFINE t == <<a, b>>
  <2>1. t \in Seq(Seq(L)) /\ Len(t) = 2 /\ t[1] = a /\ t[2] = b
    OBVIOUS
  <2> HIDE DEF t
  <2>2. PICK u : CommaRun(L, t, u)
    BY <2>1, CommasRun
  <2>3. u[1] = a
    BY <2>1, <2>2 DEF CommaRun
  <2>4. u[2] = u[1] \o <<CommaLex>> \o b /\ Commas(t) = u[2]
    BY <2>1, <2>2 DEF CommaRun
  <2> QED BY <2>3, <2>4 DEF t
<1>3. Commas(<<a, b, c>>) = (a \o <<CommaLex>> \o b) \o <<CommaLex>> \o c
  <2> DEFINE t == <<a, b, c>>
  <2>1. t \in Seq(Seq(L)) /\ Len(t) = 3 /\ t[1] = a /\ t[2] = b /\ t[3] = c
    OBVIOUS
  <2> HIDE DEF t
  <2>2. PICK u : CommaRun(L, t, u)
    BY <2>1, CommasRun
  <2>3. u[1] = a
    BY <2>1, <2>2 DEF CommaRun
  <2>0. 2 \in 1..3 /\ 3 \in 1..3 /\ 2 - 1 = 1 /\ 3 - 1 = 2 /\ 2 # 1 /\ 3 # 1
    OBVIOUS
  <2>4. u[2] = u[1] \o <<CommaLex>> \o t[2]
    BY <2>0, <2>1, <2>2 DEF CommaRun
  <2>5. u[3] = u[2] \o <<CommaLex>> \o t[3]
    BY <2>0, <2>1, <2>2 DEF CommaRun
  <2>6. Commas(t) = u[3]
    BY <2>1, <2>2 DEF CommaRun
  <2> QED BY <2>1, <2>3, <2>4, <2>5, <2>6 DEF t
<1>4. Commas(<<a, b>>) = Pair(a, b) /\ Commas(<<a, b, c>>) = Pair(Pair(a, b), c)
  BY <1>2, <1>3 DEF Pair
<1> QED BY <1>1, <1>4 DEF FewCommas

\* A bracket is no mark.
Punctuation == {LBrace, RBrace, LBracket, RBracket, Colon, CommaLex}

\* Objects, arrays and members are such texts when their parts are.
LEMMA TextBuilt ==
  ASSUME NEW V, NEW marks, marks \cap Punctuation = {}, NEW W \in SUBSET Seq(Lexemes(V))
  PROVE  /\ \A texts \in Seq(Seq(Lexemes(V))) :
              (\A i \in 1..Len(texts) : Text(V, texts[i], marks, W)) =>
                Text(V, Object(texts), marks, W) /\ Text(V, Array(texts), marks, W)
         /\ \A key \in V : \A val : Str(key) \notin marks /\ Text(V, val, marks, W) => Text(V, Member(key, val), marks, W)
<1> DEFINE L == Lexemes(V)
<1>0. Punctuation \subseteq L
  BY DEF Punctuation, Lexemes
<1>1. \A lex \in Punctuation : Text(V, <<lex>>, marks, W)
  BY <1>0, TextOne
<1>2. ASSUME NEW texts \in Seq(Seq(L)), \A i \in 1..Len(texts) : Text(V, texts[i], marks, W)
      PROVE  Text(V, Object(texts), marks, W) /\ Text(V, Array(texts), marks, W)
  <2>1. CommaLex \notin marks
    BY DEF Punctuation
  <2>2. Text(V, Commas(texts), marks, W)
    BY <1>2, <2>1, CommaTexts
  <2>3. Text(V, <<LBrace>> \o Commas(texts), marks, W) /\ Text(V, <<LBracket>> \o Commas(texts), marks, W)
    BY <1>1, <2>2, TextCat DEF Punctuation
  <2>4. Text(V, <<LBrace>> \o Commas(texts) \o <<RBrace>>, marks, W)
    BY <1>1, <2>3, TextCat DEF Punctuation
  <2>5. Text(V, <<LBracket>> \o Commas(texts) \o <<RBracket>>, marks, W)
    BY <1>1, <2>3, TextCat DEF Punctuation
  <2> QED BY <2>4, <2>5 DEF Object, Array
<1>3. ASSUME NEW key \in V, NEW val, Str(key) \notin marks, Text(V, val, marks, W)
      PROVE  Text(V, Member(key, val), marks, W)
  <2>1. Str(key) \in L
    BY DEF Lexemes
  <2>3. <<Str(key), Colon>> \in Seq(L) /\ Len(<<Str(key), Colon>>) = 2
    BY <1>0, <2>1 DEF Punctuation
  <2>4. ASSUME NEW i \in 1..2 PROVE <<Str(key), Colon>>[i] \notin marks
    BY <1>3 DEF Punctuation
  <2>5. Text(V, <<Str(key), Colon>>, marks, W)
    BY <2>3, <2>4 DEF Text, Covered
  <2>6. Text(V, <<Str(key), Colon>> \o val, marks, W)
    BY <1>3, <2>5, TextCat
  <2> QED BY <2>6 DEF Member
<1> QED BY <1>2, <1>3

\* A key that marks a member is followed by its value.
LEMMA MemberKey ==
  ASSUME NEW V, NEW key \in V, NEW vals, NEW text,
         \A v \in vals : v \in Lexemes(V) /\ v # Str(key),
         Text(V, text, {Str(key)}, {Member(key, <<v>>) : v \in vals})
  PROVE  text \in Seq(Lexemes(V)) /\ KeyHas(text, key, vals)
<1>1. ASSUME NEW v \in vals
      PROVE  LET w == Member(key, <<v>>) IN Len(w) = 3 /\ w[1] = Str(key) /\ w[2] = Colon /\ w[3] = v
  BY DEF Member
<1>2. Colon # Str(key)
  BY DEF Colon, Str
<1>3. text \in Seq(Lexemes(V)) /\ Len(text) \in Nat
  BY DEF Text
<1>4. ASSUME NEW i \in 1..Len(text), text[i] = Str(key)
      PROVE  i + 2 <= Len(text) /\ text[i + 1] = Colon /\ text[i + 2] \in vals
  <2>1. PICK w \in {Member(key, <<v>>) : v \in vals}, o \in Nat : o < i /\ i <= o + Len(w) /\ Stands(text, o, w)
    BY <1>4 DEF Text, Covered
  <2>2. PICK v \in vals : w = Member(key, <<v>>)
    BY <2>1
  <2>3. Len(w) = 3 /\ w[1] = Str(key) /\ w[2] = Colon /\ w[3] = v
    BY <1>1, <2>2
  <2>4. o + 3 <= Len(text) /\ text[o + 1] = w[1] /\ text[o + 2] = w[2] /\ text[o + 3] = w[3]
    BY <2>1, <2>3 DEF Stands
  <2>5. i # o + 2 /\ i # o + 3
    BY <1>2, <1>4, <2>3, <2>4
  <2>6. i = o + 1
    BY <1>3, <2>1, <2>3, <2>5
  <2> QED BY <1>3, <2>3, <2>4, <2>6
<1> QED BY <1>3, <1>4 DEF KeyHas

-----------------------------------------------------------------------------
(* Answers as they arrive *)

\* An answer is whole, has a bracket too many, or is cut.
LEMMA ArrivesKinds ==
  ASSUME NEW V, NEW T \in Seq(Lexemes(V)), NEW a \in Arrives(T)
  PROVE  /\ a[2] \in Seq(Lexemes(V))
         /\ \/ a[1] = "whole" /\ a[2] = T
            \/ a[1] = "stray" /\ Len(a[2]) >= 1 /\ a[2][1] = RBrace
            \/ a[1] = "cut" /\ Len(a[2]) < Len(T) /\ Begins(a[2], T)
            \/ a[1] = "cut" /\ Len(a[2]) >= 1 /\ a[2][Len(a[2])] = Cut
<1> DEFINE L == Lexemes(V)
<1>0. Len(T) \in Nat /\ RBrace \in L /\ Cut \in L
  BY DEF Lexemes
<1> HIDE DEF L
<1>T. T \in Seq(L)
  BY DEF L
<1>1. CASE a = <<"whole", T>>
  BY <1>1
<1>2. CASE a = <<"stray", <<RBrace>> \o T>>
  <2>1. <<RBrace>> \in Seq(L) /\ Len(<<RBrace>>) = 1 /\ <<RBrace>>[1] = RBrace
    BY <1>0
  <2>2. a[1] = "stray" /\ a[2] = <<RBrace>> \o T
    BY <1>2
  <2>3. a[2] \in Seq(L) /\ Len(a[2]) = 1 + Len(T) /\ a[2][1] = RBrace
    BY <1>0, <1>T, <2>1, <2>2
  <2> QED BY <1>0, <2>2, <2>3 DEF L
<1>3. ASSUME NEW n \in 0..(Len(T) - 1), a = <<"cut", SubSeq(T, 1, n)>>
      PROVE  a[2] \in Seq(L) /\ a[1] = "cut" /\ Len(a[2]) < Len(T) /\ Begins(a[2], T)
  <2>1. a[1] = "cut" /\ a[2] = SubSeq(T, 1, n)
    BY <1>3
  <2>2. SubSeq(T, 1, n) \in Seq(L) /\ Len(SubSeq(T, 1, n)) = n /\ \A i \in 1..n : SubSeq(T, 1, n)[i] = T[i]
    BY <1>0, <1>T
  <2> QED BY <1>0, <2>1, <2>2 DEF Begins
<1>4. ASSUME NEW n \in DOMAIN T, a = <<"cut", SubSeq(T, 1, n - 1) \o <<Cut>>>>
      PROVE  a[2] \in Seq(L) /\ a[1] = "cut" /\ Len(a[2]) >= 1 /\ a[2][Len(a[2])] = Cut
  <2>0. n \in 1..Len(T) /\ n - 1 \in 0..Len(T) /\ (n - 1) + 1 = n
    BY <1>0
  <2> DEFINE b == SubSeq(T, 1, n - 1)
  <2>1. a[1] = "cut" /\ a[2] = b \o <<Cut>>
    BY <1>4
  <2>2. b \in Seq(L) /\ Len(b) = n - 1
    BY <1>0, <1>T, <2>0
  <2> HIDE DEF b
  <2>a. b \o <<Cut>> \in Seq(L) /\ Len(b \o <<Cut>>) = Len(b) + 1 /\ (b \o <<Cut>>)[Len(b) + 1] = Cut
    BY <1>0, <2>2
  <2>3. a[2] \in Seq(L) /\ Len(a[2]) = n /\ a[2][n] = Cut
    BY <2>0, <2>1, <2>2, <2>a
  <2> QED BY <2>1, <2>3, <1>0
<1> QED BY <1>1, <1>2, <1>3, <1>4 DEF Arrives, L

\* However an answer arrives (whole, cut anywhere, with a bracket too many), the
\* token behind a key in parse_json() and get_tokens() is a value of the key.
THEOREM ArrivesKey ==
  ASSUME NEW V, "nil" \in V, NEW T \in Seq(Lexemes(V)), NEW a \in Arrives(T),
         NEW key, NEW vals, KeyHas(T, key, vals), \A s \in vals : IsCounted(s)
  PROVE  /\ ParseJson(a[2]) \in Seq(TokenSet(V)) /\ KeyReads(ParseJson(a[2]), key, vals)
         /\ GetTokens(a[2]) \in Seq(TokenSet(V)) /\ KeyReads(GetTokens(a[2]), key, vals)
<1> DEFINE t == a[2]
<1>1. t \in Seq(Lexemes(V)) /\ Len(t) \in Nat
  BY ArrivesKinds
<1>2. ParseJson(t) \in Seq(TokenSet(V)) /\ GetTokens(t) \in Seq(TokenSet(V))
  BY <1>1, TokensType
<1>3. FromLex(t, ParseJson(t)) /\ FromLex(t, GetTokens(t))
  BY <1>1, FillFromLex
<1> HIDE DEF t
<1>4. ASSUME Begins(t, T), NEW toks, FromLex(t, toks) PROVE KeyReads(toks, key, vals)
  BY <1>1, <1>4, KeyValue DEF KeyReads
<1>5. CASE Begins(t, T)
  BY <1>2, <1>3, <1>4, <1>5 DEF t
<1>6. CASE Len(t) >= 1 /\ t[1] = RBrace
  <2>1. ASSUME NEW toks, FromLex(t, toks) PROVE KeyReads(toks, key, vals)
    <3>1. \A k \in 1..Len(toks) : toks[k].type = "uninit"
      BY <1>1, <1>6, <2>1, StrayTokens
    <3> QED BY <3>1 DEF KeyReads
  <2> QED BY <1>2, <1>3, <2>1 DEF t
<1>7. CASE Len(t) >= 1 /\ t[Len(t)] = Cut
  <2>1. ParseJson(t) = <<>> /\ GetTokens(t) = <<>>
    BY <1>1, <1>7, CutTokens
  <2>2. KeyReads(<<>>, key, vals)
    BY DEF KeyReads
  <2> QED BY <1>2, <2>1, <2>2 DEF t
<1>8. Begins(T, T)
  BY DEF Begins
<1> QED BY <1>5, <1>6, <1>7, <1>8, ArrivesKinds DEF t

-----------------------------------------------------------------------------
(* Well nested texts are read without an error *)

\* Where a value may stand: at the top, in an array, or behind a key.
ValueReady(p) ==
  /\ p.rc = "OK"
  /\ \/ p.super = Inner(p) /\ (p.super = 0 \/ p.toks[p.super].type = "array")
     \/ /\ p.super # 0 /\ p.super = Len(p.toks)
        /\ p.toks[p.super].type = "string" /\ p.toks[p.super].size = 0

\* Where a member or an element may stand.
ListReady(p, kind) ==
  p.rc = "OK" /\ p.super # 0 /\ p.super = Inner(p) /\ p.toks[p.super].type = kind

\* Nothing is closed that was open; nothing is left open that was not.
Holds(q, p) == q.rc = "OK" /\ Continues(q, p) /\ OpenTokens(p) \subseteq OpenTokens(q)
Back(q, p) == q.rc = "OK" /\ Continues(q, p) /\ OpenTokens(q) = OpenTokens(p)

\* Behind a member or an element, where a comma or a closer may stand.
Behind(q, p) ==
  Back(q, p) /\ (q.super = Inner(q) \/ (q.super # 0 /\ q.toks[q.super].type = "string"))

\* Coming back to the container one was in is transitive.
LEMMA BackTrans ==
  ASSUME NEW V, NEW p \in ParserSet(V), NEW q \in ParserSet(V), NEW r \in ParserSet(V), Back(q, p)
  PROVE  /\ Holds(q, p) /\ Inner(q) = Inner(p)
         /\ Back(r, q) => Back(r, p)
         /\ Holds(r, q) => Holds(r, p)
         /\ Behind(r, q) => Behind(r, p)
<1>1. Continues(r, q) => Continues(r, p)
  BY ContinuesTrans DEF Back
<1> QED BY <1>1 DEF Back, Holds, Behind, Inner

\* So is holding the containers that were open.
LEMMA HoldsTrans ==
  ASSUME NEW V, NEW p \in ParserSet(V), NEW q \in ParserSet(V), NEW r \in ParserSet(V), Holds(q, p), Holds(r, q)
  PROVE  Holds(r, p)
<1>1. Continues(r, p)
  BY ContinuesTrans DEF Holds
<1> QED BY <1>1 DEF Holds

\* A parser is where it is.
LEMMA BackSelf ==
  ASSUME NEW V, NEW p \in ParserSet(V), p.rc = "OK"
  PROVE  Back(p, p) /\ Holds(p, p)
BY ContinuesSame DEF Back, Holds

\* A container that is opened where a value may stand.
LEMMA OpenGood ==
  ASSUME NEW V, "nil" \in V, NEW p \in ParserSet(V), ValueReady(p), NEW kind \in {"object", "array"},
         NEW q, q = OpenContainer(p, kind)
  PROVE  /\ q \in ParserSet(V) /\ Holds(q, p) /\ ListReady(q, kind)
         /\ Len(q.toks) = Len(p.toks) + 1 /\ Inner(q) = Len(q.toks)
         /\ OpenTokens(q) = OpenTokens(p) \cup {Len(q.toks)}
<1>1. ~SuperIs(p, {"object"})
  BY DEF ValueReady, SuperIs
<1>2. /\ q \in ParserSet(V) /\ Continues(q, p) /\ Len(q.toks) = Len(p.toks) + 1
      /\ q.rc = p.rc /\ q.toks[Len(q.toks)] = Token(kind, "nil")
      /\ q.super = Len(q.toks) /\ Inner(q) = Len(q.toks)
      /\ OpenTokens(q) = OpenTokens(p) \cup {Len(q.toks)}
  BY <1>1, OpenFacts
<1>3. Token(kind, "nil").type = kind
  BY TokenFacts
<1>4. Len(p.toks) \in Nat
  BY ParserParts
<1>5. Len(q.toks) # 0
  BY <1>2, <1>4
<1> QED BY <1>2, <1>3, <1>5 DEF ValueReady, ListReady, Holds

\* The closer of the same kind leads back.
LEMMA CloseGood ==
  ASSUME NEW V, "nil" \in V, NEW p \in ParserSet(V), ValueReady(p), NEW kind \in {"object", "array"},
         NEW q \in ParserSet(V), q = OpenContainer(p, kind), NEW r \in ParserSet(V), Behind(r, q),
         NEW s, s = CloseContainer(r, kind)
  PROVE  s \in ParserSet(V) /\ Back(s, p) /\ s.super = Inner(s)
<1> DEFINE l == Len(p.toks) + 1
<1>1. /\ Holds(q, p) /\ ListReady(q, kind) /\ Len(q.toks) = l /\ Inner(q) = l
      /\ OpenTokens(q) = OpenTokens(p) \cup {l}
  BY OpenGood
<1>2. Len(p.toks) \in Nat /\ OpenTokens(p) \in SUBSET (1..Len(p.toks))
  BY ParserParts, InnerFacts
<1>3. l \in Nat /\ l \notin OpenTokens(p) /\ l \in 1..l
  BY <1>2
<1> HIDE DEF l
<1>4. OpenTokens(r) = OpenTokens(q) /\ Inner(r) = l /\ Continues(r, q) /\ r.rc = "OK"
  BY <1>1 DEF Behind, Back, Inner
<1>5. r.toks[l].type = kind
  <2>1. q.toks[l].type = kind
    BY <1>1 DEF ListReady
  <2> QED BY <1>1, <1>3, <1>4, <2>1 DEF Continues
<1>6. /\ s \in ParserSet(V) /\ Continues(s, r) /\ s.rc = "OK" /\ s.super = Inner(s)
      /\ OpenTokens(s) = OpenTokens(r) \ {l}
  BY <1>1, <1>4, <1>5, CloseFacts
<1>7. OpenTokens(s) = OpenTokens(p)
  BY <1>1, <1>3, <1>4, <1>6
<1>8. Continues(r, p)
  BY <1>1, <1>4, ContinuesTrans DEF Holds
<1>9. Continues(s, p)
  BY <1>6, <1>8, ContinuesTrans
<1> QED BY <1>6, <1>7, <1>9 DEF Back

\* A string, and a primitive, where a value may stand.
LEMMA AllocGood ==
  ASSUME NEW V, NEW p \in ParserSet(V), p.rc = "OK", NEW v \in V, NEW type \in {"string", "primitive"},
         NEW q, q = Alloc(p, Token(type, v))
  PROVE  /\ q \in ParserSet(V) /\ Back(q, p) /\ q.super = p.super /\ Inner(q) = Inner(p)
         /\ Len(q.toks) = Len(p.toks) + 1 /\ q.toks[Len(q.toks)] = Token(type, v)
<1>1. Added(V, q, p, Token(type, v))
  BY ValueAlloc
<1> QED BY <1>1 DEF Added, Back

\* A primitive at the place of a value is written.
LEMMA PrimitiveGood ==
  ASSUME NEW V, NEW p \in ParserSet(V), ValueReady(p), NEW v \in V
  PROVE  Primitive(p, v, FALSE) = Alloc(p, Token("primitive", v))
<1>1. ~SuperIs(p, {"object"}) /\ ~(SuperIs(p, {"string"}) /\ p.toks[p.super].size # 0)
  <2>1. CASE p.super = Inner(p) /\ (p.super = 0 \/ p.toks[p.super].type = "array")
    BY <2>1 DEF SuperIs
  <2>2. CASE p.toks[p.super].type = "string" /\ p.toks[p.super].size = 0
    BY <2>2 DEF SuperIs
  <2> QED BY <2>1, <2>2 DEF ValueReady
<1> QED BY <1>1, PrimitiveFacts

\* A key and its colon.
LEMMA KeyGood ==
  ASSUME NEW V, NEW p \in ParserSet(V), ListReady(p, "object"), NEW key \in V,
         NEW q, q = Alloc(p, Token("string", key)), NEW r, r = [q EXCEPT !.super = Len(q.toks)]
  PROVE  /\ q \in ParserSet(V) /\ r \in ParserSet(V) /\ Back(q, p) /\ Back(r, p) /\ ValueReady(r)
<1>0. p.rc = "OK"
  BY DEF ListReady
<1>1. /\ q \in ParserSet(V) /\ Back(q, p) /\ Len(q.toks) = Len(p.toks) + 1
      /\ q.toks[Len(q.toks)] = Token("string", key)
  BY <1>0, AllocGood
<1>2. r \in ParserSet(V) /\ r.toks = q.toks /\ r.rc = q.rc /\ r.super = Len(q.toks)
  BY <1>1, ColonFacts
<1>3. Token("string", key).type = "string" /\ Token("string", key).size = 0
  BY TokenFacts
<1>4. Back(r, p)
  BY <1>1, <1>2 DEF Back, Continues, OpenTokens
<1>5. Len(p.toks) \in Nat
  BY ParserParts
<1>6. Len(q.toks) # 0
  BY <1>1, <1>5
<1>7. ValueReady(r)
  BY <1>1, <1>2, <1>3, <1>4, <1>6 DEF ValueReady, Back
<1> QED BY <1>1, <1>2, <1>4, <1>7

\* A comma behind a member or an element.
LEMMA CommaGood ==
  ASSUME NEW V, NEW p \in ParserSet(V), NEW kind \in {"object", "array"}, ListReady(p, kind),
         NEW q \in ParserSet(V), Behind(q, p), NEW r, r = Comma(q)
  PROVE  r \in ParserSet(V) /\ Back(r, p) /\ ListReady(r, kind)
<1>1. OpenTokens(q) = OpenTokens(p) /\ Inner(q) = Inner(p) /\ Continues(q, p) /\ q.rc = "OK"
  BY DEF Behind, Back, Inner
<1>2. /\ r \in ParserSet(V) /\ r.toks = q.toks /\ r.rc = q.rc
      /\ r.super = IF q.super = 0 \/ SuperIs(q, {"object", "array"}) \/ OpenTokens(q) = {}
                   THEN q.super ELSE Inner(q)
  BY CommaFacts
<1>3. OpenTokens(p) # {} /\ Inner(p) # 0 /\ Inner(p) \in 1..Len(p.toks) /\ p.toks[Inner(p)].type = kind
  <2>1. Inner(p) # 0 /\ p.toks[Inner(p)].type = kind
    BY DEF ListReady
  <2>2. OpenTokens(p) # {}
    BY <2>1 DEF Inner
  <2> QED BY <2>1, <2>2, InnerFacts
<1>4. r.super = Inner(q)
  <2>1. CASE q.super = Inner(q)
    BY <1>2, <2>1
  <2>2. CASE q.super # 0 /\ q.toks[q.super].type = "string"
    <3>1. ~SuperIs(q, {"object", "array"})
      BY <2>2 DEF SuperIs
    <3> QED BY <1>1, <1>2, <1>3, <2>2, <3>1
  <2> QED BY <2>1, <2>2 DEF Behind
<1>5. OpenTokens(r) = OpenTokens(q) /\ Inner(r) = Inner(q)
  BY <1>2 DEF OpenTokens, Inner
<1>6. q.toks[Inner(p)].type = kind
  BY <1>1, <1>3 DEF Continues
<1>7. Continues(r, p)
  BY <1>1, <1>2 DEF Continues
<1> QED BY <1>1, <1>2, <1>3, <1>4, <1>5, <1>6, <1>7 DEF Back, ListReady

\* A text whose last lexeme is no primitive, and the loop over it.
Reading(V, T, at) ==
  /\ "nil" \in V /\ T \in Seq(Lexemes(V)) /\ Runs(V, T, at)
  /\ \A v : Len(T) >= 1 => T[Len(T)] # Prim(v)

\* A stretch of the text behind lexeme o that fails nowhere and closes nothing
\* that was open before it.
Passes(at, o, n) == \A m \in 0..n : Holds(at[o + m], at[o])

\* What a text does wherever it stands as a value, and wherever it stands in a
\* list of members or of elements.
Ends(q, p) == Back(q, p) /\ q.super \in {p.super, Inner(p)}
ValueAt(T, at, t) ==
  \A o \in Nat : Stands(T, o, t) /\ ValueReady(at[o]) => Passes(at, o, Len(t)) /\ Ends(at[o + Len(t)], at[o])
PartAt(T, at, t, kind) ==
  \A o \in Nat : Stands(T, o, t) /\ ListReady(at[o], kind) => Passes(at, o, Len(t)) /\ Behind(at[o + Len(t)], at[o])

\* The types along a reading.
LEMMA ReadingType ==
  ASSUME NEW V, NEW T, NEW at, Reading(V, T, at)
  PROVE  /\ "nil" \in V /\ T \in Seq(Lexemes(V)) /\ Len(T) \in Nat
         /\ Runs(V, T, at) /\ \A m \in 0..Len(T) : at[m] \in ParserSet(V)
<1>1. "nil" \in V /\ T \in Seq(Lexemes(V)) /\ Runs(V, T, at)
  BY DEF Reading
<1>2. Len(T) \in Nat
  BY <1>1
<1>3. \A m \in 0..Len(T) : at[m] \in ParserSet(V)
  BY <1>1 DEF Runs
<1> QED BY <1>1, <1>2, <1>3

\* One turn of such a loop: no primitive ends the text.
Stepped(q, p, lex) ==
  /\ lex = LBrace => q = OpenContainer(p, "object")
  /\ lex = LBracket => q = OpenContainer(p, "array")
  /\ lex = RBrace => q = CloseContainer(p, "object")
  /\ lex = RBracket => q = CloseContainer(p, "array")
  /\ lex = Colon => q = [p EXCEPT !.super = Len(p.toks)]
  /\ lex = CommaLex => q = Comma(p)
  /\ \A v : lex = Str(v) => q = Alloc(p, Token("string", v))
  /\ \A v : lex = Prim(v) => q = Primitive(p, v, FALSE)

\* One lexeme of a reading.
LEMMA ReadingStep ==
  ASSUME NEW V, NEW T, NEW at, Reading(V, T, at), NEW o \in Nat, NEW lex, Stands(T, o, <<lex>>), at[o].rc = "OK"
  PROVE  /\ o \in 0..Len(T) /\ o + 1 \in 0..Len(T) /\ at[o] \in ParserSet(V) /\ at[o + 1] \in ParserSet(V)
         /\ Stepped(at[o + 1], at[o], lex)
<1>1. T \in Seq(Lexemes(V)) /\ Len(T) \in Nat /\ "nil" \in V /\ Runs(V, T, at)
  BY DEF Reading
<1>2. o + 1 <= Len(T) /\ T[o + 1] = lex
  <2>1. Len(<<lex>>) = 1 /\ <<lex>>[1] = lex /\ 1 \in 1..1
    OBVIOUS
  <2> QED BY <2>1 DEF Stands
<1>3. o \in 0..Len(T) /\ o + 1 \in 0..Len(T) /\ o + 1 \in 1..Len(T) /\ (o + 1) - 1 = o
  BY <1>1, <1>2
<1> DEFINE n == o + 1
           last == n = Len(T)
           p == at[o]
           q == at[n]
<1>4. p \in ParserSet(V) /\ q \in ParserSet(V) /\ q = Step(p, lex, last)
  <2>1. n - 1 = o /\ n \in 1..Len(T)
    BY <1>3
  <2> HIDE DEF n
  <2>2. /\ at[n - 1] \in ParserSet(V) /\ at[n] \in ParserSet(V)
        /\ at[n - 1].rc = "OK" => at[n] = Step(at[n - 1], T[n], n = Len(T))
    BY <1>1, <2>1, RunsStep
  <2> QED BY <1>2, <2>1, <2>2 DEF n
<1>5. ASSUME NEW v, lex = Prim(v) PROVE q = Primitive(p, v, FALSE)
  <2>1. n # Len(T)
    BY <1>1, <1>2, <1>3, <1>5 DEF Reading
  <2>2. last = FALSE
    BY <2>1
  <2> HIDE DEF last, p, q
  <2>3. q = Step(p, lex, FALSE)
    BY <1>4, <2>2
  <2> QED BY <1>5, <2>3, StepValueIs
<1> HIDE DEF last, p, q
<1>6. ASSUME NEW v, lex = Str(v) PROVE q = Alloc(p, Token("string", v))
  BY <1>4, <1>6, StepValueIs
<1>7. /\ lex = LBrace => q = OpenContainer(p, "object")
      /\ lex = LBracket => q = OpenContainer(p, "array")
      /\ lex = RBrace => q = CloseContainer(p, "object")
      /\ lex = RBracket => q = CloseContainer(p, "array")
      /\ lex = Colon => q = [p EXCEPT !.super = Len(p.toks)]
      /\ lex = CommaLex => q = Comma(p)
  BY <1>4, StepIs
<1>8. Stepped(q, p, lex)
  BY <1>5, <1>6, <1>7 DEF Stepped
<1> QED BY <1>3, <1>4, <1>8 DEF p, q, n

\* Two texts that stand one behind the other.
Splits(T, o, a, b, c) ==
  /\ Len(c) = Len(a) + Len(b) /\ Len(a) \in Nat /\ Len(b) \in Nat
  /\ Stands(T, o, a) /\ Stands(T, o + Len(a), b)
  /\ o + Len(c) = (o + Len(a)) + Len(b) /\ o + Len(c) <= Len(T)

\* A text in two parts stands where its parts do.
LEMMA StandsSplit ==
  ASSUME NEW L, NEW T \in Seq(L), NEW a \in Seq(L), NEW b \in Seq(L), NEW c, c = a \o b,
         NEW o \in Nat, Stands(T, o, c)
  PROVE  Splits(T, o, a, b, c)
<1>0. Len(a) \in Nat /\ Len(b) \in Nat /\ Len(T) \in Nat /\ Len(a \o b) = Len(a) + Len(b)
  OBVIOUS
<1>1. o + Len(a \o b) <= Len(T) /\ \A j \in 1..Len(a \o b) : T[o + j] = (a \o b)[j]
  BY Zenon DEF Stands
<1>2. ASSUME NEW j \in 1..Len(a) PROVE T[o + j] = a[j]
  <2>1. j \in 1..Len(a \o b) /\ (a \o b)[j] = a[j]
    BY <1>0
  <2> QED BY <1>1, <2>1
<1>3. ASSUME NEW j \in 1..Len(b) PROVE T[(o + Len(a)) + j] = b[j]
  <2>1. Len(a) + j \in 1..Len(a \o b) /\ (a \o b)[Len(a) + j] = b[j]
    BY <1>0
  <2>2. o + (Len(a) + j) = (o + Len(a)) + j
    BY <1>0
  <2> QED BY <1>1, <2>1, <2>2
<1>4. Stands(T, o, a) /\ Stands(T, o + Len(a), b)
  BY <1>0, <1>1, <1>2, <1>3 DEF Stands
<1> QED BY <1>0, <1>1, <1>4 DEF Splits

\* Two parts that are read without an error, one behind the other.
LEMMA PassesCat ==
  ASSUME NEW V, NEW T, NEW at, Reading(V, T, at), NEW o \in Nat, NEW n \in Nat, NEW k \in Nat, (o + n) + k <= Len(T),
         Passes(at, o, n), Passes(at, o + n, k)
  PROVE  Passes(at, o, n + k)
<1>1. Len(T) \in Nat /\ \A m \in 0..Len(T) : at[m] \in ParserSet(V)
  BY ReadingType
<1>2. ASSUME NEW m \in 0..(n + k) PROVE Holds(at[o + m], at[o])
  <2>1. CASE m \in 0..n
    BY <2>1 DEF Passes
  <2>2. CASE m \notin 0..n
    <3> DEFINE l == m - n
    <3>1. l \in 0..k /\ o + m = (o + n) + l /\ n \in 0..n
      BY <2>2
    <3> HIDE DEF l
    <3>2. Holds(at[(o + n) + l], at[o + n]) /\ Holds(at[o + n], at[o])
      BY <3>1 DEF Passes
    <3>3. (o + n) + l \in 0..Len(T) /\ o + n \in 0..Len(T) /\ o \in 0..Len(T)
      BY <1>1, <3>1
    <3> QED BY <1>1, <3>1, <3>2, <3>3, HoldsTrans
  <2> QED BY <2>1, <2>2
<1> QED BY <1>2 DEF Passes

\* One lexeme, and none.
LEMMA PassesOne ==
  ASSUME NEW V, NEW at, NEW o \in Nat, at[o] \in ParserSet(V), at[o].rc = "OK"
  PROVE  Passes(at, o, 0) /\ (Holds(at[o + 1], at[o]) => Passes(at, o, 1))
<1>1. o + 0 = o /\ Holds(at[o], at[o])
  BY BackSelf
<1>2. 0..0 = {0} /\ 0..1 = {0, 1}
  OBVIOUS
<1> QED BY <1>1, <1>2 DEF Passes

\* A string, and a primitive, as a value.
LEMMA ValueOne ==
  ASSUME NEW V, NEW T, NEW at, Reading(V, T, at), NEW v \in V, NEW lex \in {Str(v), Prim(v)}
  PROVE  ValueAt(T, at, <<lex>>)
<1> SUFFICES ASSUME NEW o \in Nat, Stands(T, o, <<lex>>), ValueReady(at[o])
             PROVE  Passes(at, o, 1) /\ Ends(at[o + 1], at[o])
  <2>1. Len(<<lex>>) = 1
    OBVIOUS
  <2> QED BY <2>1 DEF ValueAt
<1> DEFINE p == at[o]
           q == at[o + 1]
<1>1. p.rc = "OK"
  BY DEF ValueReady
<1>2. p \in ParserSet(V) /\ q \in ParserSet(V) /\ Stepped(q, p, lex)
  BY <1>1, ReadingStep
<1>3. PICK type \in {"string", "primitive"} : q = Alloc(p, Token(type, v))
  <2>1. CASE lex = Str(v)
    BY <1>2, <2>1 DEF Stepped
  <2>2. CASE lex = Prim(v)
    <3>1. q = Primitive(p, v, FALSE)
      BY <1>2, <2>2 DEF Stepped
    <3> HIDE DEF p, q
    <3> QED BY <1>2, <3>1, PrimitiveGood DEF p
  <2> QED BY <2>1, <2>2
<1>4. Back(q, p) /\ q.super = p.super
  <2> HIDE DEF p, q
  <2> QED BY <1>1, <1>2, <1>3, AllocGood
<1>5. Holds(q, p)
  BY <1>4 DEF Back, Holds
<1> QED BY <1>1, <1>2, <1>4, <1>5, PassesOne DEF Ends

\* A value is an element of an array.
LEMMA ElementPart ==
  ASSUME NEW T, NEW at, NEW t, ValueAt(T, at, t)
  PROVE  PartAt(T, at, t, "array")
<1> SUFFICES ASSUME NEW o \in Nat, Stands(T, o, t), ListReady(at[o], "array")
             PROVE  Passes(at, o, Len(t)) /\ Behind(at[o + Len(t)], at[o])
  BY DEF PartAt
<1> DEFINE p == at[o]
           q == at[o + Len(t)]
<1>1. ValueReady(p) /\ p.super = Inner(p)
  BY DEF ListReady, ValueReady
<1>2. Passes(at, o, Len(t)) /\ Ends(q, p)
  BY <1>1 DEF ValueAt
<1>3. Inner(q) = Inner(p)
  BY <1>2 DEF Ends, Back, Inner
<1> QED BY <1>1, <1>2, <1>3 DEF Ends, Behind

\* A key with its value is a member of an object.
LEMMA MemberPart ==
  ASSUME NEW V, NEW T, NEW at, Reading(V, T, at), NEW key \in V, NEW t \in Seq(Lexemes(V)), ValueAt(T, at, t)
  PROVE  PartAt(T, at, Member(key, t), "object") /\ Member(key, t) \in Seq(Lexemes(V))
<1> DEFINE L == Lexemes(V)
           k == <<Str(key), Colon>>
           m == Member(key, t)
<1>0. T \in Seq(L) /\ Len(T) \in Nat /\ Str(key) \in L /\ Colon \in L
  BY ReadingType DEF Lexemes
<1>1. k \in Seq(L) /\ Len(k) = 2 /\ k[1] = Str(key) /\ k[2] = Colon
  BY <1>0
<1>2. m = k \o t
  BY DEF Member
<1>3. m \in Seq(L)
  BY <1>1, <1>2
<1> SUFFICES ASSUME NEW o \in Nat, Stands(T, o, m), ListReady(at[o], "object")
             PROVE  Passes(at, o, Len(m)) /\ Behind(at[o + Len(m)], at[o])
  BY <1>3 DEF PartAt
<1> HIDE DEF k, m
<1>4. /\ Len(m) = Len(k) + Len(t) /\ Stands(T, o, k) /\ Stands(T, o + Len(k), t) /\ o + Len(m) <= Len(T)
      /\ o + Len(m) = (o + Len(k)) + Len(t) /\ Len(t) \in Nat
  <2> HIDE DEF L
  <2>1. t \in Seq(L)
    BY DEF L
  <2>2. Splits(T, o, k, t, m)
    BY <1>0, <1>1, <1>2, <2>1, StandsSplit
  <2> QED BY <2>2 DEF Splits
<1>5. Stands(T, o, <<Str(key)>>) /\ Stands(T, o + 1, <<Colon>>)
  BY <1>0, <1>1, <1>4 DEF Stands
<1> DEFINE p == at[o]
           q == at[o + 1]
           r == at[o + 2]
           s == at[o + Len(m)]
<1>6. p.rc = "OK"
  BY DEF ListReady
<1>7. p \in ParserSet(V) /\ q = Alloc(p, Token("string", key))
  <2>1. p \in ParserSet(V) /\ Stepped(q, p, Str(key))
    BY <1>5, <1>6, ReadingStep
  <2> QED BY <2>1 DEF Stepped
<1>8. q \in ParserSet(V) /\ Back(q, p)
  <2> HIDE DEF p, q
  <2> QED BY <1>6, <1>7, AllocGood
<1>9. r = [q EXCEPT !.super = Len(q.toks)]
  <2>1. o + 1 \in Nat /\ (o + 1) + 1 = o + 2 /\ q.rc = "OK"
    BY <1>8 DEF Back
  <2>2. Stepped(at[(o + 1) + 1], q, Colon)
    BY <1>5, <2>1, ReadingStep
  <2> QED BY <2>1, <2>2 DEF Stepped
<1>10. r \in ParserSet(V) /\ Back(r, p) /\ ValueReady(r)
  <2> HIDE DEF p, q, r
  <2> QED BY <1>7, <1>9, KeyGood DEF p
<1>11. /\ Passes(at, o + 2, Len(t)) /\ Ends(s, r)
  <2>1. o + 2 \in Nat /\ Stands(T, o + 2, t) /\ (o + 2) + Len(t) = o + Len(m)
    BY <1>1, <1>4
  <2> QED BY <1>10, <2>1 DEF ValueAt
<1>12. Passes(at, o, 2)
  <2>1. o + 0 = o /\ 0..2 = {0, 1, 2} /\ Holds(p, p)
    BY <1>6, <1>7, BackSelf
  <2>2. Holds(q, p) /\ Holds(r, p)
    BY <1>8, <1>10 DEF Back, Holds
  <2> QED BY <2>1, <2>2 DEF Passes
<1>13. Passes(at, o, Len(m)) /\ s \in ParserSet(V)
  <2>1. Len(m) = 2 + Len(t) /\ (o + 2) + Len(t) <= Len(T) /\ o + Len(m) \in 0..Len(T)
    BY <1>0, <1>1, <1>4
  <2>2. s \in ParserSet(V)
    BY <2>1, ReadingType
  <2> QED BY <1>4, <1>11, <1>12, <2>1, <2>2, PassesCat
<1>14. Behind(s, p)
  <2> HIDE DEF p, q, r, s
  <2>1. Back(s, p) /\ Inner(s) = Inner(p) /\ Inner(r) = Inner(p)
    BY <1>7, <1>10, <1>11, <1>13, BackTrans DEF Ends
  <2>2. CASE s.super = Inner(r)
    BY <2>1, <2>2 DEF Behind
  <2>3. CASE s.super = r.super
    <3>1. r.super # 0 /\ r.super \in 1..Len(r.toks) /\ r.toks[r.super].type = "string"
      <4>0. Token("string", key).type = "string"
        BY TokenFacts
      <4>1. Len(q.toks) = Len(p.toks) + 1 /\ q.toks[Len(q.toks)] = Token("string", key)
        BY <1>6, <1>7, AllocGood
      <4>2. r.super = Len(q.toks) /\ r.toks = q.toks /\ Len(p.toks) \in Nat
        BY <1>7, <1>8, <1>9, ColonFacts, ParserParts
      <4> QED BY <4>0, <4>1, <4>2
    <3>2. s.toks[r.super].type = "string"
      BY <1>11, <3>1 DEF Ends, Back, Continues
    <3> QED BY <2>1, <2>3, <3>1, <3>2 DEF Behind
  <2> QED BY <1>11, <2>2, <2>3 DEF Ends
<1> QED BY <1>13, <1>14

\* Nothing, and two members or elements with a comma between them.
LEMMA PartEmpty ==
  ASSUME NEW V, NEW T, NEW at, Reading(V, T, at), NEW kind
  PROVE  PartAt(T, at, <<>>, kind)
<1> SUFFICES ASSUME NEW o \in Nat, Stands(T, o, <<>>), ListReady(at[o], kind)
             PROVE  Passes(at, o, 0) /\ Behind(at[o + 0], at[o])
  <2>1. Len(<<>>) = 0
    OBVIOUS
  <2> QED BY <2>1 DEF PartAt
<1>1. o + 0 = o /\ o \in 0..Len(T)
  <2>1. Len(<<>>) = 0 /\ Len(T) \in Nat
    BY ReadingType
  <2> QED BY <2>1 DEF Stands
<1>2. at[o] \in ParserSet(V) /\ at[o].rc = "OK" /\ at[o].super = Inner(at[o])
  BY <1>1, ReadingType DEF ListReady
<1>3. Passes(at, o, 0)
  BY <1>2, PassesOne
<1>4. Back(at[o], at[o])
  BY <1>2, BackSelf
<1> QED BY <1>1, <1>2, <1>3, <1>4 DEF Behind

\* Two parts of a container with a comma between them.
LEMMA PartCat ==
  ASSUME NEW V, NEW T, NEW at, Reading(V, T, at), NEW kind \in {"object", "array"},
         NEW a \in Seq(Lexemes(V)), NEW b \in Seq(Lexemes(V)), PartAt(T, at, a, kind), PartAt(T, at, b, kind),
         NEW c, c = a \o <<CommaLex>> \o b
  PROVE  PartAt(T, at, c, kind)
<1> DEFINE L == Lexemes(V)
           d == a \o <<CommaLex>>
<1>0. T \in Seq(L) /\ Len(T) \in Nat /\ CommaLex \in L /\ a \in Seq(L) /\ b \in Seq(L)
  BY ReadingType DEF Lexemes
<1> HIDE DEF L
<1>1. <<CommaLex>> \in Seq(L) /\ Len(<<CommaLex>>) = 1
  BY <1>0
<1>2. d \in Seq(L) /\ c = d \o b
  BY <1>0, <1>1
<1> SUFFICES ASSUME NEW o \in Nat, Stands(T, o, c), ListReady(at[o], kind)
             PROVE  Passes(at, o, Len(c)) /\ Behind(at[o + Len(c)], at[o])
  BY DEF PartAt
<1>3. Splits(T, o, d, b, c)
  <2> HIDE DEF d
  <2> QED BY <1>0, <1>2, StandsSplit
<1>4. Splits(T, o, a, <<CommaLex>>, d)
  <2>1. Stands(T, o, d)
    BY <1>3 DEF Splits
  <2> QED BY <1>0, <1>1, <2>1, StandsSplit
<1> HIDE DEF d
<1> DEFINE n == o + Len(a)
           l == o + Len(c)
           p == at[o]
           q == at[n]
           r == at[n + 1]
           s == at[l]
<1>5. /\ Len(a) \in Nat /\ Len(b) \in Nat /\ Stands(T, o, a) /\ Stands(T, n, <<CommaLex>>)
      /\ Stands(T, n + 1, b) /\ n \in Nat /\ n + 1 \in Nat /\ l = (n + 1) + Len(b) /\ l <= Len(T) /\ l \in Nat
      /\ Len(c) = (Len(a) + 1) + Len(b) /\ n + 1 = o + (Len(a) + 1)
  BY <1>1, <1>3, <1>4 DEF Splits
<1>6. Passes(at, o, Len(a)) /\ Behind(q, p)
  BY <1>5 DEF PartAt
<1>7. p \in ParserSet(V) /\ q \in ParserSet(V) /\ r \in ParserSet(V) /\ s \in ParserSet(V)
  <2>1. o \in 0..Len(T) /\ n \in 0..Len(T) /\ n + 1 \in 0..Len(T) /\ l \in 0..Len(T)
    BY <1>0, <1>5
  <2> QED BY <2>1, ReadingType
<1>8. r = Comma(q) /\ q.rc = "OK"
  <2>1. q.rc = "OK"
    BY <1>6 DEF Behind, Back
  <2>2. Stepped(r, q, CommaLex)
    BY <1>5, <2>1, ReadingStep
  <2> QED BY <2>1, <2>2 DEF Stepped
<1>9. Back(r, p) /\ ListReady(r, kind)
  <2> HIDE DEF p, q, r
  <2> QED BY <1>6, <1>7, <1>8, CommaGood DEF p
<1>10. Passes(at, n + 1, Len(b)) /\ Behind(s, r)
  BY <1>5, <1>9 DEF PartAt
<1>11. Behind(s, p)
  <2> HIDE DEF p, q, r, s
  <2> QED BY <1>7, <1>9, <1>10, BackTrans
<1>12. Passes(at, o, Len(a) + 1)
  <2>1. Holds(r, q)
    <3>1. r.toks = q.toks /\ r.rc = q.rc
      <4> HIDE DEF q, r
      <4> QED BY <1>7, <1>8, CommaFacts
    <3> QED BY <1>7, <1>8, <3>1, ContinuesSame DEF Holds, OpenTokens
  <2>2. Passes(at, n, 1)
    BY <1>5, <1>7, <1>8, <2>1, PassesOne
  <2>3. n + 1 <= Len(T)
    BY <1>0, <1>5
  <2> QED BY <1>5, <1>6, <2>2, <2>3, PassesCat
<1>13. Passes(at, o, Len(c))
  <2> DEFINE k == Len(a) + 1
  <2>1. k \in Nat /\ (o + k) + Len(b) <= Len(T) /\ o + k = n + 1
    BY <1>5
  <2>2. Passes(at, o, k) /\ Passes(at, o + k, Len(b))
    BY <1>10, <1>12, <2>1
  <2> HIDE DEF k
  <2>3. Passes(at, o, k + Len(b))
    BY <1>5, <2>1, <2>2, PassesCat
  <2> QED BY <1>5, <2>3 DEF k
<1> QED BY <1>11, <1>13

\* Any number of parts of a container.
LEMMA CommasPart ==
  ASSUME NEW V, NEW T, NEW at, Reading(V, T, at), NEW kind \in {"object", "array"},
         NEW texts \in Seq(Seq(Lexemes(V))), \A i \in 1..Len(texts) : PartAt(T, at, texts[i], kind)
  PROVE  PartAt(T, at, Commas(texts), kind) /\ Commas(texts) \in Seq(Lexemes(V))
<1> DEFINE L == Lexemes(V)
           N == Len(texts)
<1>1. CommaLex \in L /\ N \in Nat
  BY DEF Lexemes
<1>2. PICK upto : CommaRun(L, texts, upto)
  BY <1>1, CommasRun
<1>3. \A n \in 0..N : upto[n] \in Seq(L)
  BY <1>2 DEF CommaRun
<1> DEFINE I == {n \in 0..N : PartAt(T, at, upto[n], kind)}
<1>4. 0 \in I
  <2>1. upto[0] = <<>>
    BY <1>2 DEF CommaRun
  <2> QED BY <1>1, <2>1, PartEmpty
<1>5. ASSUME NEW n \in 0..(N - 1), n \in I PROVE n + 1 \in I
  <2>1. n + 1 \in 1..N /\ n + 1 \in 0..N /\ (n + 1) - 1 = n /\ n \in 0..N
    BY <1>1
  <2>2. PartAt(T, at, texts[n + 1], kind) /\ PartAt(T, at, upto[n], kind)
    BY <1>5, <2>1
  <2>3. upto[n + 1] = IF n + 1 = 1 THEN texts[n + 1] ELSE upto[n] \o <<CommaLex>> \o texts[n + 1]
    BY <1>2, <2>1 DEF CommaRun
  <2>4. upto[n] \in Seq(L) /\ texts[n + 1] \in Seq(L)
    BY <1>3, <2>1
  <2>5. PartAt(T, at, upto[n] \o <<CommaLex>> \o texts[n + 1], kind)
    BY <2>2, <2>4, PartCat
  <2>6. PartAt(T, at, upto[n + 1], kind)
    BY <2>2, <2>3, <2>5, Zenon
  <2> QED BY <2>1, <2>6
<1> HIDE DEF I
<1>6. N \in I
  <2> HIDE DEF N
  <2>1. \A n \in 0..N : n \in I
    BY <1>1, <1>4, <1>5, Upto
  <2> QED BY <1>1, <2>1
<1>7. Commas(texts) = upto[N] /\ N \in 0..N
  BY <1>1, <1>2 DEF CommaRun
<1>8. PartAt(T, at, upto[N], kind)
  BY <1>6 DEF I
<1> QED BY <1>3, <1>7, <1>8

\* A container around its members or elements: it is open as long as it lasts.
Encloses(at, o, n) ==
  \A m \in 1..(n - 1) : at[o + m].rc = "OK" /\ Len(at[o].toks) + 1 \in OpenTokens(at[o + m])

\* A container whose inside is well nested is a value.
LEMMA ContainerValue ==
  ASSUME NEW V, NEW T, NEW at, Reading(V, T, at), NEW body \in Seq(Lexemes(V)),
         NEW kind \in {"object", "array"}, PartAt(T, at, body, kind), NEW opener, NEW closer,
         opener = IF kind = "object" THEN LBrace ELSE LBracket,
         closer = IF kind = "object" THEN RBrace ELSE RBracket,
         NEW c, c = <<opener>> \o body \o <<closer>>
  PROVE  /\ ValueAt(T, at, c)
         /\ \A o \in Nat : Stands(T, o, c) /\ ValueReady(at[o]) => Encloses(at, o, Len(c))
<1> DEFINE L == Lexemes(V)
           d == <<opener>> \o body
<1>0. T \in Seq(L) /\ Len(T) \in Nat /\ opener \in L /\ closer \in L /\ body \in Seq(L)
  BY ReadingType DEF Lexemes
<1> HIDE DEF L
<1>1. /\ <<opener>> \in Seq(L) /\ Len(<<opener>>) = 1
      /\ <<closer>> \in Seq(L) /\ Len(<<closer>>) = 1
  BY <1>0
<1>2. d \in Seq(L) /\ c = d \o <<closer>>
  BY <1>0, <1>1
<1> SUFFICES ASSUME NEW o \in Nat, Stands(T, o, c), ValueReady(at[o])
             PROVE  /\ Passes(at, o, Len(c)) /\ Ends(at[o + Len(c)], at[o])
                    /\ Encloses(at, o, Len(c))
  BY DEF ValueAt
<1>3. Splits(T, o, d, <<closer>>, c)
  <2> HIDE DEF d
  <2> QED BY <1>0, <1>1, <1>2, StandsSplit
<1>4. Splits(T, o, <<opener>>, body, d)
  <2>1. Stands(T, o, d)
    BY <1>3 DEF Splits
  <2> QED BY <1>0, <1>1, <2>1, StandsSplit
<1> HIDE DEF d
<1> DEFINE b == Len(body)
           e == (o + 1) + b
           p == at[o]
           q == at[o + 1]
           r == at[e]
           s == at[e + 1]
<1>5. /\ b \in Nat /\ Stands(T, o, <<opener>>) /\ Stands(T, o + 1, body) /\ Stands(T, e, <<closer>>)
      /\ o + 1 \in Nat /\ e \in Nat /\ e + 1 = o + Len(c) /\ e + 1 <= Len(T) /\ Len(c) = b + 2
  BY <1>1, <1>3, <1>4 DEF Splits
<1> HIDE DEF b, e
<1>6. p.rc = "OK"
  BY DEF ValueReady
<1>7. p \in ParserSet(V) /\ q \in ParserSet(V) /\ q = OpenContainer(p, kind)
  <2>1. p \in ParserSet(V) /\ q \in ParserSet(V) /\ Stepped(q, p, opener)
    BY <1>5, <1>6, ReadingStep
  <2> QED BY <2>1 DEF Stepped
<1>8. /\ Holds(q, p) /\ ListReady(q, kind) /\ OpenTokens(q) = OpenTokens(p) \cup {Len(p.toks) + 1}
  <2>1. "nil" \in V
    BY ReadingType
  <2>2. ValueReady(p)
    OBVIOUS
  <2> HIDE DEF p, q
  <2>3. Holds(q, p) /\ ListReady(q, kind) /\ OpenTokens(q) = OpenTokens(p) \cup {Len(q.toks)} /\ Len(q.toks) = Len(p.toks) + 1
    BY <1>7, <2>1, <2>2, OpenGood
  <2> QED BY <2>3
<1>9. Passes(at, o + 1, b) /\ Behind(r, q)
  BY <1>5, <1>8 DEF PartAt, e, b
<1>10. r \in ParserSet(V) /\ s = CloseContainer(r, kind)
  <2>1. r.rc = "OK"
    BY <1>9 DEF Behind, Back
  <2>2. r \in ParserSet(V) /\ Stepped(s, r, closer)
    BY <1>5, <2>1, ReadingStep
  <2> QED BY <2>2 DEF Stepped
<1>11. s \in ParserSet(V) /\ Back(s, p) /\ s.super = Inner(s)
  <2>1. "nil" \in V
    BY ReadingType
  <2> HIDE DEF p, q, r, s
  <2> QED BY <1>7, <1>9, <1>10, <2>1, CloseGood DEF p
<1>12. Ends(s, p)
  BY <1>11 DEF Ends, Back, Inner
<1>13. Passes(at, o, b + 1)
  <2>1. Passes(at, o, 1)
    BY <1>6, <1>7, <1>8, PassesOne
  <2>2. (o + 1) + b <= Len(T) /\ 1 + b = b + 1 /\ 1 \in Nat
    BY <1>0, <1>5 DEF e
  <2> QED BY <1>5, <1>9, <2>1, <2>2, PassesCat
<1>14. Passes(at, o, Len(c))
  <2>1. ASSUME NEW m \in 0..Len(c) PROVE Holds(at[o + m], p)
    <3>1. CASE m \in 0..(b + 1)
      BY <1>13, <3>1 DEF Passes
    <3>2. CASE m = Len(c)
      BY <1>5, <1>11, <3>2 DEF Holds, Back
    <3> QED BY <1>5, <3>1, <3>2
  <2> QED BY <2>1 DEF Passes
<1>15. Encloses(at, o, Len(c))
  <2>1. ASSUME NEW m \in 1..(Len(c) - 1) PROVE at[o + m].rc = "OK" /\ Len(p.toks) + 1 \in OpenTokens(at[o + m])
    <3> DEFINE k == m - 1
    <3>1. k \in 0..b /\ o + m = (o + 1) + k
      BY <1>5
    <3> HIDE DEF k
    <3>2. Holds(at[(o + 1) + k], q)
      BY <1>9, <3>1 DEF Passes
    <3> QED BY <1>8, <3>1, <3>2 DEF Holds
  <2> QED BY <2>1 DEF Encloses
<1> QED BY <1>5, <1>12, <1>14, <1>15

\* A text that is well nested, as a value or in a container.
Nested(V, t) == t \in Seq(Lexemes(V)) /\ \A T, at : Reading(V, T, at) => ValueAt(T, at, t)
NestedIn(V, t, kind) == t \in Seq(Lexemes(V)) /\ \A T, at : Reading(V, T, at) => PartAt(T, at, t, kind)

\* The ways in which the answers are put together.
LEMMA NestedOne ==
  ASSUME NEW V, NEW v \in V
  PROVE  Nested(V, <<Str(v)>>) /\ Nested(V, <<Prim(v)>>)
<1>1. Str(v) \in Lexemes(V) /\ Prim(v) \in Lexemes(V)
  BY DEF Lexemes
<1>2. <<Str(v)>> \in Seq(Lexemes(V)) /\ <<Prim(v)>> \in Seq(Lexemes(V))
  BY <1>1
<1>3. ASSUME NEW T, NEW at, Reading(V, T, at) PROVE ValueAt(T, at, <<Str(v)>>) /\ ValueAt(T, at, <<Prim(v)>>)
  <2>1. Str(v) \in {Str(v), Prim(v)} /\ Prim(v) \in {Str(v), Prim(v)}
    OBVIOUS
  <2> QED BY <1>3, <2>1, ValueOne
<1> QED BY <1>2, <1>3 DEF Nested

\* A member with a well nested value is a part of an object.
LEMMA NestedMember ==
  ASSUME NEW V, NEW key \in V, NEW t, Nested(V, t)
  PROVE  NestedIn(V, Member(key, t), "object")
<1>1. t \in Seq(Lexemes(V))
  BY DEF Nested
<1>2. Member(key, t) \in Seq(Lexemes(V))
  <2>1. Str(key) \in Lexemes(V) /\ Colon \in Lexemes(V)
    BY DEF Lexemes
  <2>2. <<Str(key), Colon>> \in Seq(Lexemes(V))
    BY <2>1
  <2> QED BY <1>1, <2>2 DEF Member
<1>3. ASSUME NEW T, NEW at, Reading(V, T, at) PROVE PartAt(T, at, Member(key, t), "object")
  <2>1. ValueAt(T, at, t)
    BY <1>3 DEF Nested
  <2> QED BY <1>1, <1>3, <2>1, MemberPart
<1> QED BY <1>2, <1>3 DEF NestedIn

\* A well nested value is a part of an array.
LEMMA NestedElement ==
  ASSUME NEW V, NEW t, Nested(V, t)
  PROVE  NestedIn(V, t, "array")
BY ElementPart DEF Nested, NestedIn

\* Every list of well nested texts, in its brackets.
LEMMA NestedList ==
  ASSUME NEW V, NEW kind \in {"object", "array"},
         NEW texts \in Seq(Seq(Lexemes(V))), \A i \in 1..Len(texts) : NestedIn(V, texts[i], kind)
  PROVE  /\ NestedIn(V, Commas(texts), kind)
         /\ kind = "object" => Nested(V, Object(texts))
         /\ kind = "array" => Nested(V, Array(texts))
<1> DEFINE L == Lexemes(V)
           body == Commas(texts)
<1>0. LBrace \in L /\ RBrace \in L /\ LBracket \in L /\ RBracket \in L /\ CommaLex \in L
  BY DEF Lexemes
<1>1. body \in Seq(L)
  <2>1. PICK upto : CommaRun(L, texts, upto)
    BY <1>0, CommasRun
  <2>2. Len(texts) \in 0..Len(texts)
    OBVIOUS
  <2> QED BY <2>1, <2>2 DEF CommaRun
<1>2. ASSUME NEW T, NEW at, Reading(V, T, at) PROVE PartAt(T, at, body, kind)
  <2>1. \A i \in 1..Len(texts) : PartAt(T, at, texts[i], kind)
    BY <1>2 DEF NestedIn
  <2> QED BY <1>2, <2>1, CommasPart
<1> HIDE DEF L, body
<1>3. /\ <<LBrace>> \o body \o <<RBrace>> \in Seq(L)
      /\ <<LBracket>> \o body \o <<RBracket>> \in Seq(L)
  <2>1. <<LBrace>> \in Seq(L) /\ <<RBrace>> \in Seq(L) /\ <<LBracket>> \in Seq(L) /\ <<RBracket>> \in Seq(L)
    BY <1>0
  <2> QED BY <1>1, <2>1
<1>4. ASSUME kind = "object" PROVE Nested(V, Object(texts))
  <2>1. Object(texts) = <<LBrace>> \o body \o <<RBrace>>
    BY DEF Object, body
  <2>2. ASSUME NEW T, NEW at, Reading(V, T, at) PROVE ValueAt(T, at, Object(texts))
    <3>1. PartAt(T, at, body, kind) /\ body \in Seq(Lexemes(V))
      BY <1>1, <1>2, <2>2 DEF L
    <3> QED BY <1>4, <2>1, <2>2, <3>1, ContainerValue
  <2> QED BY <1>3, <2>1, <2>2 DEF Nested, L
<1>5. ASSUME kind = "array" PROVE Nested(V, Array(texts))
  <2>1. Array(texts) = <<LBracket>> \o body \o <<RBracket>>
    BY DEF Array, body
  <2>2. ASSUME NEW T, NEW at, Reading(V, T, at) PROVE ValueAt(T, at, Array(texts))
    <3>1. PartAt(T, at, body, kind) /\ body \in Seq(Lexemes(V))
      BY <1>1, <1>2, <2>2 DEF L
    <3> QED BY <1>5, <2>1, <2>2, <3>1, ContainerValue
  <2> QED BY <1>3, <2>1, <2>2 DEF Nested, L
<1>6. NestedIn(V, body, kind)
  BY <1>1, <1>2 DEF NestedIn, L
<1> QED BY <1>4, <1>5, <1>6 DEF body

\* An answer that is one object: it is read to its end, and is open before.
Whole(V, T) ==
  /\ "nil" \in V /\ T \in Seq(Lexemes(V)) /\ Len(T) >= 1 /\ T[1] = LBrace
  /\ \A v : T[Len(T)] # Prim(v)
  /\ \A m \in 1..(Len(T) - 1) : Loop(T)[m].rc = "OK" /\ OpenTokens(Loop(T)[m]) # {}
  /\ Loop(T)[Len(T)].rc = "OK" /\ OpenTokens(Loop(T)[Len(T)]) = {}

\* An object whose members are well nested is open up to its last lexeme and
\* closed by it, and jsmn_parse() reads it without an error.
THEOREM ObjectWhole ==
  ASSUME NEW V, "nil" \in V,
         NEW texts \in Seq(Seq(Lexemes(V))), \A i \in 1..Len(texts) : NestedIn(V, texts[i], "object")
  PROVE  Whole(V, Object(texts))
<1> DEFINE L == Lexemes(V)
           body == Commas(texts)
           d == <<LBrace>> \o body
           T == Object(texts)
           at == Loop(T)
           N == Len(T)
<1>1. NestedIn(V, body, "object")
  BY NestedList
<1>2. body \in Seq(L) /\ LBrace \in L /\ RBrace \in L
  BY <1>1 DEF NestedIn, Lexemes
<1>3. T = d \o <<RBrace>>
  BY DEF Object
<1> HIDE DEF body, L, T
<1>4. d \in Seq(L) /\ Len(d) = Len(body) + 1 /\ d[1] = LBrace /\ Len(d) \in Nat /\ Len(d) >= 1
  <2>1. <<LBrace>> \in Seq(L) /\ Len(<<LBrace>>) = 1 /\ <<LBrace>>[1] = LBrace /\ Len(body) \in Nat
    BY <1>2
  <2> QED BY <1>2, <2>1
<1> HIDE DEF d
<1>5. T \in Seq(L) /\ N = Len(d) + 1 /\ T[1] = LBrace /\ T[N] = RBrace /\ N \in Nat /\ N >= 2
  <2>1. <<RBrace>> \in Seq(L) /\ Len(<<RBrace>>) = 1 /\ <<RBrace>>[1] = RBrace
    BY <1>2
  <2> QED BY <1>3, <1>4, <2>1
<1>6. \A v : T[N] # Prim(v)
  BY <1>5 DEF RBrace, Prim
<1>7. Reading(V, T, at)
  BY <1>5, <1>6, LoopRuns DEF Reading, L
<1>8. PartAt(T, at, body, "object")
  BY <1>1, <1>7 DEF NestedIn
<1>9. Stands(T, 0, T)
  BY <1>5 DEF Stands
<1>10. at[0] = Start /\ ValueReady(at[0])
  <2>1. at[0] = Start
    BY <1>7 DEF Reading, Runs
  <2>2. Start.rc = "OK" /\ Start.super = 0 /\ Inner(Start) = 0
    BY StartType DEF Start
  <2> QED BY <2>1, <2>2 DEF ValueReady
<1>11. ValueAt(T, at, T) /\ Encloses(at, 0, N)
  <2>1. T = <<LBrace>> \o body \o <<RBrace>>
    BY DEF T, Object, body
  <2>2. body \in Seq(Lexemes(V))
    BY <1>2 DEF L
  <2> HIDE DEF at
  <2>3. /\ ValueAt(T, at, T)
        /\ \A o \in Nat : Stands(T, o, T) /\ ValueReady(at[o]) => Encloses(at, o, Len(T))
    BY <1>7, <1>8, <2>1, <2>2, ContainerValue
  <2> QED BY <1>9, <1>10, <2>3
<1>12. Ends(at[N], at[0])
  <2>1. 0 + N = N /\ 0 \in Nat
    BY <1>5
  <2> QED BY <1>9, <1>10, <1>11, <2>1 DEF ValueAt
<1>13. at[N].rc = "OK" /\ OpenTokens(at[N]) = {}
  BY <1>10, <1>12, StartType DEF Ends, Back
<1>14. ASSUME NEW m \in 1..(N - 1) PROVE at[m].rc = "OK" /\ OpenTokens(at[m]) # {}
  <2>1. 0 + m = m
    BY <1>5
  <2> QED BY <1>11, <2>1 DEF Encloses
<1>15. Whole(V, T)
  BY <1>5, <1>6, <1>13, <1>14 DEF Whole, L
<1> QED BY <1>15 DEF T

\* Every token is written.
Written(toks) == \A k \in 1..Len(toks) : toks[k].type # "uninit"

\* When nothing fails the tokens are those that the first pass has counted.
LEMMA Exact ==
  ASSUME NEW V, "nil" \in V, NEW text \in Seq(Lexemes(V)), Loop(text)[Len(text)].rc = "OK"
  PROVE  /\ Written(Fill(text).toks)
         /\ ParseJson(text) = IF ~Lexical(text) \/ Counted(text) = {} THEN <<>> ELSE Fill(text).toks
<1> DEFINE N == Len(text)
           at == Loop(text)
           toks == Fill(text).toks
           n == Cardinality(Counted(text))
<1>1. Runs(V, text, at) /\ N \in 0..N /\ N \in Nat
  BY LoopRuns
<1>2. toks = at[N].toks /\ toks \in Seq(TokenSet(V)) /\ Len(toks) \in Nat
  BY FillFacts, ParserParts
<1> HIDE DEF at, toks
<1>3. FromText(text, at, N)
  BY <1>1, WroteExists
<1>4. ASSUME NEW k \in 1..Len(toks) PROVE toks[k].type # "uninit"
  <2>0. at[N].rc = "OK"
    BY DEF at
  <2>1. PICK i \in 1..N : Wrote(text, at, k, i)
    BY <1>2, <1>3, <2>0 DEF FromText
  <2>2. N \in i..N /\ text[i] \in Lexemes(V)
    BY <1>1
  <2>3. Writes(toks[k], text[i])
    BY <1>1, <1>2, <2>1, <2>2, WroteStays
  <2>4. IsCounted(text[i])
    BY <2>1 DEF Wrote
  <2> QED BY <2>2, <2>3, <2>4, WritesIs
<1>5. Len(toks) = n /\ n \in Nat
  <2>1. at[N].rc = "OK"
    BY DEF at
  <2>2. Counted(text) \cap 1..N = Counted(text)
    BY DEF Counted
  <2>3. Len(at[N].toks) = Cardinality(Counted(text) \cap 1..N)
    BY <1>1, <2>1, CountIs
  <2> QED BY <1>2, <2>2, <2>3
<1>6. Allocated(toks, n) = toks
  <2> HIDE DEF n
  <2> DEFINE pad == [i \in 1..(n - Len(toks)) |-> Uninit]
  <2>1. Allocated(toks, n) = toks \o pad
    BY DEF Allocated
  <2>2. pad = <<>>
    BY <1>5
  <2>3. toks \o <<>> = toks
    BY <1>2
  <2> QED BY <2>1, <2>2, <2>3
<1>7. ParseJson(text) = IF ~Lexical(text) \/ Counted(text) = {} THEN <<>> ELSE Allocated(toks, n)
  BY DEF ParseJson, toks
<1> QED BY <1>4, <1>6, <1>7 DEF Written, toks

\* Only a primitive is read in another way at the end of the text.
LEMMA TurnLast ==
  ASSUME NEW V, NEW p, NEW lex \in Lexemes(V), \A v : lex # Prim(v), NEW l, NEW m
  PROVE  Turn(p, lex, l) = Turn(p, lex, m)
<1>1. Step(p, lex, l) = Step(p, lex, m)
  <2>1. CASE lex = LBrace
    BY <2>1, StepIs
  <2>2. CASE lex = RBrace
    BY <2>2, StepIs
  <2>3. CASE lex = LBracket
    BY <2>3, StepIs
  <2>4. CASE lex = RBracket
    BY <2>4, StepIs
  <2>5. CASE lex = Colon
    BY <2>5, StepIs
  <2>6. CASE lex = CommaLex
    BY <2>6, StepIs
  <2>7. CASE lex = Cut
    BY <2>7, StepIs
  <2>8. CASE lex = Bad
    BY <2>8, StepIs
  <2>9. ASSUME NEW v \in V, lex = Str(v) PROVE Step(p, lex, l) = Step(p, lex, m)
    BY <2>9, StepValueIs
  <2> QED BY <2>1, <2>2, <2>3, <2>4, <2>5, <2>6, <2>7, <2>8, <2>9, LexemeKinds
<1> QED BY <1>1 DEF Turn

\* The beginning of a text is read as in the whole text.
LEMMA LoopBegins ==
  ASSUME NEW V, "nil" \in V, NEW T \in Seq(Lexemes(V)), NEW t \in Seq(Lexemes(V)), Begins(t, T), Len(t) < Len(T),
         NEW m \in 0..Len(t), m < Len(t) \/ \A v : t[m] # Prim(v)
  PROVE  Loop(t)[m] = Loop(T)[m]
<1> DEFINE N == Len(t)
           at == Loop(t)
           all == Loop(T)
           I == {k \in 0..N : k < N \/ (\A v : t[k] # Prim(v)) => at[k] = all[k]}
<1>1. Runs(V, t, at) /\ Runs(V, T, all) /\ N \in Nat /\ Len(T) \in Nat
  BY LoopRuns
<1> HIDE DEF at, all
<1>2. 0 \in I
  <2>1. at[0] = Start /\ all[0] = Start
    BY <1>1 DEF Runs
  <2> QED BY <1>1, <2>1
<1>3. ASSUME NEW k \in 0..(N - 1), k \in I PROVE k + 1 \in I
  <2>0. /\ k + 1 \in 1..N /\ k + 1 \in 0..N /\ k + 1 \in 1..Len(T) /\ (k + 1) - 1 = k /\ k < N
        /\ k + 1 # Len(T) /\ k + 1 <= N
    BY <1>1
  <2>1. at[k] = all[k]
    BY <1>3, <2>0
  <2>2. t[k + 1] = T[k + 1] /\ t[k + 1] \in Lexemes(V)
    BY <2>0 DEF Begins
  <2> DEFINE x == k + 1 = N
             y == k + 1 = Len(T)
  <2>3. at[k + 1] = Turn(at[k], t[k + 1], x) /\ all[k + 1] = Turn(at[k], t[k + 1], y)
    BY <1>1, <2>0, <2>1, <2>2 DEF Runs
  <2>4. CASE \A v : t[k + 1] # Prim(v)
    <3> HIDE DEF x, y
    <3>1. Turn(at[k], t[k + 1], x) = Turn(at[k], t[k + 1], y)
      BY <2>2, <2>4, TurnLast
    <3>2. at[k + 1] = all[k + 1]
      BY <2>3, <3>1
    <3> QED BY <2>0, <3>2
  <2>5. CASE ~(\A v : t[k + 1] # Prim(v)) /\ k + 1 < N
    <3>1. x = FALSE /\ y = FALSE
      BY <1>1, <2>0, <2>5
    <3> HIDE DEF x, y
    <3>2. at[k + 1] = all[k + 1]
      BY <2>3, <3>1
    <3> QED BY <2>0, <3>2
  <2>6. CASE ~(\A v : t[k + 1] # Prim(v)) /\ k + 1 = N
    BY <1>1, <2>0, <2>6
  <2> QED BY <1>1, <2>0, <2>4, <2>5, <2>6
<1> HIDE DEF I, N
<1>4. \A k \in 0..N : k \in I
  BY <1>1, <1>2, <1>3, Upto
<1> QED BY <1>4 DEF I, N, at, all

\* A text that is cut has all its tokens written, and get_tokens() refuses it.
LEMMA CutWritten ==
  ASSUME NEW V, NEW T, Whole(V, T), NEW t \in Seq(Lexemes(V)), Begins(t, T), Len(t) < Len(T)
  PROVE  GetTokens(t) = <<>> /\ Written(ParseJson(t))
<1> DEFINE N == Len(t)
           p == Loop(t)[N]
<1>1. "nil" \in V /\ T \in Seq(Lexemes(V)) /\ N \in Nat /\ N \in 0..N /\ Len(T) \in Nat
  BY DEF Whole
<1>2. /\ p \in ParserSet(V) /\ Fill(t).toks = p.toks
      /\ Fill(t).rc = "OK" <=> p.rc = "OK" /\ OpenTokens(p) = {}
  BY <1>1, FillFacts
<1>e. Written(<<>>)
  BY DEF Written
<1>3. CASE N = 0
  <2>1. p = Start
    BY <1>1, <1>3, LoopRuns DEF Runs
  <2>2. Fill(t).toks = <<>>
    BY <1>2, <2>1 DEF Start
  <2>3. GetTokens(t) = <<>>
    BY <2>2 DEF GetTokens, ObjectTokens
  <2>4. Counted(t) = {}
    BY <1>3 DEF Counted
  <2>5. ParseJson(t) = <<>>
    BY <2>4 DEF ParseJson
  <2> QED BY <1>e, <2>3, <2>5
<1>4. CASE N # 0 /\ \A v : t[N] # Prim(v)
  <2>1. p = Loop(T)[N]
    BY <1>1, <1>4, LoopBegins
  <2>2. N \in 1..(Len(T) - 1)
    BY <1>1, <1>4
  <2>3. p.rc = "OK" /\ OpenTokens(p) # {}
    BY <2>1, <2>2 DEF Whole
  <2>4. GetTokens(t) = <<>>
    BY <1>2, <2>3 DEF GetTokens, ObjectTokens
  <2>5. Written(ParseJson(t))
    BY <1>1, <1>e, <2>3, Exact
  <2> QED BY <2>4, <2>5
<1>5. ASSUME N # 0, NEW v, t[N] = Prim(v) PROVE GetTokens(t) = <<>> /\ Written(ParseJson(t))
  <2>1. ~Lexical(t)
    <3>1. t[N][1] = "prim" /\ t # <<>>
      BY <1>5 DEF Prim
    <3> QED BY <3>1 DEF Lexical
  <2>2. ParseJson(t) = <<>>
    BY <2>1 DEF ParseJson
  <2>3. p.rc # "OK"
    <3> DEFINE q == Loop(t)[N - 1]
               last == N = Len(t)
    <3>0. N \in 1..Len(t) /\ Runs(V, t, Loop(t)) /\ last = TRUE
      BY <1>1, <1>5, LoopRuns
    <3>1. q \in ParserSet(V) /\ (q.rc = "OK" => p = Step(q, t[N], last)) /\ (q.rc # "OK" => p = q)
      BY <1>1, <3>0, RunsStep
    <3> HIDE DEF p, q, last
    <3>2. q.rc = "OK" => p = Primitive(q, v, TRUE)
      BY <1>5, <3>0, <3>1, StepValueIs
    <3>3. Fail(q, "INVAL").rc = "INVAL" /\ Fail(q, "PART").rc = "PART"
      BY <3>1, FailFacts DEF Codes
    <3> QED BY <3>1, <3>2, <3>3 DEF Primitive
  <2>4. GetTokens(t) = <<>>
    BY <1>2, <2>3 DEF GetTokens, ObjectTokens
  <2> QED BY <1>e, <2>2, <2>4
<1> QED BY <1>3, <1>4, <1>5

\* The whole text has a token for each lexeme that is counted.
LEMMA WholeTokens ==
  ASSUME NEW V, NEW T, Whole(V, T)
  PROVE  LET toks == Loop(T)[Len(T)].toks IN
         /\ GetTokens(T) = toks /\ ParseJson(T) = toks /\ Written(toks) /\ Len(toks) \in Nat \ {0} /\ toks[1].type = "object"
         /\ \A i \in 1..Len(T) : IsCounted(T[i]) => Wrote(T, Loop(T), Len(Loop(T)[i].toks), i)
<1> DEFINE N == Len(T)
           at == Loop(T)
           toks == at[N].toks
<1>1. "nil" \in V /\ T \in Seq(Lexemes(V)) /\ N \in Nat /\ N >= 1 /\ T[1] = LBrace /\ Runs(V, T, at)
  BY LoopRuns DEF Whole
<1>2. at[N].rc = "OK" /\ OpenTokens(at[N]) = {}
  BY DEF Whole
<1>3. Fill(T).rc = "OK" /\ Fill(T).toks = toks /\ Len(toks) \in Nat /\ at[N] \in ParserSet(V)
  BY <1>1, <1>2, FillFacts, ParserParts
<1>4. Written(toks) /\ ParseJson(T) = IF ~Lexical(T) \/ Counted(T) = {} THEN <<>> ELSE toks
  BY <1>1, <1>2, <1>3, Exact
<1> HIDE DEF at
<1>5. ASSUME NEW i \in 1..N PROVE at[i].rc = "OK"
  <2>1. N \in i..N /\ i \in 0..N
    BY <1>1
  <2>2. Later(at[N], at[i])
    BY <1>1, <2>1, RunsLater
  <2> QED BY <1>2, <2>2 DEF Later
<1>6. ASSUME NEW i \in 1..N, IsCounted(T[i]) PROVE Wrote(T, at, Len(at[i].toks), i)
  BY <1>1, <1>5, <1>6, WroteForward
<1>7. Len(toks) # 0 /\ toks[1].type = "object"
  <2>1. 1 \in 1..N /\ N \in 1..N
    BY <1>1
  <2>2. Wrote(T, at, Len(at[1].toks), 1)
    BY <1>1, <1>6, <2>1, LexFacts
  <2>3. Len(at[1].toks) - 1 = 0
    <3>1. at[1 - 1] = Start /\ Start.toks = <<>>
      BY <1>1 DEF Runs, Start
    <3>2. Len(at[1 - 1].toks) = 0
      BY <3>1
    <3> QED BY <2>2, <3>2 DEF Wrote
  <2>4. Len(at[1].toks) = 1
    BY <2>2, <2>3 DEF Wrote
  <2>5. 1 \in 1..Len(toks) /\ Writes(toks[1], T[1])
    BY <1>1, <2>1, <2>2, <2>4, WroteStays
  <2> QED BY <1>1, <1>3, <2>5, LexFacts DEF Writes
<1>8. Lexical(T) /\ Counted(T) # {}
  <2>1. 1 \in Counted(T)
    BY <1>1 DEF Counted, LBrace
  <2>2. T # <<>> /\ T[N][1] # "prim"
    <3>1. T[N] \in Lexemes(V)
      BY <1>1
    <3>2. T[N] = LBrace \/ T[N] = RBrace \/ T[N] = LBracket \/ T[N] = RBracket \/ T[N] = Colon \/ T[N] = CommaLex
          \/ T[N] = Cut \/ T[N] = Bad \/ \E v \in V : T[N] = Str(v)
      BY <3>1, LexemeKinds DEF Whole
    <3>3. T # <<>>
      BY <1>1
    <3> QED BY <3>2, <3>3 DEF LBrace, RBrace, LBracket, RBracket, Colon, CommaLex, Cut, Bad, Str
  <2>3. ASSUME NEW i \in 1..N, T[i] \in {Cut, Bad} PROVE FALSE
    <3> DEFINE q == at[i - 1]
               last == i = Len(T)
    <3>1. q \in ParserSet(V) /\ (q.rc = "OK" => at[i] = Step(q, T[i], last)) /\ (q.rc # "OK" => at[i] = q)
      BY <1>1, RunsStep
    <3> HIDE DEF q, last
    <3>2. q.rc = "OK" => at[i] = Fail(q, "PART") \/ at[i] = Fail(q, "INVAL")
      BY <2>3, <3>1, StepIs
    <3>3. Fail(q, "INVAL").rc = "INVAL" /\ Fail(q, "PART").rc = "PART"
      BY <3>1, FailFacts DEF Codes
    <3> QED BY <1>5, <3>1, <3>2, <3>3
  <2>4. DOMAIN T = 1..N
    BY <1>1
  <2> QED BY <2>1, <2>2, <2>3, <2>4 DEF Lexical
<1>9. GetTokens(T) = toks
  <2>1. toks # <<>>
    BY <1>7
  <2> QED BY <1>3, <1>7, <2>1 DEF GetTokens, ObjectTokens
<1> QED BY <1>3, <1>4, <1>6, <1>7, <1>8, <1>9 DEF at

\* Only a closing bracket too many leaves tokens of parse_json() unwritten: a cut
\* answer does not.  get_tokens() takes whole answers only.
THEOREM ArrivesWritten ==
  ASSUME NEW V, NEW T, Whole(V, T), NEW a \in Arrives(T)
  PROVE  /\ a[1] # "stray" => Written(ParseJson(a[2]))
         /\ a[1] # "whole" => GetTokens(a[2]) = <<>>
         /\ a[1] = "whole" => a[2] = T
<1> DEFINE t == a[2]
<1>1. "nil" \in V /\ T \in Seq(Lexemes(V))
  BY DEF Whole
<1>2. /\ t \in Seq(Lexemes(V)) /\ Len(t) \in Nat
      /\ \/ a[1] = "whole" /\ t = T
         \/ a[1] = "stray" /\ Len(t) >= 1 /\ t[1] = RBrace
         \/ a[1] = "cut" /\ Len(t) < Len(T) /\ Begins(t, T)
         \/ a[1] = "cut" /\ Len(t) >= 1 /\ t[Len(t)] = Cut
  BY <1>1, ArrivesKinds
<1> HIDE DEF t
<1>3. CASE a[1] = "whole" /\ t = T
  BY <1>3, WholeTokens DEF t
<1>4. CASE a[1] = "stray" /\ Len(t) >= 1 /\ t[1] = RBrace
  <2>1. FromLex(t, Fill(t).toks)
    BY <1>1, <1>2, FillFromLex
  <2>2. Fill(t).rc # "OK"
    BY <1>1, <1>2, <1>4, <2>1, StrayTokens
  <2>3. GetTokens(t) = <<>>
    BY <2>2 DEF GetTokens, ObjectTokens
  <2> QED BY <1>4, <2>3 DEF t
<1>5. CASE a[1] = "cut" /\ Len(t) < Len(T) /\ Begins(t, T)
  BY <1>2, <1>5, CutWritten DEF t
<1>6. CASE a[1] = "cut" /\ Len(t) >= 1 /\ t[Len(t)] = Cut
  <2>1. ParseJson(t) = <<>> /\ GetTokens(t) = <<>>
    BY <1>1, <1>2, <1>6, CutTokens
  <2>2. Written(<<>>)
    BY DEF Written
  <2> QED BY <1>6, <2>1, <2>2 DEF t
<1> QED BY <1>2, <1>3, <1>4, <1>5, <1>6

\* Then no search reads an unwritten token.
LEMMA NoWild ==
  ASSUME NEW S, NEW toks \in Seq(S), Written(toks), NEW key
  PROVE  CheckSuccess(toks, 0).wild = FALSE /\ ResultValue(toks, key, 0).wild = FALSE
<1>0. Uninit.type = "uninit" /\ Len(toks) \in Nat
  BY DEF Uninit
<1>1. \A k \in 1..Len(toks) : toks[k] # Uninit
  BY <1>0 DEF Written
<1> DEFINE At(i) == IF 0 + i + 1 <= Len(toks) THEN toks[0 + i + 1] ELSE Uninit
           last  == Len(toks) - 1
           hits  == {i \in 1..last : IsString(At(i), "success")}
           first == Min(hits)
           read  == IF hits = {} THEN 1..last ELSE 1..(IF first < last THEN first + 1 ELSE first)
<1>2. \A i \in 1..last : At(i) # Uninit
  <2>1. ASSUME NEW i \in 1..last PROVE 0 + i + 1 \in 1..Len(toks)
    BY <1>0
  <2> QED BY <1>1, <2>1
<1> HIDE DEF At
<1>3. read \subseteq 1..last
  <2>1. CASE hits = {}
    BY <2>1
  <2>2. CASE hits # {}
    <3>1. hits \in SUBSET Nat
      BY <1>0
    <3>2. first \in hits
      <4> HIDE DEF hits
      <4> QED BY <2>2, <3>1, MinOfNats
    <3>3. first \in 1..last /\ last \in Int
      BY <1>0, <3>2
    <3> HIDE DEF first, last, hits
    <3>4. (IF first < last THEN first + 1 ELSE first) \in 1..last
      BY <3>3
    <3> QED BY <2>2, <3>3, <3>4
  <2> QED BY <2>1, <2>2
<1> HIDE DEF read
<1>4. CheckSuccess(toks, 0).wild = \E i \in read : At(i) = Uninit
  BY DEF CheckSuccess, read, At
<1>5. CheckSuccess(toks, 0).wild = FALSE
  BY <1>2, <1>3, <1>4
<1>6. ResultValue(toks, key, 0).wild = FALSE
  <2> DEFINE c == CheckSuccess(toks, 0)
  <2>1. ResultValue(toks, key, 0) = ValueOf(toks, key, c) /\ c.wild = FALSE
    BY <1>5 DEF ResultValue
  <2> HIDE DEF c
  <2>2. Uninit \notin ToSet(toks)
    BY <1>1 DEF ToSet
  <2>3. toks # <<>> => toks[1] # Uninit
    BY <1>1
  <2>4. (Uninit \in ToSet(toks)) = FALSE
    BY <2>2
  <2> DEFINE r == ResultValue(toks, key, 0)
             hits2 == {i \in 2..(Len(toks) - 1) : IsString(toks[i], key)}
  <2> HIDE DEF r
  <2>5. \/ r = [found |-> FALSE, tok |-> Uninit, wild |-> FALSE]
        \/ r = [found |-> TRUE, tok |-> toks[Min(hits2) + 1], wild |-> FALSE]
    BY <2>1, <2>3, <2>4, Zenon DEF ValueOf, r
  <2>6. r.wild = FALSE
    <3> HIDE DEF hits2
    <3> QED BY <2>5
  <2> QED BY <2>6 DEF r
<1> QED BY <1>5, <1>6

\* In the whole text each key has its value.
KeyComplete(toks, key, vals) ==
  \A k \in 1..Len(toks) : IsString(toks[k], key) =>
    k + 1 \in 1..Len(toks) /\ \E s \in vals : Writes(toks[k + 1], s)

\* In a whole text every key that was read has its value behind it.
LEMMA KeyFull ==
  ASSUME NEW V, NEW T, Whole(V, T), NEW key, NEW vals, KeyHas(T, key, vals), \A s \in vals : IsCounted(s)
  PROVE  KeyComplete(ParseJson(T), key, vals)
<1> DEFINE toks == Loop(T)[Len(T)].toks
           at == Loop(T)
           N == Len(T)
<1>1. "nil" \in V /\ T \in Seq(Lexemes(V)) /\ N \in Nat /\ Runs(V, T, at)
  BY LoopRuns DEF Whole
<1>2. /\ ParseJson(T) = toks /\ Written(toks) /\ Len(toks) \in Nat
      /\ \A i \in 1..N : IsCounted(T[i]) => Wrote(T, at, Len(at[i].toks), i)
  BY WholeTokens
<1>3. FromLex(T, toks) /\ Begins(T, T)
  BY <1>1, <1>2, FillFromLex DEF Begins
<1> HIDE DEF toks, at
<1>4. ASSUME NEW k \in 1..Len(toks), IsString(toks[k], key)
      PROVE  k + 1 \in 1..Len(toks) /\ \E s \in vals : Writes(toks[k + 1], s)
  <2>1. PICK i \in 1..N : Wrote(T, at, k, i) /\ Writes(toks[k], T[i])
    BY <1>2, <1>3, <1>4 DEF FromLex, Written, at
  <2>2. T[i] \in Lexemes(V) /\ IsCounted(T[i]) /\ toks[k].type = "string" /\ toks[k].v = key
    BY <1>1, <1>4, <2>1 DEF Wrote, IsString
  <2>3. T[i] = Str(key)
    BY <2>1, <2>2, WritesIs
  <2>4. i + 2 <= N /\ T[i + 2] \in vals
    BY <2>3 DEF KeyHas
  <2>5. i + 2 \in 1..N /\ (i + 2) - 1 = i + 1 /\ i + 1 \in i..N /\ N \in (i + 2)..N
    BY <1>1, <2>4
  <2>6. Wrote(T, at, Len(at[i + 2].toks), i + 2)
    BY <1>2, <2>4, <2>5
  <2> DEFINE l == Len(at[i + 2].toks)
  <2>7. l \in 1..Len(toks)
    BY <1>1, <2>5, <2>6, WroteStays DEF toks, at
  <2>8. k \in 1..Len(at[i + 1].toks)
    BY <1>1, <2>1, <2>5, WroteStays
  <2>9. Len(at[i + 1].toks) = l - 1
    BY <2>5, <2>6 DEF Wrote
  <2> HIDE DEF l
  <2>10. k + 1 \in 1..Len(toks)
    BY <1>2, <2>7, <2>8, <2>9
  <2>11. toks[k + 1].type # "uninit"
    BY <1>2, <2>10 DEF Written
  <2> QED BY <1>1, <1>3, <1>4, <2>10, <2>11, KeyValue
<1> QED BY <1>2, <1>4 DEF KeyComplete

\* A string of the whole text is a token; it is not the first.
LEMMA KeyThere ==
  ASSUME NEW V, NEW T, Whole(V, T), NEW j \in 1..Len(T), NEW key, T[j] = Str(key)
  PROVE  LET toks == ParseJson(T) IN
         /\ \E k \in 2..Len(toks) : IsString(toks[k], key)
         /\ j = 2 => 2 \in 1..Len(toks) /\ IsString(toks[2], key)
<1> DEFINE toks == Loop(T)[Len(T)].toks
           at == Loop(T)
           N == Len(T)
           k == Len(at[j].toks)
<1>1. "nil" \in V /\ T \in Seq(Lexemes(V)) /\ N \in Nat /\ Runs(V, T, at) /\ T[1] = LBrace /\ N >= 1
  BY LoopRuns DEF Whole
<1>2. /\ ParseJson(T) = toks /\ Len(toks) \in Nat /\ toks[1].type = "object"
      /\ \A i \in 1..N : IsCounted(T[i]) => Wrote(T, at, Len(at[i].toks), i)
  BY WholeTokens
<1>3. Wrote(T, at, k, j) /\ N \in j..N
  BY <1>1, <1>2, LexFacts
<1>4. k \in 1..Len(toks) /\ Writes(toks[k], Str(key))
  BY <1>1, <1>3, WroteStays
<1>5. IsString(toks[k], key)
  BY <1>4, LexFacts DEF IsString, Writes
<1>6. k # 1
  BY <1>2, <1>5 DEF IsString
<1>7. ASSUME j = 2 PROVE k = 2
  <2> HIDE DEF at, k, toks
  <2>1. 1 \in 1..N /\ 1 \in 0..N /\ 2 - 1 = 1 /\ 1 - 1 = 0
    BY <1>1
  <2>2. at[0] = Start /\ Start.toks = <<>>
    BY <1>1 DEF Runs, Start
  <2>3. Len(at[0].toks) = 0
    BY <2>2
  <2>4. Wrote(T, at, Len(at[1].toks), 1)
    BY <1>1, <1>2, <2>1, LexFacts DEF at
  <2> DEFINE x == Len(at[1].toks)
             y == Len(at[0].toks)
  <2>5. x \in Nat /\ y = x - 1 /\ y = 0
    BY <2>1, <2>3, <2>4 DEF Wrote
  <2>6. x = k - 1 /\ k \in Nat
    BY <1>3, <1>7, <2>1 DEF Wrote
  <2> HIDE DEF x, y
  <2>7. x = 1
    BY <2>5
  <2> QED BY <2>6, <2>7
<1> HIDE DEF k, toks
<1>8. k \in 2..Len(toks)
  BY <1>2, <1>4, <1>6
<1> QED BY <1>2, <1>4, <1>5, <1>7, <1>8

\* The searches find what is there.
LEMMA SuccessRead ==
  ASSUME NEW S, NEW toks \in Seq(S), NEW from \in {0, 1}, KeyComplete(toks, "success", {Prim("true")}),
         NEW k \in (2 + from)..Len(toks), IsString(toks[k], "success")
  PROVE  CheckSuccess(toks, from).ok
<1> DEFINE At(i) == IF from + i + 1 <= Len(toks) THEN toks[from + i + 1] ELSE Uninit
           last  == Len(toks) - 1
           hits  == {i \in 1..last : IsString(At(i), "success")}
           first == Min(hits)
<1>0. Len(toks) \in Nat /\ from \in Nat
  OBVIOUS
<1>1. k - from - 1 \in hits
  <2>1. k - from - 1 \in 1..last /\ from + (k - from - 1) + 1 = k /\ k <= Len(toks)
    BY <1>0
  <2> QED BY <2>1
<1>2. hits \in SUBSET Nat
  BY <1>0
<1>3. first \in hits
  <2> HIDE DEF hits
  <2> QED BY <1>1, <1>2, MinOfNats
<1> HIDE DEF first
<1>4. first \in 1..last /\ IsString(At(first), "success")
  BY <1>3
<1>5. from + first + 1 <= Len(toks) /\ IsString(toks[from + first + 1], "success")
  <2>1. Uninit.type = "uninit"
    BY DEF Uninit
  <2> QED BY <1>4, <2>1 DEF IsString
<1> DEFINE n == from + first + 1
<1>6. n \in 1..Len(toks)
  BY <1>0, <1>4, <1>5
<1> HIDE DEF n
<1>7. n + 1 \in 1..Len(toks) /\ Writes(toks[n + 1], Prim("true"))
  BY <1>5, <1>6 DEF KeyComplete, n
<1>8. toks[n + 1].type = "primitive" /\ toks[n + 1].v = "true"
  BY <1>7, LexFacts DEF Writes
<1>9. first < last /\ from + (first + 1) + 1 = n + 1 /\ from + (first + 1) + 1 <= Len(toks)
  BY <1>0, <1>4, <1>7 DEF n
<1>10. At(first + 1) = toks[n + 1]
  BY <1>9
<1>11. CheckSuccess(toks, from).ok <=> hits # {} /\ first < last /\ At(first + 1).type = "primitive" /\ At(first + 1).v = "true"
  BY DEF CheckSuccess, first
<1> QED BY <1>1, <1>8, <1>9, <1>10, <1>11

\* A search that finds the key finds a value of it.
LEMMA ValueRead ==
  ASSUME NEW S, NEW toks \in Seq(S), NEW from, CheckSuccess(toks, from).ok, NEW key, NEW vals,
         KeyComplete(toks, key, vals), Written(toks), Len(toks) >= 1, toks[1].type = "object",
         NEW k \in 2..Len(toks), IsString(toks[k], key)
  PROVE  ResultValue(toks, key, from).found /\ \E s \in vals : Writes(ResultValue(toks, key, from).tok, s)
<1> DEFINE c == CheckSuccess(toks, from)
           hits == {i \in 2..(Len(toks) - 1) : IsString(toks[i], key)}
           x == ResultValue(toks, key, from)
           m == Min(hits)
<1>0. Len(toks) \in Nat /\ 1 \in 1..Len(toks) /\ toks # <<>>
  OBVIOUS
<1>1. k \in hits
  <2>1. k \in 1..Len(toks)
    BY <1>0
  <2>2. k + 1 \in 1..Len(toks)
    BY <2>1 DEF KeyComplete
  <2>3. k \in 2..(Len(toks) - 1)
    BY <1>0, <2>2
  <2> QED BY <2>3
<1>2. x = ValueOf(toks, key, c) /\ c.ok
  BY DEF ResultValue
<1>3. toks[1] # Uninit
  BY <1>0 DEF Uninit
<1> HIDE DEF c
<1>4. x = [found |-> TRUE, tok |-> toks[m + 1], wild |-> c.wild]
  BY <1>0, <1>1, <1>2, <1>3 DEF ValueOf
<1>5. m \in hits
  <2>1. hits \in SUBSET Nat
    BY <1>0
  <2> HIDE DEF hits
  <2> QED BY <1>1, <2>1, MinOfNats
<1> HIDE DEF m, x
<1>6. m \in 1..Len(toks) /\ IsString(toks[m], key)
  BY <1>0, <1>5
<1>7. PICK s \in vals : Writes(toks[m + 1], s)
  BY <1>6 DEF KeyComplete
<1> QED BY <1>4, <1>7 DEF x

\* "success" with "ok" behind it is found.
LEMMA OkRead ==
  ASSUME NEW S, NEW toks \in Seq(S), KeyComplete(toks, "success", {Str("ok")}),
         NEW k \in 2..Len(toks), IsString(toks[k], "success")
  PROVE  HasSuccess(toks)
<1>0. Len(toks) \in Nat /\ k \in 1..Len(toks)
  OBVIOUS
<1>1. k + 1 \in 1..Len(toks) /\ Writes(toks[k + 1], Str("ok"))
  BY <1>0 DEF KeyComplete
<1>2. k \in 2..(Len(toks) - 1) /\ IsString(toks[k + 1], "ok")
  BY <1>0, <1>1, LexFacts DEF IsString, Writes
<1> QED BY <1>2 DEF HasSuccess, OkBehind

=============================================================================
