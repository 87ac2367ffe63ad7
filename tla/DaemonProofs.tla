---------------------------- MODULE DaemonProofs ----------------------------
(***************************************************************************)
(* Theorems about Daemon that hold for every order in which the            *)
(* constructors of the plugin files may run, for every configuration file, *)
(* and for any number of restarts and failed calls.                        *)
(***************************************************************************)
EXTENDS Daemon, TLAPS, FiniteSetTheorems, SequenceTheorems

-----------------------------------------------------------------------------
(* Facts about sequences *)

\* A set of positions has a first one.
LEMMA MinOfNats ==
  ASSUME NEW T \in SUBSET Nat, T # {}
  PROVE  Min(T) \in T /\ \A x \in T : Min(T) <= x
<1> DEFINE less == {p \in Nat \X Nat : p[1] < p[2]}
<1>1. IsWellFoundedOn(less, Nat)
  BY NatLessThanWellFounded DEF OpToRel
<1> HIDE DEF less
<1>2. PICK m \in T : \A y \in T : ~(<<y, m>> \in less)
  BY <1>1, WFMin
<1>3. ASSUME NEW y \in T PROVE m <= y
  <2>1. y \in Nat /\ m \in Nat
    OBVIOUS
  <2>2. y < m => <<y, m>> \in less
    BY <2>1 DEF less
  <2> QED BY <1>2, <2>1, <2>2
<1> QED BY <1>3 DEF Min

\* The elements of a sequence are at the positions from 1 to its length.
LEMMA ToSetSeq ==
  ASSUME NEW S, NEW s \in Seq(S)
  PROVE  /\ DOMAIN s = 1..Len(s) /\ Len(s) \in Nat
         /\ ToSet(s) \subseteq S
         /\ \A x : x \in ToSet(s) <=> \E i \in 1..Len(s) : s[i] = x
BY DEF ToSet

\* RemoveAt() closes the gap.
LEMMA RemoveAtFacts ==
  ASSUME NEW S, NEW s \in Seq(S), NEW n \in 1..Len(s)
  PROVE  /\ RemoveAt(s, n) \in Seq(S)
         /\ Len(RemoveAt(s, n)) = Len(s) - 1
         /\ \A i \in 1..(Len(s) - 1) : RemoveAt(s, n)[i] = IF i < n THEN s[i] ELSE s[i + 1]
<1> DEFINE a == SubSeq(s, 1, n - 1)
           b == SubSeq(s, n + 1, Len(s))
<1>1. /\ a \in Seq(S) /\ Len(a) = n - 1
      /\ \A i \in 1..(n - 1) : a[i] = s[i]
  OBVIOUS
<1>2. /\ b \in Seq(S) /\ Len(b) = Len(s) - n
      /\ \A i \in 1..(Len(s) - n) : b[i] = s[n + i]
  OBVIOUS
<1>3. RemoveAt(s, n) = a \o b
  BY DEF RemoveAt
<1> HIDE DEF a, b
<1>4. /\ a \o b \in Seq(S) /\ Len(a \o b) = Len(s) - 1
      /\ \A i \in 1..(Len(s) - 1) : (a \o b)[i] = IF i <= n - 1 THEN a[i] ELSE b[i - (n - 1)]
  <2>1. Len(s) \in Nat /\ n \in Nat /\ (n - 1) + (Len(s) - n) = Len(s) - 1
    OBVIOUS
  <2>2. /\ a \o b \in Seq(S) /\ Len(a \o b) = Len(a) + Len(b)
        /\ \A i \in 1..(Len(a) + Len(b)) :
             (a \o b)[i] = IF i <= Len(a) THEN a[i] ELSE b[i - Len(a)]
    <3>1. a \in Seq(S) /\ b \in Seq(S)
      BY <1>1, <1>2
    <3> QED BY <3>1, ConcatProperties, Zenon
  <2>3. Len(a) = n - 1 /\ Len(b) = Len(s) - n
    BY <1>1, <1>2
  <2>4. Len(a) + Len(b) = Len(s) - 1
    BY <2>1, <2>3
  <2> QED BY <2>2, <2>3, <2>4
<1> QED BY <1>1, <1>2, <1>3, <1>4

\* TAILQ_REMOVE(): all others stay, and of an object that is linked once
\* nothing is left.
LEMMA RemoveFirstFacts ==
  ASSUME NEW S, NEW s \in Seq(S), NEW e
  PROVE  /\ RemoveFirst(s, e) \in Seq(S)
         /\ ToSet(RemoveFirst(s, e)) \subseteq ToSet(s)
         /\ ToSet(s) \ {e} \subseteq ToSet(RemoveFirst(s, e))
         /\ IsInjective(s) => /\ IsInjective(RemoveFirst(s, e))
                              /\ e \notin ToSet(RemoveFirst(s, e))
<1> DEFINE r == RemoveFirst(s, e)
<1>1. CASE ~\E i \in 1..Len(s) : s[i] = e
  <2>1. r = s
    BY <1>1 DEF RemoveFirst
  <2> QED BY <1>1, <2>1, ToSetSeq
<1>2. CASE \E i \in 1..Len(s) : s[i] = e
  <2> DEFINE I == {i \in 1..Len(s) : s[i] = e}
  <2>1. I # {} /\ I \in SUBSET Nat
    BY <1>2
  <2>2. r = RemoveAt(s, Min(I))
    BY <1>2, <2>1 DEF RemoveFirst, SelectInSeq
  <2> DEFINE n == Min(I)
  <2>3. n \in 1..Len(s) /\ s[n] = e
    BY <2>1, MinOfNats
  <2> HIDE DEF n, I, r
  <2>4. /\ r \in Seq(S) /\ Len(r) = Len(s) - 1 /\ Len(s) \in Nat
        /\ \A i \in 1..(Len(s) - 1) : r[i] = IF i < n THEN s[i] ELSE s[i + 1]
    <3>1. r = RemoveAt(s, n)
      BY <2>2 DEF n
    <3>2. Len(s) \in Nat
      OBVIOUS
    <3>3. /\ RemoveAt(s, n) \in Seq(S)
          /\ Len(RemoveAt(s, n)) = Len(s) - 1
          /\ \A i \in 1..(Len(s) - 1) : RemoveAt(s, n)[i] = IF i < n THEN s[i] ELSE s[i + 1]
      BY <2>3, RemoveAtFacts
    <3> QED BY <3>1, <3>2, <3>3
  <2>5. ToSet(r) \subseteq ToSet(s)
    BY <2>3, <2>4, ToSetSeq
  <2>6. ASSUME NEW x \in ToSet(s), x # e PROVE x \in ToSet(r)
    <3>1. PICK i \in 1..Len(s) : s[i] = x
      BY ToSetSeq
    <3>2. CASE i < n
      BY <2>3, <2>4, <3>1, <3>2, ToSetSeq
    <3>3. CASE i > n
      <4>1. i - 1 \in 1..(Len(s) - 1) /\ r[i - 1] = s[i]
        BY <2>3, <2>4, <3>1, <3>3
      <4> QED BY <2>4, <3>1, <4>1, ToSetSeq
    <3> QED BY <2>3, <2>4, <2>6, <3>1, <3>2, <3>3
  <2>7. ASSUME IsInjective(s) PROVE IsInjective(r) /\ e \notin ToSet(r)
    <3>1. \A i, j \in 1..Len(s) : s[i] = s[j] => i = j
      BY <2>7, ToSetSeq DEF IsInjective
    <3>2. IsInjective(r)
      BY <2>3, <2>4, <3>1, ToSetSeq DEF IsInjective
    <3>3. e \notin ToSet(r)
      BY <2>3, <2>4, <3>1, ToSetSeq
    <3> QED BY <3>2, <3>3
  <2> QED BY <2>4, <2>5, <2>6, <2>7 DEF r
<1> QED BY <1>1, <1>2

-----------------------------------------------------------------------------
(* Facts about the registry *)

\* Constructors and destructors have at least one call.
LEMMA TableFacts ==
  ASSUME NEW f \in DOMAIN Files
  PROVE  /\ DOMAIN Files[f].inits = 1..Len(Files[f].inits)
         /\ Len(Files[f].inits) \in Nat \ {0}
         /\ \A n \in DOMAIN Files[f].inits : Files[f].inits[n].v6 \in BOOLEAN
         /\ DOMAIN Files[f].exits = 1..Len(Files[f].exits)
         /\ Len(Files[f].exits) \in Nat \ {0}
<1>1. PICK R : /\ Files[f].inits \in Seq(R) \ {<<>>}
               /\ \A r \in R : r.v6 \in BOOLEAN
  <2> DEFINE R == [v6 : BOOLEAN, sys : 1..Len(Files[f].systems), req : Seq(STRING)]
  <2>1. Files[f].inits \in Seq(R) \ {<<>>}
    BY TableAssumption
  <2>2. \A r \in R : r.v6 \in BOOLEAN
    OBVIOUS
  <2> QED BY <2>1, <2>2
<1>2. PICK E : Files[f].exits \in Seq(E) \ {<<>>}
  BY TableAssumption
<1> QED BY <1>1, <1>2, EmptySeq

\* What a constructor registers is an object: the file, one of its systems, and
\* whether it is a copy.
LEMMA MadeFacts ==
  ASSUME NEW f \in DOMAIN Files, NEW n \in DOMAIN Files[f].inits
  PROVE  /\ Made(f, n) \in Objects
         /\ Made(f, n)[1] = f /\ Made(f, n)[2] = Files[f].inits[n].sys
         /\ Made(f, n) \in {Static(f, Files[f].inits[n].sys), Clone(f, Files[f].inits[n].sys)}
         /\ Made(f, n)[3] = "clone" <=> Files[f].inits[n].v6
<1>1. Made(f, n) \in Objects
  BY DEF Objects
<1>2. Files[f].inits[n].v6 \in BOOLEAN
  BY TableFacts
<1> QED BY <1>1, <1>2 DEF Made, Static, Clone

\* Every object is one that a constructor registers.
LEMMA ObjectFacts ==
  ASSUME NEW o \in Objects
  PROVE  /\ o # Null /\ o[1] \in DOMAIN Files /\ o[3] \in {"static", "clone"}
         /\ o = <<o[1], o[2], o[3]>>
         /\ \E n \in DOMAIN Files[o[1]].inits : o = Made(o[1], n)
<1>1. PICK f \in DOMAIN Files : \E n \in DOMAIN Files[f].inits : o = Made(f, n)
  BY DEF Objects
<1>2. PICK n \in DOMAIN Files[f].inits : o = Made(f, n)
  BY <1>1
<1>3. o = Static(f, Files[f].inits[n].sys) \/ o = Clone(f, Files[f].inits[n].sys)
  BY <1>2, MadeFacts
<1>4. o[1] = f
  BY <1>3 DEF Static, Clone
<1> QED BY <1>2, <1>3, <1>4 DEF Static, Clone, Null

\* search_plugin(): the first object that has the name, if there is one.
LEMMA FirstOfFacts ==
  ASSUME NEW l \in Seq(Objects), NEW hits \in SUBSET DOMAIN l
  PROVE  IF hits = {} THEN FirstOf(l, hits) = Null
         ELSE /\ FirstOf(l, hits) \in ToSet(l) /\ FirstOf(l, hits) # Null
              /\ \E i \in hits : FirstOf(l, hits) = l[i] /\ \A j \in hits : i <= j
<1>1. CASE hits = {}
  BY <1>1 DEF FirstOf
<1>2. CASE hits # {}
  <2>1. hits \in SUBSET Nat
    BY ToSetSeq
  <2>2. Min(hits) \in hits /\ \A j \in hits : Min(hits) <= j
    BY <1>2, <2>1, MinOfNats
  <2>3. FirstOf(l, hits) = l[Min(hits)]
    BY <1>2 DEF FirstOf
  <2>4. l[Min(hits)] \in ToSet(l) /\ l[Min(hits)] \in Objects
    BY <2>2, ToSetSeq
  <2> QED BY <1>2, <2>2, <2>3, <2>4, ObjectFacts
<1> QED BY <1>1, <1>2

\* The exact search: nothing when no name and no alias matches.
LEMMA FindExactFacts ==
  ASSUME NEW l \in Seq(Objects), NEW name
  PROVE  LET o == FindExact(l, name)
         IN IF \E p \in ToSet(l) : name = NameOf(p) \/ name = AliasOf(p)
            THEN /\ o \in ToSet(l) /\ o \in Objects /\ o # Null
                 /\ name = NameOf(o) \/ name = AliasOf(o)
            ELSE o = Null
<1>1. Matches(l, name) \in SUBSET DOMAIN l
  BY DEF Matches
<1>2. \A i \in Matches(l, name) : name = NameOf(l[i]) \/ name = AliasOf(l[i])
  BY DEF Matches
<1>3. (\E p \in ToSet(l) : name = NameOf(p) \/ name = AliasOf(p)) <=> Matches(l, name) # {}
  BY ToSetSeq DEF Matches
<1>4. FindExact(l, name) = FirstOf(l, Matches(l, name))
  BY DEF FindExact
<1>5. ToSet(l) \subseteq Objects
  BY ToSetSeq
<1> HIDE DEF Matches
<1>6. CASE Matches(l, name) = {}
  BY <1>1, <1>3, <1>4, <1>6, FirstOfFacts
<1>7. CASE Matches(l, name) # {}
  <2>1. PICK i \in Matches(l, name) : FirstOf(l, Matches(l, name)) = l[i]
    BY <1>1, <1>7, FirstOfFacts
  <2>2. FirstOf(l, Matches(l, name)) \in ToSet(l) /\ FirstOf(l, Matches(l, name)) # Null
    BY <1>1, <1>7, FirstOfFacts
  <2> QED BY <1>2, <1>3, <1>4, <1>5, <1>7, <2>1, <2>2
<1> QED BY <1>6, <1>7

\* An object that is linked is found by its name, and only then is its name found.
LEMMA FindByName ==
  ASSUME NEW l \in Seq(Objects), NEW o \in Objects
  PROVE  FindExact(l, NameOf(o)) = IF o \in ToSet(l) THEN o ELSE Null
<1> DEFINE p == FindExact(l, NameOf(o))
<1>1. \A q \in ToSet(l) : NameOf(o) = NameOf(q) \/ NameOf(o) = AliasOf(q) => q = o
  <2>1. ToSet(l) \subseteq Objects
    BY ToSetSeq
  <2> QED BY <2>1, NamesApart
<1>2. CASE o \in ToSet(l)
  <2>1. p \in ToSet(l) /\ (NameOf(o) = NameOf(p) \/ NameOf(o) = AliasOf(p))
    BY <1>2, FindExactFacts
  <2> QED BY <1>1, <1>2, <2>1
<1>3. CASE o \notin ToSet(l)
  <2>1. ~\E q \in ToSet(l) : NameOf(o) = NameOf(q) \/ NameOf(o) = AliasOf(q)
    BY <1>1, <1>3
  <2>2. p = Null
    BY <2>1, FindExactFacts
  <2> QED BY <1>3, <2>2
<1> QED BY <1>2, <1>3

\* Both searches of conf.c give an object that is linked.
LEMMA FindFacts ==
  ASSUME NEW l \in Seq(Objects), NEW title, Find(l, title) # Null
  PROVE  Find(l, title) \in ToSet(l)
<1>1. CASE Find(l, title) = FindExact(l, title)
  <2>1. FindExact(l, title) # Null
    BY <1>1
  <2> QED BY <1>1, <2>1, FindExactFacts
<1>2. CASE Find(l, title) = FindLoose(l, title[2])
  <2> DEFINE hits == {i \in DOMAIN l : Guessed(l[i], title[2])}
  <2>1. Find(l, title) = FirstOf(l, hits) /\ hits \in SUBSET DOMAIN l
    BY <1>2 DEF FindLoose
  <2> HIDE DEF hits
  <2> QED BY <2>1, FirstOfFacts
<1> QED BY <1>1, <1>2 DEF Find

\* The type of the registry.
Registry == [list : Seq(Objects), freed : SUBSET Objects, lost : SUBSET Objects]

\* plugin_register() of an object that is not linked links it at the end.
LEMMA RegisterFacts ==
  ASSUME NEW r \in Registry, NEW o \in Objects, o \notin ToSet(r.list)
  PROVE  LET l == Register(r, o).list
         IN /\ Register(r, o) \in Registry
            /\ Register(r, o).freed = r.freed /\ Register(r, o).lost = r.lost
            /\ ToSet(l) = ToSet(r.list) \cup {o}
            /\ Len(l) = Len(r.list) + 1 /\ Len(r.list) \in Nat
            /\ \A i \in 1..Len(r.list) : l[i] = r.list[i]
            /\ l[Len(l)] = o
            /\ IsInjective(r.list) => IsInjective(l)
<1>1. r.list \in Seq(Objects) /\ r.freed \in SUBSET Objects /\ r.lost \in SUBSET Objects
  BY DEF Registry
<1>2. FindExact(r.list, NameOf(o)) = Null
  BY <1>1, FindByName
<1>3. Register(r, o) = [r EXCEPT !.list = Append(r.list, o)]
  BY <1>2 DEF Register
<1> DEFINE l == Append(r.list, o)
<1>4. Register(r, o).list = l /\ Register(r, o).freed = r.freed /\ Register(r, o).lost = r.lost
  BY <1>3 DEF Registry
<1>5. /\ l \in Seq(Objects) /\ Len(l) = Len(r.list) + 1 /\ Len(r.list) \in Nat
      /\ \A i \in 1..Len(r.list) : l[i] = r.list[i]
      /\ l[Len(r.list) + 1] = o
  BY <1>1, AppendProperties
<1> HIDE DEF l
<1>6. Register(r, o) \in Registry
  BY <1>1, <1>3, <1>5 DEF Registry, l
<1>7. ToSet(l) = ToSet(r.list) \cup {o}
  <2>1. \A x : x \in ToSet(l) <=> \E i \in 1..Len(l) : l[i] = x
    BY <1>5, ToSetSeq
  <2>2. \A x : x \in ToSet(r.list) <=> \E i \in 1..Len(r.list) : r.list[i] = x
    BY <1>1, ToSetSeq
  <2> QED BY <1>5, <2>1, <2>2
<1>8. ASSUME IsInjective(r.list) PROVE IsInjective(l)
  <2>1. \A i, j \in 1..Len(r.list) : r.list[i] = r.list[j] => i = j
    BY <1>1, <1>8, ToSetSeq DEF IsInjective
  <2>2. \A i \in 1..Len(r.list) : r.list[i] # o
    BY <1>1, ToSetSeq
  <2>3. \A i, j \in 1..Len(l) : l[i] = l[j] => i = j
    BY <1>5, <2>1, <2>2
  <2>4. DOMAIN l = 1..Len(l)
    BY <1>5, ToSetSeq
  <2> QED BY <2>3, <2>4 DEF IsInjective
<1> QED BY <1>4, <1>5, <1>6, <1>7, <1>8

\* plugin_unregister() of a system: it and its copy are no longer linked, the
\* copy is freed, and nothing else happens to anyone.
LEMMA UnregisterFacts ==
  ASSUME NEW r \in Registry, IsInjective(r.list), NEW o \in Objects, o[3] = "static"
  PROVE  LET u == Unregister(r, o)
         IN /\ u \in Registry /\ IsInjective(u.list) /\ u.lost = r.lost
            /\ ToSet(u.list) \subseteq ToSet(r.list) \ {o}
            /\ r.freed \subseteq u.freed
            /\ u.freed \ r.freed \subseteq {c \in ToSet(r.list) : c[3] = "clone"}
            /\ ToSet(u.list) \cap (u.freed \ r.freed) = {}
            /\ ToSet(r.list) \subseteq ToSet(u.list) \cup u.freed \cup {o}
            /\ o \in ToSet(r.list) => Clone(o[1], o[2]) \notin ToSet(u.list)
<1>1. r.list \in Seq(Objects) /\ r.freed \in SUBSET Objects /\ r.lost \in SUBSET Objects
  BY DEF Registry
<1> DEFINE u  == Unregister(r, o)
           l1 == RemoveFirst(r.list, o)
           v6 == FindExact(l1, V6Name(NameOf(o)))
           l2 == RemoveFirst(l1, v6)
<1>2. CASE o \notin ToSet(r.list)
  <2>1. u = r
    BY <1>1, <1>2, FindByName DEF Unregister
  <2> QED BY <1>1, <1>2, <2>1
<1>3. CASE o \in ToSet(r.list)
  <2>1. /\ l1 \in Seq(Objects) /\ IsInjective(l1) /\ o \notin ToSet(l1)
        /\ ToSet(l1) \subseteq ToSet(r.list) /\ ToSet(r.list) \ {o} \subseteq ToSet(l1)
    BY <1>1, RemoveFirstFacts
  <2>2. FindExact(r.list, NameOf(o)) # Null
    BY <1>1, <1>3, FindByName, ObjectFacts
  <2>3. u = IF v6 # Null /\ v6[3] = "clone"
            THEN [r EXCEPT !.list = l2, !.freed = r.freed \cup {v6}]
            ELSE [r EXCEPT !.list = l1]
    BY <2>2 DEF Unregister
  <2> HIDE DEF u, l1
  <2>4. v6 # Null => v6 \in ToSet(l1) /\ v6 \in Objects
    BY <2>1, FindExactFacts
  <2>5. Clone(o[1], o[2]) \in ToSet(l1) => v6 = Clone(o[1], o[2])
    <3> SUFFICES ASSUME Clone(o[1], o[2]) \in ToSet(l1) PROVE v6 = Clone(o[1], o[2])
      OBVIOUS
    <3> DEFINE c == Clone(o[1], o[2])
    <3>1. c \in Objects
      BY <2>1, ToSetSeq
    <3>2. NameOf(c) = V6Name(NameOf(o))
      BY DEF NameOf, SysOf, Clone
    <3> QED BY <2>1, <3>1, <3>2, FindByName
  <2> HIDE DEF v6
  <2>6. CASE v6 # Null /\ v6[3] = "clone"
    <3>1. /\ l2 \in Seq(Objects) /\ IsInjective(l2) /\ v6 \notin ToSet(l2)
          /\ ToSet(l2) \subseteq ToSet(l1) /\ ToSet(l1) \ {v6} \subseteq ToSet(l2)
      BY <2>1, RemoveFirstFacts
    <3> HIDE DEF l2
    <3>2. u \in Registry /\ u.list = l2 /\ u.freed = r.freed \cup {v6} /\ u.lost = r.lost
      BY <1>1, <2>3, <2>4, <2>6, <3>1 DEF Registry
    <3>3. Clone(o[1], o[2]) \notin ToSet(l2)
      BY <2>5, <3>1
    <3> QED BY <2>1, <2>4, <2>6, <3>1, <3>2, <3>3 DEF u
  <2>7. CASE ~(v6 # Null /\ v6[3] = "clone")
    <3>1. u \in Registry /\ u.list = l1 /\ u.freed = r.freed /\ u.lost = r.lost
      BY <1>1, <2>1, <2>3, <2>7 DEF Registry
    <3>2. Clone(o[1], o[2]) \notin ToSet(l1)
      BY <2>5, <2>7 DEF Clone, Null
    <3> QED BY <2>1, <3>1, <3>2 DEF u
  <2> QED BY <2>6, <2>7
<1> QED BY <1>2, <1>3

-----------------------------------------------------------------------------
(* The inductive invariant *)

\* The places between main() and the end of exit()'s handlers.
Up == {"alloc", "handler", "parse", "loop", "child", "free", "cfg_free", "leave"}

\* The calls of the constructors that have been made, and those of the destructors.
Built(k, n)   == k <= step \/ (k = step + 1 /\ n < call)
Unbuilt(k, n) == k > step \/ (k = step /\ n < call)

\* Where the walk through the constructors and destructors is.
StepInv ==
  /\ pc = "ctor" => IF step < Len(order) THEN call \in 1..Len(Files[order[step + 1]].inits)
                    ELSE call = 1
  /\ pc \in {"dtor", "child"} => IF step > 0 THEN call \in 1..Len(Files[order[step]].exits)
                                 ELSE call = 1
  /\ pc \in Up \ {"child"} => step = Len(order) /\ call = 1
  /\ pc = "gone" => step = 0

\* Who owns the context, the configuration and the infos: the context is that of
\* this turn or freed, infos exist only from conf_parse_file() to free_context(),
\* and the handler knows the context from os_install_signal_handler() on, or none
\* if that failed in the first turn.
MemInv ==
  /\ ctx \in {0, gen}
  /\ pc = "ctor" => param = 0 /\ gen = 0
  /\ pc = "alloc" => gen <= MaxRestarts
  /\ ctx # 0 => pc \in {"handler", "parse", "loop", "child", "free", "segv"}
  /\ infos # {} => ctx # 0 /\ pc \in {"loop", "child", "free", "segv"}
  /\ \A i \in infos : i.cfg = gen
  /\ pc \in {"loop", "child"} => cfg = gen /\ globals = gen /\ ctx = gen /\ mode # "check"
  /\ mode = "check" => param = 0 /\ pc # "handler"
  /\ pc = "handler" /\ gen = 1 => param = 0
  /\ pc \in {"parse", "loop", "child"} => param = ctx \/ mode = "check"
  /\ pc = "free" => param \in {0, ctx} \/ mode = "check"

\* What a failed call leaves behind.
FaultInv ==
  /\ IsFiniteSet(faults)
  /\ pc \in {"handler", "parse"} /\ ctx = 0 => Failed("malloc")
  /\ pc = "child" => Failed("exec")

\* The PID file: until both daemons looked at it too early, the other one is
\* there only before this one.
PidInv ==
  /\ pc = "ctor" => Me \notin wrote /\ (other = "running" => pidfile = You)
  /\ Me \in wrote => mode = "daemon"
  /\ mode = "daemon" /\ pc \in Up /\ ~raced => other = "gone" /\ (Me \in wrote => pidfile = Me)

\* The registry links an object once and no freed one, and it frees copies only,
\* in the destructors of the process or of a child.
RegInv ==
  /\ IsInjective(reg.list) /\ reg.lost = {} /\ Linked \cap reg.freed = {}
  /\ \A c \in reg.freed : c[3] = "clone"
  /\ reg.freed # {} => pc \in {"dtor", "gone"} \/ Failed("exec")
  /\ \A c \in Linked : Static(c[1], c[2]) \in Linked

\* While no destructor has run.
Whole == pc = "ctor" \/ (pc \in Up /\ ~Failed("exec"))

\* Before main() the linked objects are among those made so far, and none is freed.
OnlyBuilt ==
  pc = "ctor" =>
    /\ \A o \in Linked : \E k \in DOMAIN order : \E n \in DOMAIN Files[order[k]].inits :
         Built(k, n) /\ o = Made(order[k], n)
    /\ reg.freed = {}
\* What was made is linked, but for copies that malloc() refused.
BuiltLinked ==
  Whole =>
    \A k \in DOMAIN order : \A n \in DOMAIN Files[order[k]].inits :
      Built(k, n) /\ (Made(order[k], n)[3] = "static" \/ ~Failed("malloc"))
        => Made(order[k], n) \in Linked
\* An object is linked behind all systems that were registered before it.
InOrder ==
  Whole =>
    \A i \in DOMAIN reg.list :
      \A k \in DOMAIN order : \A n \in DOMAIN Files[order[k]].inits :
      \A j \in DOMAIN order : \A m \in DOMAIN Files[order[j]].inits :
        /\ reg.list[i] = Made(order[k], n)
        /\ j < k \/ (j = k /\ m < n)
        /\ Made(order[j], m)[3] = "static"
        => \E h \in 1..(i - 1) : reg.list[h] = Made(order[j], m)
BuiltInv == OnlyBuilt /\ BuiltLinked /\ InOrder

\* After main() the destructors take away what they name and nothing else.
UnbuiltInv ==
  /\ pc \notin {"ctor", "segv"} =>
       /\ Forgotten \subseteq Linked
       /\ ~Failed("malloc") => {c \in Objects : c[3] = "clone"} \subseteq Linked \cup reg.freed
  /\ pc \in {"dtor", "child", "gone"} =>
       \A k \in DOMAIN order : \A n \in DOMAIN Files[order[k]].exits :
         Unbuilt(k, n) => Static(order[k], Files[order[k]].exits[n]) \notin Linked

IInv ==
  /\ TypeOK /\ StepInv /\ MemInv /\ FaultInv /\ PidInv /\ RegInv /\ BuiltInv /\ UnbuiltInv
  /\ CrashExcused

-----------------------------------------------------------------------------
(* What a step may do to the walk through the constructors and destructors *)

\* A step that is none of the constructors' and destructors' moves from main()
\* into the restart loop, within it, out of it, or nowhere.
Quiet ==
  /\ UNCHANGED <<order, step, call, reg>>
  /\ faults \subseteq faults'
  /\ \/ pc' = pc
     \/ pc = "ctor" /\ step = Len(order) /\ pc' \in {"alloc", "dtor"}
     \/ /\ pc \in Up \ {"child"} /\ pc' \in Up \cup {"dtor", "segv"}
        /\ pc' = "child" => Failed("exec")'

\* A call that fails is remembered.
LEMMA FaultyFails ==
  ASSUME NEW w, Faulty(w) PROVE faults \subseteq faults' /\ Failed(w)'
<1> DEFINE f == <<w, Cardinality(faults)>>
<1>1. faults' = faults \cup {f}
  BY DEF Faulty
<1>2. f[1] = w
  OBVIOUS
<1>3. f \in faults'
  BY <1>1
<1> HIDE DEF f
<1> QED BY <1>1, <1>2, <1>3 DEF Failed

\* Every other step is quiet.
LEMMA Moves == [Next]_vars => Construct \/ Destruct \/ Exit \/ Quiet
<1> SUFFICES ASSUME [Next]_vars, ~Construct, ~Destruct, ~Exit PROVE Quiet
  OBVIOUS
<1> USE DEF Quiet, Up
<1>1. CASE Main
  BY <1>1 DEF Main
<1>2. CASE StartFails
  BY <1>2 DEF StartFails
<1>3. CASE AllocContext
  BY <1>3 DEF AllocContext, Faulty, Allocated
<1>4. CASE InstallSignalHandler
  BY <1>4 DEF InstallSignalHandler
<1>5. CASE ParseFile
  BY <1>5 DEF ParseFile
<1>6. CASE WritePidfile
  BY <1>6 DEF WritePidfile
<1>7. CASE ExecFails
  <2>1. Failed("exec")'
    BY <1>7, FaultyFails DEF ExecFails
  <2> QED BY <1>7, <2>1 DEF ExecFails, Faulty
<1>8. CASE UseFreed
  BY <1>8 DEF UseFreed
<1>9. CASE LoopEnds
  BY <1>9 DEF LoopEnds
<1>10. CASE FreeContext
  BY <1>10 DEF FreeContext
<1>11. CASE CfgFree
  BY <1>11 DEF CfgFree
<1>12. CASE Leave
  BY <1>12 DEF Leave
<1>13. CASE Signal
  BY <1>13 DEF Signal
<1>14. CASE Other
  BY <1>14 DEF Other, OtherStarts, OtherWrites, OtherEnds
<1>15. CASE UNCHANGED vars
  BY <1>15 DEF vars
<1> QED BY <1>1, <1>2, <1>3, <1>4, <1>5, <1>6, <1>7, <1>8, <1>9, <1>10, <1>11, <1>12,
           <1>13, <1>14, <1>15 DEF Next

\* Failed calls are not forgotten.
LEMMA FailedGrows ==
  ASSUME NEW w, faults \subseteq faults', Failed(w) PROVE Failed(w)'
BY DEF Failed

\* An order lists every file once.
LEMMA OrderFacts ==
  ASSUME order \in Orders
  PROVE  /\ order \in Seq(DOMAIN Files)
         /\ DOMAIN order = 1..Len(order) /\ Len(order) \in Nat
         /\ \A i, j \in DOMAIN order : order[i] = order[j] => i = j
         /\ \A f \in DOMAIN Files : \E k \in DOMAIN order : order[k] = f
         /\ \A k \in DOMAIN order : order[k] \in DOMAIN Files
<1>1. order \in Seq(DOMAIN Files) /\ IsInjective(order) /\ DOMAIN Files \subseteq ToSet(order)
  BY OrdersAssumption
<1>2. \A f \in DOMAIN Files : \E k \in DOMAIN order : order[k] = f
  BY <1>1 DEF ToSet
<1> QED BY <1>1, <1>2, ToSetSeq DEF IsInjective

\* A constructor's step: the call it makes, what it may do to the registry, and
\* which calls have been made after it.
LEMMA ConstructFacts ==
  ASSUME TypeOK, StepInv, Construct
  PROVE  LET f == order[step + 1]
             o == Made(f, call)
         IN /\ pc = "ctor" /\ step + 1 \in DOMAIN order
            /\ f \in DOMAIN Files /\ call \in DOMAIN Files[f].inits /\ o \in Objects
            /\ order' = order /\ faults \subseteq faults'
            /\ \/ /\ pc' = "ctor" /\ NextCall /\ reg' = Register(reg, o) /\ faults' = faults
               \/ /\ pc' = "ctor" /\ NextCall /\ reg' = reg /\ o[3] = "clone" /\ Failed("malloc")'
               \/ /\ pc' = "segv" /\ reg' = reg /\ step' = step /\ call' = call
                  /\ Failed("malloc")'
<1>1. pc = "ctor" /\ step \in 0..Len(order) /\ step < Len(order) /\ Len(order) \in Nat
  BY OrderFacts DEF Construct, TypeOK
<1>2. step + 1 \in DOMAIN order
  BY <1>1, OrderFacts DEF TypeOK
<1> DEFINE f == order[step + 1]
<1>3. f \in DOMAIN Files
  BY <1>2, OrderFacts DEF TypeOK
<1>4. call \in DOMAIN Files[f].inits
  BY <1>1, <1>3, TableFacts DEF StepInv
<1>5. Current = f
  BY <1>1 DEF Current
<1>6. Made(f, call) \in Objects
  BY <1>3, <1>4, MadeFacts
<1>7. ASSUME Faulty("malloc") PROVE faults \subseteq faults' /\ Failed("malloc")'
  BY <1>7, FaultyFails
<1>8. \/ /\ pc' = "ctor" /\ NextCall /\ reg' = Register(reg, Made(f, call)) /\ faults' = faults
      \/ /\ pc' = "ctor" /\ NextCall /\ reg' = reg /\ Made(f, call)[3] = "clone" /\ Faulty("malloc")
      \/ /\ pc' = "segv" /\ reg' = reg /\ step' = step /\ call' = call /\ Faulty("malloc")
  BY <1>1, <1>5 DEF Construct
<1> QED BY <1>1, <1>2, <1>3, <1>4, <1>6, <1>7, <1>8 DEF Construct

\* After a constructor's call, one more has been made.
LEMMA NextBuilt ==
  ASSUME TypeOK, StepInv, pc = "ctor", step < Len(order), NextCall, order' = order, pc' = "ctor"
  PROVE  /\ step' \in 0..Len(order) /\ call' \in Nat \ {0} /\ StepInv'
         /\ \A k \in DOMAIN order : \A n \in DOMAIN Files[order[k]].inits :
              Built(k, n)' <=> Built(k, n) \/ (k = step + 1 /\ n = call)
<1>1. step \in Nat /\ Len(order) \in Nat /\ call \in Nat \ {0} /\ step + 1 \in DOMAIN order
  BY OrderFacts DEF TypeOK
<1> DEFINE f == order[step + 1]
           len == Len(Files[f].inits)
<1>2. f \in DOMAIN Files
  BY <1>1, OrderFacts DEF TypeOK
<1>3. len \in Nat \ {0} /\ DOMAIN Files[f].inits = 1..len /\ call \in 1..len
  BY <1>2, TableFacts DEF StepInv
<1>4. Calls(Current) = Files[f].inits
  BY DEF Calls, Current
<1>5. IF call < len THEN call' = call + 1 /\ step' = step ELSE call' = 1 /\ step' = step + 1
  BY <1>4 DEF NextCall
<1> HIDE DEF f, len
<1>6. step' \in 0..Len(order) /\ call' \in Nat \ {0}
  BY <1>1, <1>5
<1>7. StepInv'
  <2>1. CASE step' < Len(order)
    <3>1. step' + 1 \in DOMAIN order
      <4>1. DOMAIN order = 1..Len(order)
        BY OrderFacts DEF TypeOK
      <4>2. \A m \in Nat : \A i \in 0..m : i < m => i + 1 \in 1..m
        OBVIOUS
      <4>3. step' + 1 \in 1..Len(order)
        BY <1>1, <1>6, <2>1, <4>2
      <4> QED BY <4>1, <4>3
    <3>2. Len(Files[order[step' + 1]].inits) \in Nat \ {0}
      <4>1. order[step' + 1] \in DOMAIN Files
        BY <3>1, OrderFacts DEF TypeOK
      <4> QED BY <4>1, TableFacts
    <3>3. call' \in 1..Len(Files[order[step' + 1]].inits)
      BY <1>1, <1>3, <1>5, <3>2 DEF f, len
    <3> QED BY <2>1, <3>3 DEF StepInv, Up
  <2>2. CASE ~(step' < Len(order))
    <3>1. call' = 1
      BY <1>5, <2>2
    <3> QED BY <2>2, <3>1 DEF StepInv, Up
  <2> QED BY <2>1, <2>2
<1>8. ASSUME NEW k \in DOMAIN order, NEW n \in DOMAIN Files[order[k]].inits
      PROVE  Built(k, n)' <=> Built(k, n) \/ (k = step + 1 /\ n = call)
  <2>1. k \in Nat /\ n \in Nat /\ n >= 1 /\ (k = step + 1 => n <= len)
    <3>1. order[k] \in DOMAIN Files /\ DOMAIN order = 1..Len(order)
      BY OrderFacts DEF TypeOK
    <3>2. DOMAIN Files[order[k]].inits = 1..Len(Files[order[k]].inits)
      BY <3>1, TableFacts
    <3> QED BY <1>1, <1>3, <3>1, <3>2 DEF f, len
  <2> QED BY <1>1, <1>3, <1>5, <2>1 DEF Built
<1> QED BY <1>6, <1>7, <1>8

\* A destructor's step unregisters a system that a constructor registered.
LEMMA DestructFacts ==
  ASSUME TypeOK, StepInv, Destruct
  PROVE  LET f == order[step]
             o == Static(f, Files[f].exits[call])
         IN /\ pc \in {"dtor", "child"} /\ step \in DOMAIN order
            /\ f \in DOMAIN Files /\ call \in DOMAIN Files[f].exits
            /\ o \in Objects /\ o[1] = f /\ o[2] = Files[f].exits[call] /\ o[3] = "static"
            /\ order' = order /\ faults' = faults /\ pc' = pc
            /\ reg' = Unregister(reg, o)
            /\ step' \in 0..Len(order) /\ call' \in Nat \ {0} /\ StepInv'
            /\ \A k \in DOMAIN order : \A n \in DOMAIN Files[order[k]].exits :
                 Unbuilt(k, n)' <=> Unbuilt(k, n) \/ (k = step /\ n = call)
<1>1. /\ pc \in {"dtor", "child"} /\ step \in 0..Len(order) /\ step > 0 /\ Len(order) \in Nat
      /\ call \in Nat \ {0} /\ DOMAIN order = 1..Len(order)
  BY OrderFacts DEF Destruct, TypeOK
<1>2. step \in DOMAIN order
  BY <1>1
<1> DEFINE f == order[step]
           len == Len(Files[f].exits)
           o == Static(f, Files[f].exits[call])
<1>3. f \in DOMAIN Files
  BY <1>2, OrderFacts DEF TypeOK
<1>4. len \in Nat \ {0} /\ DOMAIN Files[f].exits = 1..len /\ call \in 1..len
  BY <1>1, <1>3, TableFacts DEF StepInv
<1>5. Current = f /\ Calls(Current) = Files[f].exits
  BY <1>1 DEF Current, Calls
<1>6. o \in Objects
  BY <1>3, <1>4, DestructorAssumption
<1>7. /\ IF call < len THEN call' = call + 1 /\ step' = step ELSE call' = 1 /\ step' = step - 1
      /\ reg' = Unregister(reg, o) /\ order' = order /\ faults' = faults /\ pc' = pc
  BY <1>1, <1>5 DEF Destruct, NextCall
<1>8. o[1] = f /\ o[2] = Files[f].exits[call] /\ o[3] = "static"
  BY DEF Static
<1> HIDE DEF f, len, o
<1>9. step' \in 0..Len(order) /\ call' \in Nat \ {0}
  BY <1>1, <1>7
<1>10. StepInv'
  <2>1. CASE step' > 0
    <3>1. step' \in DOMAIN order
      <4>1. \A m \in Nat : \A i \in 0..m : i > 0 => i \in 1..m
        OBVIOUS
      <4> QED BY <1>1, <1>9, <2>1, <4>1
    <3>2. order[step'] \in DOMAIN Files
      BY <3>1, OrderFacts DEF TypeOK
    <3>3. Len(Files[order[step']].exits) \in Nat \ {0}
      BY <3>2, TableFacts
    <3>4. call' \in 1..Len(Files[order[step']].exits)
      BY <1>1, <1>4, <1>7, <3>3 DEF f, len
    <3> QED BY <1>1, <1>7, <2>1, <3>4 DEF StepInv, Up
  <2>2. CASE ~(step' > 0)
    <3>1. call' = 1
      BY <1>1, <1>7, <2>2
    <3> QED BY <1>1, <1>7, <2>2, <3>1 DEF StepInv, Up
  <2> QED BY <2>1, <2>2
<1>11. ASSUME NEW k \in DOMAIN order, NEW n \in DOMAIN Files[order[k]].exits
       PROVE  Unbuilt(k, n)' <=> Unbuilt(k, n) \/ (k = step /\ n = call)
  <2>1. k \in Nat /\ n \in Nat /\ n >= 1 /\ (k = step => n <= len)
    <3>1. order[k] \in DOMAIN Files
      BY OrderFacts DEF TypeOK
    <3>2. DOMAIN Files[order[k]].exits = 1..Len(Files[order[k]].exits)
      BY <3>1, TableFacts
    <3> QED BY <1>1, <1>4, <3>1, <3>2 DEF f, len
  <2> QED BY <1>1, <1>4, <1>7, <2>1 DEF Unbuilt
<1> QED BY <1>1, <1>2, <1>3, <1>4, <1>6, <1>7, <1>8, <1>9, <1>10, <1>11 DEF f, o

\* The walk goes on as it should.
LEMMA NextStep ==
  ASSUME TypeOK, StepInv, [Next]_vars
  PROVE  order' = order /\ step' \in 0..Len(order) /\ call' \in Nat \ {0} /\ StepInv'
<1>1. Len(order) \in Nat /\ step \in 0..Len(order) /\ call \in Nat \ {0}
  BY OrderFacts DEF TypeOK
<1>2. CASE Construct
  <2>1. /\ pc = "ctor" /\ order' = order /\ step < Len(order)
        /\ (pc' = "ctor" /\ NextCall) \/ (pc' = "segv" /\ step' = step /\ call' = call)
    <3>1. step < Len(order)
      BY <1>2 DEF Construct
    <3> QED BY <1>2, <3>1, ConstructFacts, Zenon
  <2>2. CASE pc' = "ctor" /\ NextCall
    BY <2>1, <2>2, NextBuilt
  <2>3. CASE pc' = "segv" /\ step' = step /\ call' = call
    BY <1>1, <2>1, <2>3 DEF StepInv, Up
  <2> QED BY <2>1, <2>2, <2>3
<1>3. CASE Destruct
  BY <1>3, DestructFacts
<1>4. CASE Exit
  BY <1>1, <1>4 DEF Exit, StepInv, Up
<1>5. CASE Quiet
  <2>1. order' = order /\ step' = step /\ call' = call
    BY <1>5 DEF Quiet
  <2>2. CASE pc' = pc
    BY <1>1, <2>1, <2>2 DEF StepInv
  <2>3. CASE step = Len(order) /\ call = 1 /\ pc' \in Up \cup {"dtor", "segv"}
    <3>1. step > 0 => Len(Files[order[step]].exits) \in Nat \ {0}
      <4>1. step > 0 => order[step] \in DOMAIN Files
        BY <1>1, OrderFacts DEF TypeOK
      <4> QED BY <4>1, TableFacts
    <3> QED BY <1>1, <2>1, <2>3, <3>1 DEF StepInv, Up
  <2>4. pc' = pc \/ (step = Len(order) /\ call = 1 /\ pc' \in Up \cup {"dtor", "segv"})
    BY <1>1, <1>5 DEF Quiet, StepInv, Up
  <2> QED BY <2>2, <2>3, <2>4
<1> QED BY <1>2, <1>3, <1>4, <1>5, Moves

-----------------------------------------------------------------------------
(* The registry *)

\* The object that a constructor is about to register is not linked, and the
\* original of a copy is.
LEMMA FreshObject ==
  ASSUME TypeOK, StepInv, BuiltInv, Construct
  PROVE  LET o == Made(order[step + 1], call)
         IN /\ o \notin Linked
            /\ Static(o[1], o[2]) \in Linked \cup {o}
<1> DEFINE f == order[step + 1]
           o == Made(f, call)
<1>1. pc = "ctor" /\ step + 1 \in DOMAIN order /\ f \in DOMAIN Files /\ call \in DOMAIN Files[f].inits
  BY ConstructFacts, Zenon
<1>2. /\ o \in Objects /\ o[1] = f /\ o[2] = Files[f].inits[call].sys
      /\ o \in {Static(f, Files[f].inits[call].sys), Clone(f, Files[f].inits[call].sys)}
      /\ o[3] = "clone" <=> Files[f].inits[call].v6
  BY <1>1, MadeFacts
<1>3. step \in Nat /\ call \in Nat
  BY <1>1, OrderFacts DEF TypeOK
<1>4. o \notin Linked
  <2> SUFFICES ASSUME o \in Linked PROVE FALSE
    OBVIOUS
  <2>1. PICK k \in DOMAIN order : \E n \in DOMAIN Files[order[k]].inits :
               Built(k, n) /\ o = Made(order[k], n)
    BY <1>1 DEF BuiltInv, OnlyBuilt
  <2>2. PICK n \in DOMAIN Files[order[k]].inits : Built(k, n) /\ o = Made(order[k], n)
    BY <2>1
  <2>3. order[k] \in DOMAIN Files
    BY OrderFacts DEF TypeOK
  <2>4. order[k] = f
    BY <1>2, <2>2, <2>3, MadeFacts
  <2>5. k = step + 1
    BY <1>1, <2>4, OrderFacts DEF TypeOK
  <2>6. n = call
    BY <1>1, <2>2, <2>4, ConstructorAssumption
  <2> QED BY <1>3, <2>2, <2>5, <2>6 DEF Built
<1>5. CASE o[3] = "clone"
  <2>1. PICK m \in 1..(call - 1) : Made(f, m) = Static(f, Files[f].inits[call].sys)
    BY <1>1, <1>2, <1>5, ConstructorAssumption
  <2>2. m \in DOMAIN Files[f].inits
    <3>1. DOMAIN Files[f].inits = 1..Len(Files[f].inits) /\ Len(Files[f].inits) \in Nat
      BY <1>1, TableFacts
    <3> QED BY <1>1, <1>3, <3>1
  <2>3. Built(step + 1, m)
    BY <1>3 DEF Built
  <2>4. Made(f, m)[3] = "static"
    BY <2>1 DEF Static
  <2>5. Made(f, m) \in Linked
    BY <1>1, <2>2, <2>3, <2>4 DEF BuiltInv, BuiltLinked, Whole
  <2> QED BY <1>2, <1>4, <2>1, <2>5
<1>6. CASE o[3] # "clone"
  BY <1>2, <1>4, <1>6 DEF Clone
<1> QED BY <1>4, <1>5, <1>6

\* A constructor's call keeps the registry in order.
LEMMA RegConstruct ==
  ASSUME TypeOK, StepInv, RegInv, BuiltInv, Construct
  PROVE  reg' \in Registry /\ RegInv' /\ BuiltInv' /\ UnbuiltInv'
<1> DEFINE f == order[step + 1]
           o == Made(f, call)
<1>1. /\ pc = "ctor" /\ step + 1 \in DOMAIN order /\ f \in DOMAIN Files
      /\ call \in DOMAIN Files[f].inits /\ o \in Objects
      /\ order' = order /\ faults \subseteq faults'
      /\ \/ /\ pc' = "ctor" /\ NextCall /\ reg' = Register(reg, o) /\ faults' = faults
         \/ /\ pc' = "ctor" /\ NextCall /\ reg' = reg /\ o[3] = "clone" /\ Failed("malloc")'
         \/ /\ pc' = "segv" /\ reg' = reg /\ step' = step /\ call' = call
  BY ConstructFacts, Zenon
<1>2. o \notin Linked /\ Static(o[1], o[2]) \in Linked \cup {o}
  BY FreshObject, Zenon
<1>3. reg \in Registry /\ reg.freed = {}
  BY <1>1 DEF TypeOK, Registry, BuiltInv, OnlyBuilt
<1>4. UnbuiltInv'
  BY <1>1 DEF UnbuiltInv
<1>5. step < Len(order) /\ step \in Nat /\ call \in Nat
  BY <1>1, OrderFacts DEF Construct, TypeOK
<1>6. ASSUME pc' = "ctor", NextCall
      PROVE  \A k \in DOMAIN order : \A n \in DOMAIN Files[order[k]].inits :
               Built(k, n)' <=> Built(k, n) \/ (k = step + 1 /\ n = call)
  BY <1>1, <1>5, <1>6, NextBuilt
<1> HIDE DEF f, o
<1>7. CASE pc' = "ctor" /\ NextCall /\ reg' = Register(reg, o) /\ faults' = faults
  <2>1. /\ reg' \in Registry /\ reg'.freed = {} /\ reg'.lost = {}
        /\ Linked' = Linked \cup {o} /\ IsInjective(reg'.list)
        /\ Len(reg'.list) = Len(reg.list) + 1 /\ Len(reg.list) \in Nat
        /\ \A i \in 1..Len(reg.list) : reg'.list[i] = reg.list[i]
        /\ reg'.list[Len(reg'.list)] = o
    <3>1. reg.lost = {} /\ IsInjective(reg.list) /\ o \notin ToSet(reg.list)
      BY <1>2 DEF RegInv, Linked
    <3> QED BY <1>1, <1>3, <1>7, <3>1, RegisterFacts DEF Linked
  <2>2. RegInv'
    BY <1>2, <2>1 DEF RegInv
  <2>3. \A p \in Linked' : \E k \in DOMAIN order' : \E n \in DOMAIN Files[order'[k]].inits :
               Built(k, n)' /\ p = Made(order'[k], n)
    <3> SUFFICES ASSUME NEW p \in Linked'
                 PROVE  \E k \in DOMAIN order : \E n \in DOMAIN Files[order[k]].inits :
                          Built(k, n)' /\ p = Made(order[k], n)
      BY <1>1
    <3>1. CASE p \in Linked
      BY <1>1, <1>6, <1>7, <3>1 DEF BuiltInv, OnlyBuilt
    <3>2. CASE p = o
      BY <1>1, <1>6, <1>7, <3>2 DEF o, f
    <3> QED BY <2>1, <3>1, <3>2
  <2>4. ASSUME NEW k \in DOMAIN order, NEW n \in DOMAIN Files[order[k]].inits, Built(k, n)',
               Made(order[k], n)[3] = "static" \/ ~Failed("malloc")'
        PROVE  Made(order[k], n) \in Linked'
    <3>1. Failed("malloc")' <=> Failed("malloc")
      BY <1>7 DEF Failed
    <3>2. CASE Built(k, n)
      BY <1>1, <2>1, <2>4, <3>1, <3>2 DEF BuiltInv, BuiltLinked, Whole
    <3>3. CASE k = step + 1 /\ n = call
      BY <2>1, <3>3 DEF o, f
    <3> QED BY <1>6, <1>7, <2>4, <3>2, <3>3
  <2>5. ASSUME NEW i \in DOMAIN reg'.list,
               NEW k \in DOMAIN order, NEW n \in DOMAIN Files[order[k]].inits,
               NEW j \in DOMAIN order, NEW m \in DOMAIN Files[order[j]].inits,
               reg'.list[i] = Made(order[k], n),
               j < k \/ (j = k /\ m < n),
               Made(order[j], m)[3] = "static"
        PROVE  \E h \in 1..(i - 1) : reg'.list[h] = Made(order[j], m)
    <3>1. DOMAIN reg'.list = 1..Len(reg'.list) /\ DOMAIN reg.list = 1..Len(reg.list)
      BY <1>3, <2>1 DEF Registry
    <3>2. CASE i <= Len(reg.list)
      <4>1. i \in DOMAIN reg.list /\ reg.list[i] = Made(order[k], n)
        BY <2>1, <2>5, <3>1, <3>2
      <4>2. PICK h \in 1..(i - 1) : reg.list[h] = Made(order[j], m)
        BY <1>1, <2>5, <4>1 DEF BuiltInv, InOrder, Whole
      <4>3. reg'.list[h] = reg.list[h]
        BY <2>1, <3>1, <3>2
      <4> QED BY <4>2, <4>3
    <3>3. CASE i = Len(reg'.list)
      <4>1. Made(order[k], n) = Made(f, call)
        BY <2>1, <2>5, <3>3 DEF o
      <4>2. order[k] \in DOMAIN Files /\ order[j] \in DOMAIN Files
        BY OrderFacts DEF TypeOK
      <4>3. order[k] = f
        BY <1>1, <4>1, <4>2, MadeFacts
      <4>4. k = step + 1
        BY <1>1, <4>3, OrderFacts DEF TypeOK, f
      <4>5. n = call
        BY <1>1, <4>1, <4>3, ConstructorAssumption
      <4>6. j \in Nat /\ m \in Nat
        <5>1. DOMAIN Files[order[j]].inits = 1..Len(Files[order[j]].inits)
          BY <4>2, TableFacts
        <5>2. DOMAIN order = 1..Len(order)
          BY OrderFacts DEF TypeOK
        <5> QED BY <5>1, <5>2
      <4>7. Built(j, m)
        BY <1>5, <2>5, <4>4, <4>5, <4>6 DEF Built
      <4>8. Made(order[j], m) \in Linked
        BY <1>1, <2>5, <4>7 DEF BuiltInv, BuiltLinked, Whole
      <4>9. PICK h \in 1..Len(reg.list) : reg.list[h] = Made(order[j], m)
        BY <1>3, <4>8, ToSetSeq DEF Linked, Registry
      <4>10. h \in 1..(i - 1) /\ reg'.list[h] = reg.list[h]
        BY <2>1, <3>3
      <4> QED BY <4>9, <4>10
    <3> QED BY <2>1, <3>1, <3>2, <3>3
  <2>6. OnlyBuilt'
    BY <2>1, <2>3 DEF OnlyBuilt
  <2>7. BuiltLinked'
    BY <1>1, <2>4 DEF BuiltLinked
  <2>8. InOrder'
    BY <1>1, <2>5 DEF InOrder
  <2> QED BY <1>4, <2>1, <2>2, <2>6, <2>7, <2>8 DEF BuiltInv
<1>8. CASE pc' = "ctor" /\ NextCall /\ reg' = reg /\ o[3] = "clone" /\ Failed("malloc")'
  <2>1. RegInv'
    BY <1>3, <1>8 DEF RegInv, Linked
  <2>2. \A p \in Linked' : \E k \in DOMAIN order' : \E n \in DOMAIN Files[order'[k]].inits :
               Built(k, n)' /\ p = Made(order'[k], n)
    BY <1>1, <1>6, <1>8 DEF BuiltInv, OnlyBuilt, Linked
  <2>3. ASSUME NEW k \in DOMAIN order, NEW n \in DOMAIN Files[order[k]].inits, Built(k, n)',
               Made(order[k], n)[3] = "static" \/ ~Failed("malloc")'
        PROVE  Made(order[k], n) \in Linked'
    <3>1. Built(k, n)
      BY <1>6, <1>8, <2>3 DEF o, f
    <3> QED BY <1>1, <1>8, <2>3, <3>1 DEF BuiltInv, BuiltLinked, Whole, Linked
  <2>4. OnlyBuilt'
    BY <1>3, <1>8, <2>2 DEF OnlyBuilt
  <2>5. BuiltLinked'
    BY <1>1, <2>3 DEF BuiltLinked
  <2>6. InOrder'
    BY <1>1, <1>8 DEF BuiltInv, InOrder, Whole
  <2> QED BY <1>3, <1>4, <1>8, <2>1, <2>4, <2>5, <2>6 DEF BuiltInv
<1>9. CASE pc' = "segv" /\ reg' = reg /\ step' = step /\ call' = call
  BY <1>3, <1>4, <1>9 DEF RegInv, Linked, BuiltInv, OnlyBuilt, BuiltLinked, InOrder, Whole, Up
<1> QED BY <1>1, <1>7, <1>8, <1>9

\* A destructor's call keeps the registry in order.
LEMMA RegDestruct ==
  ASSUME TypeOK, StepInv, FaultInv, RegInv, UnbuiltInv, Destruct
  PROVE  reg' \in Registry /\ RegInv' /\ BuiltInv' /\ UnbuiltInv'
<1> DEFINE f == order[step]
           o == Static(f, Files[f].exits[call])
<1>1. /\ pc \in {"dtor", "child"} /\ step \in DOMAIN order
      /\ f \in DOMAIN Files /\ call \in DOMAIN Files[f].exits
      /\ o \in Objects /\ o[1] = f /\ o[2] = Files[f].exits[call] /\ o[3] = "static"
      /\ order' = order /\ faults' = faults /\ pc' = pc
      /\ reg' = Unregister(reg, o)
      /\ \A k \in DOMAIN order : \A n \in DOMAIN Files[order[k]].exits :
           Unbuilt(k, n)' <=> Unbuilt(k, n) \/ (k = step /\ n = call)
  BY DestructFacts, Zenon
<1>2. reg \in Registry /\ IsInjective(reg.list) /\ reg.lost = {} /\ Linked \subseteq Objects
  <2>1. reg \in Registry
    BY DEF TypeOK, Registry
  <2>2. Linked \subseteq Objects
    BY <2>1, ToSetSeq DEF Linked, Registry
  <2> QED BY <2>1, <2>2 DEF RegInv
<1> HIDE DEF o, f
<1>3. /\ reg' \in Registry /\ IsInjective(reg'.list) /\ reg'.lost = {}
      /\ Linked' \subseteq Linked \ {o}
      /\ reg.freed \subseteq reg'.freed
      /\ reg'.freed \ reg.freed \subseteq {c \in Linked : c[3] = "clone"}
      /\ Linked' \cap (reg'.freed \ reg.freed) = {}
      /\ Linked \subseteq Linked' \cup reg'.freed \cup {o}
      /\ o \in Linked => Clone(o[1], o[2]) \notin Linked'
  BY <1>1, <1>2, UnregisterFacts DEF Linked
<1>4. Failed("exec")' <=> Failed("exec")
  BY <1>1 DEF Failed
<1>5. \A c \in reg'.freed : c[3] = "clone"
  BY <1>3 DEF RegInv
<1>6. \A x : x \in Linked /\ x[3] = "static" /\ x # o => x \in Linked'
  BY <1>3, <1>5
<1>7. ASSUME NEW c \in Linked' PROVE Static(c[1], c[2]) \in Linked'
  <2>1. c \in Linked /\ c \in Objects /\ c # o
    BY <1>2, <1>3
  <2>2. Static(c[1], c[2]) \in Linked /\ Static(c[1], c[2])[3] = "static"
    BY <2>1 DEF RegInv, Static
  <2>3. c = Static(c[1], c[2]) \/ c = Clone(c[1], c[2])
    BY <2>1, ObjectFacts DEF Static, Clone
  <2>4. ASSUME Static(c[1], c[2]) = o PROVE FALSE
    <3>1. o[1] = c[1] /\ o[2] = c[2]
      BY <2>4 DEF Static
    <3> QED BY <1>3, <2>1, <2>2, <2>3, <2>4, <3>1
  <2> QED BY <1>6, <2>2, <2>4
<1>8. RegInv'
  <2>1. Linked' \cap reg'.freed = {}
    BY <1>3 DEF RegInv
  <2>2. reg'.freed # {} => pc' \in {"dtor", "gone"} \/ Failed("exec")'
    BY <1>1, <1>4 DEF FaultInv
  <2> QED BY <1>3, <1>5, <1>7, <2>1, <2>2 DEF RegInv
<1>9. BuiltInv'
  <2>1. pc' # "ctor" /\ ~Whole'
    BY <1>1, <1>4 DEF FaultInv, Whole, Up
  <2> QED BY <2>1 DEF BuiltInv, OnlyBuilt, BuiltLinked, InOrder
<1>10. Forgotten \subseteq Linked'
  <2> SUFFICES ASSUME NEW x \in Forgotten PROVE x \in Linked'
    OBVIOUS
  <2>1. x \in Linked /\ x \in Objects /\ x[3] = "static"
    BY <1>1 DEF UnbuiltInv, Forgotten, Statics
  <2>2. o \notin Forgotten
    BY <1>1, DestructorAssumption
  <2> QED BY <1>6, <2>1, <2>2
<1>11. ASSUME ~Failed("malloc")', NEW c \in Objects, c[3] = "clone" PROVE c \in Linked' \cup reg'.freed
  <2>1. ~Failed("malloc")
    BY <1>1, <1>11 DEF Failed
  <2>2. c \in Linked \cup reg.freed
    BY <1>1, <1>11, <2>1 DEF UnbuiltInv
  <2>3. c # o
    BY <1>1, <1>11
  <2> QED BY <1>3, <2>2, <2>3
<1>12. ASSUME NEW k \in DOMAIN order, NEW n \in DOMAIN Files[order[k]].exits, Unbuilt(k, n)'
       PROVE  Static(order[k], Files[order[k]].exits[n]) \notin Linked'
  <2>1. CASE Unbuilt(k, n)
    BY <1>1, <1>3, <2>1 DEF UnbuiltInv
  <2>2. CASE k = step /\ n = call
    BY <1>3, <2>2 DEF o, f
  <2> QED BY <1>1, <1>12, <2>1, <2>2
<1>13. UnbuiltInv'
  BY <1>1, <1>10, <1>11, <1>12 DEF UnbuiltInv
<1> QED BY <1>3, <1>8, <1>9, <1>13

\* At the end of the constructors everything is linked, but for copies that
\* malloc() refused.
LEMMA AllBuilt ==
  ASSUME TypeOK, BuiltLinked, Whole, step = Len(order), NEW o \in Objects,
         o[3] = "static" \/ ~Failed("malloc")
  PROVE  o \in Linked
<1>1. PICK n \in DOMAIN Files[o[1]].inits : o = Made(o[1], n)
  BY ObjectFacts
<1>2. PICK k \in DOMAIN order : order[k] = o[1]
  BY ObjectFacts, OrderFacts DEF TypeOK
<1>3. Built(k, n)
  BY OrderFacts DEF TypeOK, Built
<1> QED BY <1>1, <1>2, <1>3 DEF BuiltLinked

\* The end of the destructors, in the process or in the child of a failed exec().
LEMMA RegExit ==
  ASSUME TypeOK, FaultInv, RegInv, UnbuiltInv, Exit
  PROVE  reg' \in Registry /\ RegInv' /\ BuiltInv' /\ UnbuiltInv'
<1>1. /\ reg' = reg /\ order' = order /\ faults' = faults /\ call' = call
      /\ (pc = "dtor" /\ pc' = "gone" /\ step' = step) \/ (pc = "child" /\ pc' = "loop")
  BY DEF Exit
<1>2. (Failed("exec")' <=> Failed("exec")) /\ (Failed("malloc")' <=> Failed("malloc"))
  BY <1>1 DEF Failed
<1>3. pc' = "loop" => Failed("exec")
  BY <1>1 DEF FaultInv
<1>4. reg' \in Registry
  BY <1>1 DEF TypeOK, Registry
<1>5. RegInv'
  BY <1>1, <1>2, <1>3 DEF RegInv, Linked
<1>6. BuiltInv'
  <2>1. pc' # "ctor" /\ ~Whole'
    BY <1>1, <1>2, <1>3 DEF Whole, Up
  <2> QED BY <2>1 DEF BuiltInv, OnlyBuilt, BuiltLinked, InOrder
<1>7. UnbuiltInv'
  <2>1. Forgotten \subseteq Linked' /\
        (~Failed("malloc")' => {c \in Objects : c[3] = "clone"} \subseteq Linked' \cup reg'.freed)
    BY <1>1, <1>2 DEF UnbuiltInv, Linked
  <2>2. CASE pc' = "gone"
    <3>1. \A k \in DOMAIN order : \A n \in DOMAIN Files[order[k]].exits :
            Unbuilt(k, n) => Static(order[k], Files[order[k]].exits[n]) \notin Linked
      BY <1>1, <2>2 DEF UnbuiltInv
    <3>2. \A k, n : Unbuilt(k, n)' <=> Unbuilt(k, n)
      BY <1>1, <2>2 DEF Unbuilt
    <3>3. Linked' = Linked
      BY <1>1 DEF Linked
    <3> QED BY <1>1, <2>1, <3>1, <3>2, <3>3 DEF UnbuiltInv
  <2>3. CASE pc' = "loop"
    BY <2>1, <2>3 DEF UnbuiltInv
  <2> QED BY <1>1, <2>2, <2>3
<1> QED BY <1>4, <1>5, <1>6, <1>7

\* The other steps leave the registry alone.
LEMMA RegQuiet ==
  ASSUME TypeOK, StepInv, RegInv, BuiltInv, UnbuiltInv, Quiet
  PROVE  reg' \in Registry /\ RegInv' /\ BuiltInv' /\ UnbuiltInv'
<1>1. /\ reg' = reg /\ order' = order /\ step' = step /\ call' = call /\ faults \subseteq faults'
      /\ Linked' = Linked
  BY DEF Quiet, Linked
<1>2. (Failed("exec") => Failed("exec")') /\ (Failed("malloc") => Failed("malloc")')
  BY <1>1, FailedGrows
<1>3. \/ pc' = pc
      \/ pc = "ctor" /\ step = Len(order) /\ pc' \in {"alloc", "dtor"}
      \/ /\ pc \in Up \ {"child"} /\ pc' \in Up \cup {"dtor", "segv"}
         /\ pc' = "child" => Failed("exec")'
  BY DEF Quiet
<1>4. reg' \in Registry
  BY <1>1 DEF TypeOK, Registry
<1>5. RegInv'
  <2>1. reg.freed # {} => pc' \in {"dtor", "gone"} \/ Failed("exec")'
    <3>1. pc = "ctor" => reg.freed = {}
      BY DEF BuiltInv, OnlyBuilt
    <3> QED BY <1>2, <1>3, <3>1 DEF RegInv, Up
  <2> QED BY <1>1, <2>1 DEF RegInv
<1>6. (Whole' => Whole) /\ (pc' = "ctor" => pc = "ctor")
  BY <1>2, <1>3 DEF Whole, Up
<1>7. \A k, n : (Built(k, n)' <=> Built(k, n)) /\ (Unbuilt(k, n)' <=> Unbuilt(k, n))
  BY <1>1 DEF Built, Unbuilt
<1>8. OnlyBuilt'
  BY <1>1, <1>6, <1>7 DEF BuiltInv, OnlyBuilt
<1>9. BuiltLinked'
  BY <1>1, <1>2, <1>6, <1>7 DEF BuiltInv, BuiltLinked
<1>10. InOrder'
  BY <1>1, <1>6 DEF BuiltInv, InOrder
<1>11. ASSUME pc' \notin {"ctor", "segv"}
       PROVE  /\ Forgotten \subseteq Linked
              /\ ~Failed("malloc") => {c \in Objects : c[3] = "clone"} \subseteq Linked \cup reg.freed
  <2>1. CASE pc = "ctor"
    <3>1. step = Len(order) /\ Whole
      BY <1>3, <1>11, <2>1 DEF Up, Whole
    <3>2. BuiltLinked
      BY DEF BuiltInv
    <3>3. \A o \in Objects : o[3] = "static" \/ ~Failed("malloc") => o \in Linked
      BY <3>1, <3>2, AllBuilt, Zenon
    <3> QED BY <3>3 DEF Forgotten, Statics
  <2>2. CASE pc # "ctor"
    <3>1. pc # "segv"
      BY <1>3, <1>11 DEF Up
    <3> QED BY <2>2, <3>1 DEF UnbuiltInv
  <2> QED BY <2>1, <2>2
<1>12. ASSUME pc' \in {"dtor", "child", "gone"},
              NEW k \in DOMAIN order, NEW n \in DOMAIN Files[order[k]].exits, Unbuilt(k, n)
       PROVE  Static(order[k], Files[order[k]].exits[n]) \notin Linked
  <2>1. CASE pc' = pc
    BY <1>12, <2>1 DEF UnbuiltInv
  <2>2. CASE pc' # pc
    <3>1. step = Len(order) /\ call = 1
      <4>1. Len(order) \in Nat
        BY OrderFacts DEF TypeOK
      <4> QED BY <1>3, <2>2, <4>1 DEF StepInv, Up
    <3>2. DOMAIN order = 1..Len(order) /\ Len(order) \in Nat /\ order[k] \in DOMAIN Files
      BY OrderFacts DEF TypeOK
    <3>3. DOMAIN Files[order[k]].exits = 1..Len(Files[order[k]].exits)
      BY <3>2, TableFacts
    <3> QED BY <1>12, <3>1, <3>2, <3>3 DEF Unbuilt
  <2> QED BY <2>1, <2>2
<1>13. UnbuiltInv'
  BY <1>1, <1>2, <1>7, <1>11, <1>12 DEF UnbuiltInv
<1> QED BY <1>4, <1>5, <1>8, <1>9, <1>10, <1>13 DEF BuiltInv

-----------------------------------------------------------------------------
(* The memory of a turn of the restart loop *)

\* Generations in use have been allocated.
GenOK ==
  /\ pc \in PC /\ gen \in 0..(MaxRestarts + 1)
  /\ ctx \in 0..gen /\ param \in 0..gen /\ cfg \in 0..gen /\ globals \in 0..gen
  /\ mode \in {"daemon", "once", "check", "list"}

\* The context, the configuration and the infos keep their owners.
LEMMA NextMem ==
  ASSUME GenOK, MemInv, [Next]_vars
  PROVE  GenOK' /\ MemInv'
<1>1. MaxRestarts \in Nat
  BY BoundAssumption
<1> USE <1>1 DEF GenOK, MemInv, PC, memory
<1>2. CASE Construct
  BY <1>2 DEF Construct
<1>3. CASE Main
  BY <1>3 DEF Main
<1>4. CASE StartFails
  BY <1>4 DEF StartFails
<1>5. CASE AllocContext
  BY <1>5 DEF AllocContext, Allocated
<1>6. CASE InstallSignalHandler
  BY <1>6 DEF InstallSignalHandler
<1>7. CASE ParseFile
  <2>1. \A s : \A i \in CreateProviders(s) : i.cfg = gen
    BY DEF CreateProviders, Info
  <2> QED BY <1>7, <2>1 DEF ParseFile
<1>8. CASE WritePidfile
  BY <1>8 DEF WritePidfile
<1>9. CASE ExecFails
  BY <1>9 DEF ExecFails
<1>10. CASE UseFreed
  BY <1>10 DEF UseFreed
<1>11. CASE LoopEnds
  BY <1>11 DEF LoopEnds
<1>12. CASE FreeContext
  BY <1>12 DEF FreeContext
<1>13. CASE CfgFree
  BY <1>13 DEF CfgFree
<1>14. CASE Leave
  BY <1>14 DEF Leave
<1>15. CASE Destruct
  BY <1>15 DEF Destruct
<1>16. CASE Exit
  BY <1>16 DEF Exit
<1>17. CASE Signal
  BY <1>17 DEF Signal
<1>18. CASE Other
  BY <1>18 DEF Other, OtherStarts, OtherWrites, OtherEnds
<1>19. CASE UNCHANGED vars
  BY <1>19 DEF vars
<1> QED BY <1>2, <1>3, <1>4, <1>5, <1>6, <1>7, <1>8, <1>9, <1>10, <1>11, <1>12,
           <1>13, <1>14, <1>15, <1>16, <1>17, <1>18, <1>19 DEF Next

\* The infos change only where conf_parse_file() adds some and free_context()
\* frees them.
LEMMA InfoMoves ==
  ASSUME [Next]_vars
  PROVE  \/ infos' = infos
         \/ infos' = {}
         \/ \E c \in Configs : infos' = infos \cup CreateProviders(c)
BY DEF Next, vars, memory, Construct, Main, StartFails, AllocContext, InstallSignalHandler,
       ParseFile, WritePidfile, ExecFails, UseFreed, LoopEnds, FreeContext, CfgFree, Leave,
       Destruct, Exit, Signal, Other, OtherStarts, OtherWrites, OtherEnds

\* What set_provider_opts() puts into an info.
LEMMA InfoFacts ==
  ASSUME reg \in Registry, NEW c \in Configs, NEW i \in CreateProviders(c)
  PROVE  i.sys \in Linked /\ i.sys \in Objects /\ i.aliases \in 0..MaxAlias
<1>1. PICK s \in ToSet(c) : Known(s) /\ i = Info(Find(reg.list, s.title), s)
  BY DEF CreateProviders
<1> DEFINE o == Find(reg.list, s.title)
<1>2. reg.list \in Seq(Objects)
  BY DEF Registry
<1>3. o # Null
  BY <1>1 DEF Known
<1>4. o \in Linked
  BY <1>2, <1>3, FindFacts DEF Linked
<1>5. o \in Objects
  BY <1>2, <1>4, ToSetSeq DEF Linked
<1> HIDE DEF o
<1>6. /\ i.sys = o
      /\ i.aliases = IF s.hostnames > MaxAlias THEN MaxAlias ELSE s.hostnames
  BY <1>1 DEF Info, o
<1>7. i.aliases \in 0..MaxAlias
  <2>1. s.hostnames \in Nat /\ MaxAlias \in Nat
    BY BoundAssumption
  <2> QED BY <1>6, <2>1
<1> QED BY <1>4, <1>5, <1>6, <1>7

\* The infos point to objects, and have no more aliases than fit.
LEMMA NextInfos ==
  ASSUME reg \in Registry, \A i \in infos : i.sys \in Objects /\ i.aliases \in 0..MaxAlias,
         [Next]_vars
  PROVE  \A i \in infos' : i.sys \in Objects /\ i.aliases \in 0..MaxAlias
<1> SUFFICES ASSUME NEW i \in infos' PROVE i.sys \in Objects /\ i.aliases \in 0..MaxAlias
  OBVIOUS
<1>1. CASE i \in infos
  BY <1>1
<1>2. CASE \E c \in Configs : i \in CreateProviders(c)
  BY <1>2, InfoFacts
<1> QED BY <1>1, <1>2, InfoMoves

\* A step is a failed malloc(), a failed exec(), or no call of it fails.
LEMMA FaultMoves ==
  ASSUME [Next]_vars
  PROVE  faults' = faults \/ Faulty("malloc") \/ Faulty("exec")
BY DEF Next, vars, Construct, Main, StartFails, AllocContext, InstallSignalHandler,
       ParseFile, WritePidfile, ExecFails, UseFreed, LoopEnds, FreeContext, CfgFree, Leave,
       Destruct, Exit, Signal, Other, OtherStarts, OtherWrites, OtherEnds

\* Failed calls are counted.
LEMMA NextCount ==
  ASSUME IsFiniteSet(faults), Cardinality(faults) <= MaxFaults, [Next]_vars
  PROVE  IsFiniteSet(faults') /\ Cardinality(faults') <= MaxFaults
<1>1. MaxFaults \in Nat
  BY BoundAssumption
<1>2. CASE faults' = faults
  BY <1>2
<1>3. ASSUME NEW w, Faulty(w) PROVE IsFiniteSet(faults') /\ Cardinality(faults') <= MaxFaults
  <2> DEFINE f == <<w, Cardinality(faults)>>
  <2>1. faults' = faults \cup {f} /\ Cardinality(faults) < MaxFaults
    BY <1>3 DEF Faulty
  <2>2. /\ IsFiniteSet(faults \cup {f})
        /\ Cardinality(faults \cup {f}) = IF f \in faults THEN Cardinality(faults) ELSE Cardinality(faults) + 1
    BY FS_AddElement, Zenon
  <2>3. Cardinality(faults) \in Nat
    BY FS_CardinalityType
  <2> HIDE DEF f
  <2> QED BY <1>1, <2>1, <2>2, <2>3
<1> QED BY <1>2, <1>3, FaultMoves

\* A context that is missing was refused by malloc(), a child is there because
\* exec() failed.
LEMMA NextFault ==
  ASSUME gen \in Nat, FaultInv, IsFiniteSet(faults'), [Next]_vars
  PROVE  FaultInv'
<1>1. ASSUME NEW w, Failed(w) PROVE Failed(w)'
  <2>1. faults \subseteq faults'
    <3>1. \A v : Faulty(v) => faults \subseteq faults'
      BY DEF Faulty
    <3> QED BY <3>1, FaultMoves
  <2> QED BY <1>1, <2>1, FailedGrows
<1>2. ASSUME pc' = "child" PROVE Failed("exec")'
  <2>1. pc = "child" \/ Faulty("exec")
    BY <1>2 DEF Next, vars, memory, Construct, Main, StartFails, AllocContext, Allocated,
         InstallSignalHandler, ParseFile, WritePidfile, ExecFails, UseFreed, LoopEnds, FreeContext,
         CfgFree, Leave, Destruct, Exit, Signal, Other, OtherStarts, OtherWrites, OtherEnds
  <2> QED BY <1>1, <2>1, FaultyFails DEF FaultInv
<1>3. ASSUME pc' \in {"handler", "parse"}, ctx' = 0 PROVE Failed("malloc")'
  <2>1. (pc \in {"handler", "parse"} /\ ctx = 0) \/ AllocContext
    BY <1>3 DEF Next, vars, memory, Construct, Main, StartFails,
         InstallSignalHandler, ParseFile, WritePidfile, ExecFails, UseFreed, LoopEnds, FreeContext,
         CfgFree, Leave, Destruct, Exit, Signal, Other, OtherStarts, OtherWrites, OtherEnds
  <2>2. CASE AllocContext
    <3>1. ctx' = gen + 1 \/ Faulty("malloc")
      BY <2>2 DEF AllocContext
    <3> QED BY <1>3, <3>1, FaultyFails
  <2> QED BY <1>1, <2>1, <2>2 DEF FaultInv
<1> QED BY <1>2, <1>3 DEF FaultInv

\* A crash has a cause, and the cause is remembered.
LEMMA NextCrash ==
  ASSUME TypeOK, MemInv, FaultInv, RegInv, CrashExcused, FaultInv', [Next]_vars
  PROVE  CrashExcused'
<1> SUFFICES ASSUME pc' = "segv"
             PROVE  Failed("malloc")' \/ (Failed("exec")' /\ \E i \in infos' : i.sys[3] = "clone")
  BY DEF CrashExcused
<1>1. CASE Construct
  BY <1>1, FaultyFails DEF Construct
<1>2. CASE ParseFile
  <2>1. pc = "parse" /\ ctx = 0 /\ faults' = faults
    BY <1>2 DEF ParseFile, TypeOK
  <2> QED BY <2>1 DEF FaultInv, Failed
<1>3. CASE UseFreed
  <2>1. PICK i \in infos : i.sys \in reg.freed
    BY <1>3 DEF UseFreed
  <2>2. pc = "loop" /\ infos' = infos /\ faults' = faults
    BY <1>3 DEF UseFreed, memory
  <2>3. Failed("exec") /\ i.sys[3] = "clone"
    BY <2>1, <2>2 DEF RegInv
  <2> QED BY <2>1, <2>2, <2>3 DEF Failed
<1>4. ASSUME ~Construct, ~ParseFile, ~UseFreed
      PROVE  pc = "segv" /\ infos' = infos /\ faults' = faults
  BY <1>4 DEF Next, vars, memory, Main, StartFails, AllocContext, Allocated, InstallSignalHandler,
       WritePidfile, ExecFails, LoopEnds, FreeContext, CfgFree, Leave, Destruct, Exit, Signal,
       Other, OtherStarts, OtherWrites, OtherEnds
<1>5. CASE pc = "segv" /\ infos' = infos /\ faults' = faults
  BY <1>5 DEF CrashExcused, Failed
<1> QED BY <1>1, <1>2, <1>3, <1>4, <1>5

-----------------------------------------------------------------------------
(* The PID file *)

PidOK ==
  /\ pidfile \in {0, Me, You} /\ wrote \subseteq {Me, You} /\ raced \in BOOLEAN
  /\ other \in {"gone", "checked", "running"}

\* The PID file stays with its daemon.
LEMMA NextPid ==
  ASSUME PidOK, PidInv, [Next]_vars
  PROVE  PidOK' /\ PidInv'
<1> USE DEF PidOK, PidInv, Up, Me, You, pids
<1>2. CASE Construct
  BY <1>2 DEF Construct
<1>3. CASE Main
  BY <1>3 DEF Main
<1>4. CASE StartFails
  BY <1>4 DEF StartFails
<1>5. CASE AllocContext
  BY <1>5 DEF AllocContext, Allocated
<1>6. CASE InstallSignalHandler
  BY <1>6 DEF InstallSignalHandler
<1>7. CASE ParseFile
  BY <1>7 DEF ParseFile
<1>8. CASE WritePidfile
  BY <1>8 DEF WritePidfile
<1>9. CASE ExecFails
  BY <1>9 DEF ExecFails
<1>10. CASE UseFreed
  BY <1>10 DEF UseFreed
<1>11. CASE LoopEnds
  BY <1>11 DEF LoopEnds
<1>12. CASE FreeContext
  BY <1>12 DEF FreeContext
<1>13. CASE CfgFree
  BY <1>13 DEF CfgFree
<1>14. CASE Leave
  BY <1>14 DEF Leave
<1>15. CASE Destruct
  BY <1>15 DEF Destruct
<1>16. CASE Exit
  BY <1>16 DEF Exit
<1>17. CASE Signal
  BY <1>17 DEF Signal
<1>18. CASE Other
  <2>1. CASE OtherStarts
    BY <2>1 DEF OtherStarts, Alive
  <2>2. CASE OtherWrites
    BY <2>2 DEF OtherWrites
  <2>3. CASE OtherEnds
    BY <2>3 DEF OtherEnds
  <2> QED BY <1>18, <2>1, <2>2, <2>3 DEF Other
<1>19. CASE UNCHANGED vars
  BY <1>19 DEF vars
<1> QED BY <1>2, <1>3, <1>4, <1>5, <1>6, <1>7, <1>8, <1>9, <1>10, <1>11, <1>12,
           <1>13, <1>14, <1>15, <1>16, <1>17, <1>18, <1>19 DEF Next

-----------------------------------------------------------------------------
(* The theorems *)

\* The parts of TypeOK.
LEMMA TypeParts ==
  TypeOK <=>
    /\ GenOK /\ PidOK /\ reg \in Registry
    /\ order \in Orders /\ step \in 0..Len(order) /\ call \in Nat \ {0}
    /\ \A i \in infos : i.sys \in Objects /\ i.aliases \in 0..MaxAlias
    /\ Cardinality(faults) <= MaxFaults /\ wild \in BOOLEAN
BY DEF TypeOK, GenOK, PidOK, Registry

\* The invariant holds before the first constructor.
LEMMA InitInv == Init => IInv
<1> SUFFICES ASSUME Init PROVE IInv
  OBVIOUS
<1>1. /\ order \in Orders /\ Len(order) \in Nat /\ DOMAIN order = 1..Len(order)
      /\ \A k \in DOMAIN order : order[k] \in DOMAIN Files
  BY OrderFacts DEF Init
<1>2. reg.list = <<>> /\ reg.freed = {} /\ reg.lost = {} /\ reg = Empty
  BY DEF Init, Empty
<1>3. reg \in Registry
  BY <1>2 DEF Registry, Empty
<1>4. Linked = {} /\ DOMAIN reg.list = {}
  BY <1>2 DEF Linked, ToSet
<1>5. faults = {} /\ IsFiniteSet(faults) /\ Cardinality(faults) = 0
  BY FS_EmptySet DEF Init
<1>6. TypeOK
  <2>1. GenOK
    BY BoundAssumption DEF Init, GenOK, PC
  <2>2. PidOK
    BY DEF Init, PidOK
  <2>3. step \in 0..Len(order) /\ call \in Nat \ {0}
    BY <1>1 DEF Init
  <2>4. Cardinality(faults) <= MaxFaults
    BY <1>5, BoundAssumption
  <2>5. (\A i \in infos : i.sys \in Objects /\ i.aliases \in 0..MaxAlias) /\ wild \in BOOLEAN
    BY DEF Init
  <2> QED BY <1>1, <1>3, <2>1, <2>2, <2>3, <2>4, <2>5, TypeParts
<1>7. StepInv
  <2>1. Len(order) > 0 => Len(Files[order[1]].inits) \in Nat \ {0}
    BY <1>1, TableFacts
  <2> QED BY <1>1, <2>1 DEF Init, StepInv, Up
<1>8. MemInv /\ FaultInv /\ PidInv /\ CrashExcused
  BY <1>5 DEF Init, MemInv, FaultInv, PidInv, CrashExcused, Up
<1>9. RegInv
  BY <1>2, <1>4 DEF RegInv, IsInjective
<1>10. \A k \in DOMAIN order : \A n \in DOMAIN Files[order[k]].inits : ~Built(k, n)
  <2> SUFFICES ASSUME NEW k \in DOMAIN order, NEW n \in DOMAIN Files[order[k]].inits, Built(k, n)
               PROVE  FALSE
    OBVIOUS
  <2>1. DOMAIN Files[order[k]].inits = 1..Len(Files[order[k]].inits)
    BY <1>1, TableFacts
  <2> QED BY <1>1, <2>1 DEF Init, Built
<1>11. BuiltInv
  BY <1>2, <1>4, <1>10 DEF BuiltInv, OnlyBuilt, BuiltLinked, InOrder
<1>12. UnbuiltInv
  BY DEF Init, UnbuiltInv
<1> QED BY <1>6, <1>7, <1>8, <1>9, <1>11, <1>12 DEF IInv

\* Every step keeps the registry in order.
LEMMA NextReg ==
  ASSUME IInv, [Next]_vars
  PROVE  reg' \in Registry /\ RegInv' /\ BuiltInv' /\ UnbuiltInv'
<1> USE DEF IInv
<1>1. CASE Construct
  BY <1>1, RegConstruct
<1>2. CASE Destruct
  BY <1>2, RegDestruct
<1>3. CASE Exit
  BY <1>3, RegExit
<1>4. CASE Quiet
  BY <1>4, RegQuiet
<1> QED BY <1>1, <1>2, <1>3, <1>4, Moves

\* Every step preserves the invariant.
LEMMA NextInv == IInv /\ [Next]_vars => IInv'
<1> SUFFICES ASSUME IInv, [Next]_vars PROVE IInv'
  OBVIOUS
<1>1. /\ TypeOK /\ StepInv /\ MemInv /\ FaultInv /\ PidInv /\ RegInv /\ BuiltInv /\ UnbuiltInv
      /\ CrashExcused
  BY DEF IInv
<1>2. /\ GenOK /\ PidOK /\ reg \in Registry /\ order \in Orders /\ wild \in BOOLEAN
      /\ \A i \in infos : i.sys \in Objects /\ i.aliases \in 0..MaxAlias
      /\ Cardinality(faults) <= MaxFaults
  BY <1>1, TypeParts
<1>3. GenOK' /\ MemInv'
  BY <1>1, <1>2, NextMem
<1>4. PidOK' /\ PidInv'
  BY <1>1, <1>2, NextPid
<1>5. reg' \in Registry /\ RegInv' /\ BuiltInv' /\ UnbuiltInv'
  BY NextReg
<1>6. order' = order /\ step' \in 0..Len(order) /\ call' \in Nat \ {0} /\ StepInv'
  BY <1>1, NextStep
<1>7. \A i \in infos' : i.sys \in Objects /\ i.aliases \in 0..MaxAlias
  BY <1>1, <1>2, NextInfos
<1>8. IsFiniteSet(faults') /\ Cardinality(faults') <= MaxFaults
  <2>1. IsFiniteSet(faults)
    BY <1>1 DEF FaultInv
  <2> QED BY <1>2, <2>1, NextCount
<1>9. FaultInv'
  <2>1. gen \in Nat
    BY <1>2 DEF GenOK
  <2> QED BY <1>1, <1>8, <2>1, NextFault
<1>10. CrashExcused'
  BY <1>1, <1>9, NextCrash
<1>11. wild' \in BOOLEAN
  BY <1>2 DEF Next, vars, Construct, Main, StartFails, AllocContext, InstallSignalHandler,
       ParseFile, WritePidfile, ExecFails, UseFreed, LoopEnds, FreeContext, CfgFree, Leave,
       Destruct, Exit, Signal, Other, OtherStarts, OtherWrites, OtherEnds
<1>12. TypeOK'
  <2>1. order' \in Orders /\ step' \in 0..Len(order')
    BY <1>2, <1>6
  <2> QED BY <1>3, <1>4, <1>5, <1>6, <1>7, <1>8, <1>11, <2>1 DEF TypeOK, GenOK, PidOK, Registry
<1> QED BY <1>3, <1>4, <1>5, <1>6, <1>7, <1>9, <1>10, <1>12 DEF IInv

\* The invariant holds in every reachable state.
LEMMA Invariance == Spec => []IInv
<1>1. IInv /\ UNCHANGED vars => IInv'
  BY NextInv
<1> QED BY InitInv, NextInv, PTL DEF Spec

\* Type correctness: in particular no context, configuration or global is of a
\* generation that was not allocated, and no info has more aliases than it can
\* hold, whatever the configuration file says.
THEOREM TypeCorrect == Spec => []TypeOK
<1>1. IInv => TypeOK
  BY DEF IInv
<1> QED BY <1>1, Invariance, PTL

\* The update loop runs on the memory of its own turn, however often SIGHUP
\* restarts it and whichever allocation or parse failed before.
THEOREM TurnFresh == Spec => []TurnIsFresh
<1>1. IInv => TurnIsFresh
  BY DEF IInv, MemInv, TurnIsFresh
<1> QED BY <1>1, Invariance, PTL

\* The process crashes for no other reason than a failed malloc(), or a failed
\* exec() with a copied system in use.
THEOREM CrashesExcused == Spec => []CrashExcused
<1>1. IInv => CrashExcused
  BY DEF IInv
<1> QED BY <1>1, Invariance, PTL

\* The PID file names the daemon that wrote it, unless both looked too early.
THEOREM PidfileOwned == Spec => []PidfileMine
<1>1. IInv => PidfileMine
  BY DEF IInv, TypeOK, PidInv, PidfileMine, Up
<1> QED BY <1>1, Invariance, PTL

\* For every order of the constructors, the registry links no freed copy, loses
\* none, and an info uses a freed one only after a failed exec().
THEOREM RegistryLive == Spec => []SystemsLive
<1>1. IInv => SystemsLive
  <2> SUFFICES ASSUME IInv PROVE SystemsLive
    OBVIOUS
  <2>1. Linked \cap reg.freed = {} /\ reg.lost = {}
    BY DEF IInv, RegInv
  <2>2. ASSUME ~Failed("exec"), NEW i \in infos, i.sys \in reg.freed PROVE FALSE
    <3>1. pc \in {"loop", "child", "free", "segv"}
      BY <2>2 DEF IInv, MemInv
    <3>2. pc \in {"dtor", "gone"}
      BY <2>2 DEF IInv, RegInv
    <3> QED BY <3>1, <3>2
  <2> QED BY <2>1, <2>2 DEF SystemsLive
<1> QED BY <1>1, Invariance, PTL

\* A signal handler writes into freed memory only in the gaps of the restart loop.
THEOREM WildInGap == Spec => WildOnlyInGap
<1>1. IInv /\ [Next]_vars => (wild' # wild => ctx = 0 \/ pc = "handler") \/ UNCHANGED vars
  <2> SUFFICES ASSUME IInv, [Next]_vars, wild' # wild PROVE ctx = 0 \/ pc = "handler"
    OBVIOUS
  <2>1. Signal
    BY DEF Next, vars, Construct, Main, StartFails, AllocContext, InstallSignalHandler,
       ParseFile, WritePidfile, ExecFails, UseFreed, LoopEnds, FreeContext, CfgFree, Leave,
       Destruct, Exit, Other, OtherStarts, OtherWrites, OtherEnds
  <2> QED BY <2>1 DEF Signal, IInv, MemInv
<1> QED BY <1>1, Invariance, PTL DEF Spec, WildOnlyInGap

\* At the end nothing is left of the plugins but the two IPv6 systems that dhis.c
\* and dnshome.c forget, and every copy was freed, whatever the order of the
\* constructors, the restarts and the failed scripts of this life.
THEOREM Unregistered == Spec => []AllUnregistered
<1>1. IInv => AllUnregistered
  <2> SUFFICES ASSUME IInv, pc = "gone"
               PROVE  Linked = Forgotten /\ (~Failed("malloc") => reg.freed = Objects \ Statics)
    BY DEF AllUnregistered
  <2>1. TypeOK /\ RegInv /\ UnbuiltInv /\ step = 0
    BY DEF IInv, StepInv
  <2>2. Linked \subseteq Objects /\ reg.freed \subseteq Objects
    BY <2>1, ToSetSeq DEF TypeOK, Linked
  <2>3. ASSUME NEW x \in Linked PROVE x \in Forgotten
    <3> SUFFICES ASSUME x \notin Forgotten PROVE FALSE
      OBVIOUS
    <3>1. x \in Objects /\ x[1] \in DOMAIN Files
      BY <2>2, ObjectFacts
    <3>2. PICK n \in DOMAIN Files[x[1]].exits : Files[x[1]].exits[n] = x[2]
      BY <3>1, DestructorAssumption
    <3>3. PICK k \in DOMAIN order : order[k] = x[1]
      BY <2>1, <3>1, OrderFacts DEF TypeOK
    <3>4. k > 0
      BY <2>1, OrderFacts DEF TypeOK
    <3>5. Static(x[1], x[2]) \notin Linked
      BY <2>1, <3>2, <3>3, <3>4 DEF UnbuiltInv, Unbuilt
    <3> QED BY <2>1, <3>5 DEF RegInv
  <2>4. Forgotten \subseteq Linked
    BY <2>1 DEF UnbuiltInv
  <2>5. ASSUME ~Failed("malloc") PROVE reg.freed = Objects \ Statics
    <3>1. \A c \in reg.freed : c \in Objects \ Statics
      BY <2>1, <2>2 DEF RegInv, Statics
    <3>2. ASSUME NEW c \in Objects \ Statics PROVE c \in reg.freed
      <4>1. c[3] = "clone"
        BY ObjectFacts DEF Statics
      <4>2. c \in Linked \cup reg.freed
        BY <2>1, <2>5, <4>1 DEF UnbuiltInv
      <4>3. c \notin Linked
        BY <2>3 DEF Forgotten
      <4> QED BY <4>2, <4>3
    <3> QED BY <3>1, <3>2
  <2> QED BY <2>3, <2>4, <2>5
<1> QED BY <1>1, Invariance, PTL

\* A list without repetitions is as long as its set is large.
LEMMA LengthOfSet ==
  ASSUME NEW S, NEW s \in Seq(S), IsInjective(s)
  PROVE  Len(s) = Cardinality(ToSet(s))
<1> DEFINE n == Len(s)
           f == [i \in 1..n |-> s[i]]
<1>1. n \in Nat /\ DOMAIN s = 1..n
  BY ToSetSeq
<1>2. IsFiniteSet(1..n) /\ Cardinality(1..n) = n
  <2>1. n = 0 => n - 1 + 1 = n
    BY <1>1
  <2> QED BY <1>1, FS_Interval
<1>3. f \in Bijection(1..n, ToSet(s))
  <2>1. \A i \in 1..n : s[i] \in ToSet(s)
    BY ToSetSeq
  <2>2. \A i, j \in 1..n : s[i] = s[j] => i = j
    BY <1>1 DEF IsInjective
  <2>3. \A x \in ToSet(s) : \E i \in 1..n : s[i] = x
    BY ToSetSeq
  <2> QED BY <2>1, <2>2, <2>3 DEF Bijection, Injection, Surjection
<1>4. ExistsBijection(1..n, ToSet(s))
  BY <1>3 DEF ExistsBijection
<1> HIDE DEF n, f
<1> QED BY <1>2, <1>4, FS_Bijection DEF n

\* The alias of a system leads to the first of those that carry it, and that is
\* the system itself, not its copy.
LEMMA AliasFound ==
  ASSUME TypeOK, RegInv, BuiltInv, Whole, NEW o \in Statics, o \in Linked, AliasOf(o) # NoName
  PROVE  FindExact(reg.list, AliasOf(o)) = o
<1> DEFINE name == AliasOf(o)
           hits == Matches(reg.list, name)
<1>1. reg.list \in Seq(Objects) /\ o \in Objects /\ o[3] = "static"
  BY DEF TypeOK, Statics
<1>2. Linked \subseteq Objects /\ DOMAIN reg.list = 1..Len(reg.list) /\ Len(reg.list) \in Nat
  BY <1>1, ToSetSeq DEF Linked
<1>3. PICK h \in DOMAIN reg.list : reg.list[h] = o
  BY <1>1, <1>2, ToSetSeq DEF Linked
<1>4. h \in hits /\ hits \in SUBSET DOMAIN reg.list
  BY <1>3 DEF Matches
<1>5. PICK i \in hits : FirstOf(reg.list, hits) = reg.list[i] /\ \A j \in hits : i <= j
  <2> HIDE DEF hits
  <2> QED BY <1>1, <1>4, FirstOfFacts
<1> DEFINE p == reg.list[i]
<1>6. p \in Linked /\ p \in Objects /\ i \in DOMAIN reg.list
  BY <1>1, <1>2, <1>4, ToSetSeq DEF Linked
<1> HIDE DEF p
<1>7. p[1] = o[1] /\ p[2] = o[2]
  <2>1. name = NameOf(p) \/ name = AliasOf(p)
    BY <1>5 DEF Matches, p
  <2>2. name # NameOf(p)
    BY <1>1, <1>6, NamesApart
  <2> QED BY <1>1, <1>6, <2>1, <2>2, NamesApart
<1>8. p[3] = "static"
  <2> SUFFICES ASSUME p[3] # "static" PROVE FALSE
    OBVIOUS
  <2>1. p[3] = "clone" /\ o = Static(p[1], p[2])
    BY <1>1, <1>6, <1>7, ObjectFacts DEF Static
  <2>2. PICK n \in DOMAIN Files[p[1]].inits : p = Made(p[1], n)
    BY <1>6, ObjectFacts
  <2>3. p[1] \in DOMAIN Files
    BY <1>6, ObjectFacts
  <2>4. p[2] = Files[p[1]].inits[n].sys /\ Files[p[1]].inits[n].v6
    BY <2>1, <2>2, <2>3, MadeFacts
  <2>5. PICK m \in 1..(n - 1) : Made(p[1], m) = o
    <3>1. \E m \in 1..(n - 1) : Made(p[1], m) = Static(p[1], Files[p[1]].inits[n].sys)
      BY <2>3, <2>4, ConstructorAssumption
    <3> QED BY <2>1, <2>4, <3>1
  <2>6. DOMAIN Files[p[1]].inits = 1..Len(Files[p[1]].inits) /\ Len(Files[p[1]].inits) \in Nat
    BY <2>3, TableFacts
  <2>7. m \in DOMAIN Files[p[1]].inits /\ m < n
    BY <2>6
  <2>8. PICK k \in DOMAIN order : order[k] = p[1]
    BY <2>3, OrderFacts DEF TypeOK
  <2>9. PICK j \in 1..(i - 1) : reg.list[j] = o
    BY <1>1, <1>6, <2>2, <2>5, <2>7, <2>8 DEF BuiltInv, InOrder, p
  <2>10. j \in hits /\ j < i
    BY <1>2, <1>6, <2>9 DEF Matches
  <2> QED BY <1>2, <1>4, <1>5, <2>10
<1>9. p = o
  BY <1>1, <1>6, <1>7, <1>8, ObjectFacts
<1> QED BY <1>5, <1>9 DEF FindExact, p

\* Names resolve for every order in which the constructors may run, not only for
\* the orders of the runs: none of the plugins shadows another.
THEOREM NamesResolved == Spec => []NamesResolve
<1>1. IInv => NamesResolve
  <2> SUFFICES ASSUME IInv, Running, faults = {}
               PROVE  /\ Linked = Objects /\ Len(reg.list) = Cardinality(Objects)
                      /\ \A o \in Objects : FindExact(reg.list, NameOf(o)) = o
                      /\ \A o \in Statics : AliasOf(o) # NoName => FindExact(reg.list, AliasOf(o)) = o
    BY DEF NamesResolve
  <2>1. TypeOK /\ RegInv /\ BuiltInv /\ StepInv
    BY DEF IInv
  <2>2. ~Failed("malloc") /\ ~Failed("exec") /\ step = Len(order)
    BY DEF Failed, Running
  <2>3. CASE pc # "gone"
    <3>1. Whole
      <4>1. pc \in PC
        BY <2>1 DEF TypeOK
      <4> QED BY <2>2, <2>3, <4>1 DEF Whole, Running, PC, Up
    <3>2. reg.list \in Seq(Objects) /\ IsInjective(reg.list)
      BY <2>1 DEF TypeOK, RegInv
    <3>3. Linked = Objects
      <4>1. Linked \subseteq Objects
        BY <3>2, ToSetSeq DEF Linked
      <4>2. BuiltLinked
        BY <2>1 DEF BuiltInv
      <4>3. \A o \in Objects : o \in Linked
        BY <2>1, <2>2, <3>1, <4>2, AllBuilt
      <4> QED BY <4>1, <4>3
    <3>4. Len(reg.list) = Cardinality(Objects)
      BY <3>2, <3>3, LengthOfSet DEF Linked
    <3>5. \A o \in Objects : FindExact(reg.list, NameOf(o)) = o
      BY <3>2, <3>3, FindByName DEF Linked
    <3>6. \A o \in Statics : AliasOf(o) # NoName => FindExact(reg.list, AliasOf(o)) = o
      <4>1. \A o \in Statics : o \in Linked
        BY <3>3 DEF Statics
      <4> QED BY <2>1, <3>1, <4>1, AliasFound
    <3> QED BY <3>3, <3>4, <3>5, <3>6
  <2>4. CASE pc = "gone"
    <3>1. Len(order) = 0
      BY <2>1, <2>2, <2>4 DEF StepInv
    <3>2. \A f : f \notin DOMAIN Files
      BY <2>1, <3>1, OrderFacts DEF TypeOK
    <3>3. Objects = {} /\ Statics = {}
      BY <3>2 DEF Objects, Statics
    <3>4. reg.list \in Seq(Objects) /\ IsInjective(reg.list)
      BY <2>1 DEF TypeOK, RegInv
    <3>5. Linked = Objects
      BY <3>3, <3>4, ToSetSeq DEF Linked
    <3>6. Len(reg.list) = Cardinality(Objects)
      BY <3>4, <3>5, LengthOfSet DEF Linked
    <3> QED BY <3>3, <3>5, <3>6
  <2> QED BY <2>3, <2>4
<1> QED BY <1>1, Invariance, PTL

\* Of two objects, the static one registered earlier is linked earlier.
LEMMA LinkedEarlier ==
  ASSUME TypeOK, InOrder, Whole,
         NEW i \in DOMAIN reg.list, NEW k \in DOMAIN order, NEW n \in DOMAIN Files[order[k]].inits,
         reg.list[i] = Made(order[k], n),
         NEW j \in DOMAIN order, NEW m \in DOMAIN Files[order[j]].inits,
         j < k \/ (j = k /\ m < n), ForIPv4(Made(order[j], m))
  PROVE  \E h \in DOMAIN reg.list : h < i /\ reg.list[h] = Made(order[j], m)
<1>1. Made(order[j], m)[3] = "static"
  BY DEF ForIPv4
<1>2. PICK h \in 1..(i - 1) : reg.list[h] = Made(order[j], m)
  BY <1>1 DEF InOrder
<1>3. DOMAIN reg.list = 1..Len(reg.list) /\ Len(reg.list) \in Nat
  BY ToSetSeq DEF TypeOK
<1> QED BY <1>2, <1>3

\* A bare domain is taken as a guess at an IPv4 plugin for every order of the
\* constructors, with he.net decided by the order of the two files.
THEOREM GuessesV4 == Spec => []GuessIsV4
<1>1. IInv => GuessIsV4
  <2> SUFFICES ASSUME IInv, Running, faults = {}, NEW d \in {NameOf(o)[2] : o \in Statics},
                      d = "he.net" => Before(Dyndns, Tunnelbroker)
               PROVE  ForIPv4(Find(reg.list, <<"", d>>))
    BY DEF GuessIsV4
  <2> DEFINE hits == {i \in DOMAIN reg.list : Guessed(reg.list[i], d)}
  <2>1. TypeOK /\ InOrder /\ BuiltLinked /\ StepInv
    BY DEF IInv, BuiltInv
  <2>2. ~Failed("malloc") /\ ~Failed("exec") /\ step = Len(order)
    BY DEF Failed, Running
  <2>3. PICK q \in Statics : d = NameOf(q)[2]
    OBVIOUS
  <2>4. q \in Objects /\ q[3] = "static" /\ q[1] \in DOMAIN Files
    BY ObjectFacts DEF Statics
  <2>5. pc # "gone"
    BY <2>1, <2>2, <2>4, OrderFacts DEF StepInv, TypeOK
  <2>6. Whole
    <3>1. pc \in PC
      BY <2>1 DEF TypeOK
    <3> QED BY <2>2, <2>5, <3>1 DEF Whole, Running, PC, Up
  <2>7. reg.list \in Seq(Objects) /\ Linked \subseteq Objects /\ DOMAIN reg.list \subseteq Nat
    BY <2>1, ToSetSeq DEF TypeOK, Linked
  <2>8. \A o \in Objects : NameOf(o) # <<"", d>> /\ AliasOf(o) # <<"", d>>
    BY GuessAssumption
  <2>9. FindExact(reg.list, <<"", d>>) = Null
    <3>1. ~\E p \in ToSet(reg.list) : <<"", d>> = NameOf(p) \/ <<"", d>> = AliasOf(p)
      BY <2>7, <2>8 DEF Linked
    <3> QED BY <2>7, <3>1, FindExactFacts
  <2>10. Find(reg.list, <<"", d>>) = FirstOf(reg.list, hits)
    BY <2>9 DEF Find, FindLoose
  <2>11. hits # {}
    <3>1. q \in Linked
      BY <2>1, <2>2, <2>4, <2>6, AllBuilt
    <3>2. PICK h \in DOMAIN reg.list : reg.list[h] = q
      BY <2>7, <3>1, ToSetSeq DEF Linked
    <3>3. Guessed(q, d)
      <4>1. NameOf(q) # NoName
        BY <2>4, NamesApart
      <4> QED BY <2>3, <4>1 DEF Guessed, InDomain
    <3> QED BY <3>2, <3>3
  <2>12. PICK i \in hits : FirstOf(reg.list, hits) = reg.list[i] /\ \A h \in hits : i <= h
    <3>1. hits \in SUBSET DOMAIN reg.list
      OBVIOUS
    <3> HIDE DEF hits
    <3> QED BY <2>7, <2>11, <3>1, FirstOfFacts
  <2> DEFINE p == reg.list[i]
  <2>13. p \in Objects /\ Guessed(p, d) /\ i \in DOMAIN reg.list
    BY <2>7
  <2> SUFFICES ASSUME ~ForIPv4(p) PROVE FALSE
    BY <2>10, <2>12
  <2>14. PICK n \in DOMAIN Files[p[1]].inits : p = Made(p[1], n)
    BY <2>13, ObjectFacts
  <2>15. PICK k \in DOMAIN order : order[k] = p[1]
    BY <2>1, <2>13, ObjectFacts, OrderFacts DEF TypeOK
  <2> HIDE DEF p
  <2>16. ASSUME NEW j \in DOMAIN order, NEW m \in DOMAIN Files[order[j]].inits,
                j < k \/ (j = k /\ m < n), Guessed(Made(order[j], m), d), ForIPv4(Made(order[j], m))
         PROVE  FALSE
    <3>1. PICK h \in DOMAIN reg.list : h < i /\ reg.list[h] = Made(order[j], m)
      <4>1. reg.list[i] = Made(order[k], n) /\ n \in DOMAIN Files[order[k]].inits
        BY <2>14, <2>15 DEF p
      <4> QED BY <2>1, <2>6, <2>13, <2>16, <4>1, LinkedEarlier
    <3>2. h \in hits
      BY <2>16, <3>1
    <3> QED BY <2>7, <2>12, <2>13, <3>1, <3>2
  <2>17. \/ \E m \in 1..(n - 1) : Guessed(Made(order[k], m), d) /\ ForIPv4(Made(order[k], m))
         \/ /\ d = "he.net" /\ Files[order[k]] = Tunnelbroker
            /\ \A g \in DOMAIN Files : Files[g] = Dyndns =>
                 \E m \in DOMAIN Files[g].inits : Guessed(Made(g, m), d) /\ ForIPv4(Made(g, m))
    <3>1. order[k] \in DOMAIN Files /\ n \in DOMAIN Files[order[k]].inits
      BY <2>1, <2>15, OrderFacts DEF TypeOK
    <3>2. Guessed(Made(order[k], n), d) /\ ~ForIPv4(Made(order[k], n))
      BY <2>13, <2>14, <2>15 DEF p
    <3> QED BY <3>1, <3>2, GuessAssumption
  <2>18. CASE \E m \in 1..(n - 1) : Guessed(Made(order[k], m), d) /\ ForIPv4(Made(order[k], m))
    <3>1. PICK m \in 1..(n - 1) : Guessed(Made(order[k], m), d) /\ ForIPv4(Made(order[k], m))
      BY <2>18
    <3>2. order[k] \in DOMAIN Files /\ n \in DOMAIN Files[order[k]].inits
      BY <2>1, <2>15, OrderFacts DEF TypeOK
    <3>3. DOMAIN Files[order[k]].inits = 1..Len(Files[order[k]].inits)
      BY <3>2, TableFacts
    <3>4. m \in DOMAIN Files[order[k]].inits /\ m < n
      BY <3>2, <3>3
    <3> QED BY <2>16, <3>1, <3>4
  <2>19. CASE /\ d = "he.net" /\ Files[order[k]] = Tunnelbroker
              /\ \A g \in DOMAIN Files : Files[g] = Dyndns =>
                   \E m \in DOMAIN Files[g].inits : Guessed(Made(g, m), d) /\ ForIPv4(Made(g, m))
    <3>1. PICK i1, j1 \in DOMAIN order :
                 i1 < j1 /\ Files[order[i1]] = Dyndns /\ Files[order[j1]] = Tunnelbroker
      BY <2>19 DEF Before
    <3>2. order[i1] \in DOMAIN Files /\ order[j1] \in DOMAIN Files /\ order[k] \in DOMAIN Files
      BY <2>1, OrderFacts DEF TypeOK
    <3>3. order[j1] = order[k]
      BY <2>19, <3>1, <3>2, TableAssumption
    <3>4. j1 = k
      BY <2>1, <3>3, OrderFacts DEF TypeOK
    <3>5. PICK m \in DOMAIN Files[order[i1]].inits :
                 Guessed(Made(order[i1], m), d) /\ ForIPv4(Made(order[i1], m))
      BY <2>19, <3>1, <3>2
    <3> QED BY <2>16, <3>1, <3>4, <3>5
  <2> QED BY <2>17, <2>18, <2>19
<1> QED BY <1>1, Invariance, PTL
=============================================================================
