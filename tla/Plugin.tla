------------------------------- MODULE Plugin -------------------------------
(***************************************************************************)
(* The plugin registry, src/src/plugin.c: the list of ddns_system_t        *)
(* objects that the constructors of the plugin files fill before main()    *)
(* and their destructors empty after it.                                   *)
(*                                                                         *)
(* An object is <<file, system, kind>>: the static object of a plugin file *)
(* or the copy plugin_register_v6() makes of it.  The registry is the      *)
(* record of the TAILQ, of the copies that have been freed, and of the     *)
(* copies that were made and never linked.                                 *)
(***************************************************************************)
EXTENDS Providers, SequencesExt

Null == <<>>
Static(f, n) == <<f, n, "static">>
Clone(f, n)  == <<f, n, "clone">>
SysOf(o)     == Files[o[1]].systems[o[2]]

\* The object that the n-th call of a file's constructor registers, and all
\* of them.
Made(f, n) ==
  LET it == Files[f].inits[n] IN IF it.v6 THEN Clone(f, it.sys) ELSE Static(f, it.sys)
Objects == UNION {{Made(f, n) : n \in DOMAIN Files[f].inits} : f \in DOMAIN Files}
Statics == {o \in Objects : o[3] = "static"}

\* plugin_register_v6() copies the whole struct, so the clone keeps the alias.
NameOf(o)  == IF o[3] = "clone" THEN V6Name(SysOf(o).name) ELSE SysOf(o).name
AliasOf(o) == SysOf(o).alias

Empty == [list |-> <<>>, freed |-> {}, lost |-> {}]

\* search_plugin(name, 0): the first object with this name or alias.
Matches(l, name) == {i \in DOMAIN l : name = NameOf(l[i]) \/ name = AliasOf(l[i])}
\* (mutant) the search goes on to the last match
LastOf(l, hits) == IF hits = {} THEN Null ELSE l[Max(hits)]
FirstOf(l, hits) == IF hits = {} THEN Null ELSE l[Min(hits)]
FindExact(l, name) == FirstOf(l, Matches(l, name))

\* search_plugin(name, 1) with a bare domain: strcasestr() also finds it at
\* the end of a longer domain, which happens for one pair of names.
Within == {<<"dynv6.com", "ipv4.dynv6.com">>}
InDomain(name, domain) ==
  /\ name # NoName
  /\ name[2] = domain \/ <<domain, name[2]>> \in Within
Guessed(o, domain) == InDomain(NameOf(o), domain) \/ InDomain(AliasOf(o), domain)
\* (mutant) the guess takes the last match
FindLooseLast(l, domain) == LastOf(l, {i \in DOMAIN l : Guessed(l[i], domain)})
FindLoose(l, domain) == FirstOf(l, {i \in DOMAIN l : Guessed(l[i], domain)})

\* The two searches of conf.c and plugin_show(): exact, then a guess.
Find(l, title) ==
  LET p == FindExact(l, title)
  IN IF p # Null \/ title[1] # "" THEN p ELSE FindLoose(l, title[2])

\* plugin_register()
Register(reg, o) ==
  IF FindExact(reg.list, NameOf(o)) = Null THEN [reg EXCEPT !.list = Append(@, o)]
  ELSE IF o[3] = "clone" THEN [reg EXCEPT !.lost = @ \cup {o}]
  ELSE reg

\* (mutant) the copy is freed and stays in the list
UnregisterFreesLinked(reg, o) ==
  LET v6 == FindExact(reg.list, V6Name(NameOf(o)))
  IN IF FindExact(reg.list, NameOf(o)) = Null THEN reg
     ELSE IF v6 # Null /\ v6[3] = "clone"
          THEN [reg EXCEPT !.list = RemoveFirst(@, o), !.freed = @ \cup {v6}]
          ELSE [reg EXCEPT !.list = RemoveFirst(@, o)]
\* (mutant) the copy is forgotten
UnregisterKeepsV6(reg, o) ==
  IF FindExact(reg.list, NameOf(o)) = Null THEN reg ELSE [reg EXCEPT !.list = RemoveFirst(@, o)]
\* (mutant) ->cloned is not tested
UnregisterAnyV6(reg, o) ==
  LET l1 == RemoveFirst(reg.list, o)
      v6 == FindExact(l1, V6Name(NameOf(o)))
  IN IF FindExact(reg.list, NameOf(o)) = Null THEN reg
     ELSE IF v6 # Null THEN [reg EXCEPT !.list = RemoveFirst(l1, v6), !.freed = @ \cup {v6}]
     ELSE [reg EXCEPT !.list = l1]
\* plugin_unregister(): takes the object out, and its IPv6 clone with it.
Unregister(reg, o) ==
  LET l1 == RemoveFirst(reg.list, o)
      v6 == FindExact(l1, V6Name(NameOf(o)))
  IN IF FindExact(reg.list, NameOf(o)) = Null THEN reg
     ELSE IF v6 # Null /\ v6[3] = "clone"
          THEN [reg EXCEPT !.list = RemoveFirst(l1, v6), !.freed = @ \cup {v6}]
          ELSE [reg EXCEPT !.list = l1]

----------------------------------------------------------------------------
(***************************************************************************)
(* What the tables of Providers give.  They are constants without          *)
(* parameters: TLC decides these facts once and for all.                   *)
(***************************************************************************)

\* Every file has a constructor and a destructor, which name its own systems.
ASSUME TableAssumption ==
  \A f \in DOMAIN Files :
    LET n == Len(Files[f].systems)
    IN /\ Files[f].inits \in Seq([v6 : BOOLEAN, sys : 1..n, req : Seq(STRING)]) \ {<<>>}
       /\ Files[f].exits \in Seq(1..n) \ {<<>>}
       /\ \A g \in DOMAIN Files : Files[f] = Files[g] => f = g

\* Every object has a name and no two share it, no alias is the name of an
\* object, and only an object and its copy share an alias.
ASSUME NamesApart ==
  \A o, p \in Objects :
    /\ NameOf(o) # NoName /\ NameOf(o) # AliasOf(p)
    /\ NameOf(o) = NameOf(p) => o = p
    /\ AliasOf(o) = AliasOf(p) /\ AliasOf(o) # NoName => o[1] = p[1] /\ o[2] = p[2]

\* A constructor registers an object once, and a copy after its original.
ASSUME ConstructorAssumption ==
  \A f \in DOMAIN Files : \A n \in DOMAIN Files[f].inits :
    /\ \A m \in DOMAIN Files[f].inits : Made(f, m) = Made(f, n) => m = n
    /\ Files[f].inits[n].v6 => \E m \in 1..(n - 1) : Made(f, m) = Static(f, Files[f].inits[n].sys)

\* A plugin for IPv4, not a copy and not one of the systems for IPv6.
ForIPv4(o) == o[3] = "static" /\ NameOf(o)[1] # "ipv6"

\* A domain alone is no full name.  Where a file registers something for IPv6
\* under a domain, it has registered a plugin for IPv4 under it before; only
\* tunnelbroker.c leaves that for he.net to dyndns.c.
ASSUME GuessAssumption ==
  \A d \in {NameOf(o)[2] : o \in Statics} :
    /\ \A o \in Objects : NameOf(o) # <<"", d>> /\ AliasOf(o) # <<"", d>>
    /\ \A f \in DOMAIN Files : \A n \in DOMAIN Files[f].inits :
         Guessed(Made(f, n), d) /\ ~ForIPv4(Made(f, n)) =>
           \/ \E m \in 1..(n - 1) : Guessed(Made(f, m), d) /\ ForIPv4(Made(f, m))
           \/ /\ d = "he.net" /\ Files[f] = Tunnelbroker
              /\ \A g \in DOMAIN Files : Files[g] = Dyndns =>
                   \E m \in DOMAIN Files[g].inits : Guessed(Made(g, m), d) /\ ForIPv4(Made(g, m))

\* The IPv6 systems that dhis.c and dnshome.c register and never unregister.
Forgotten ==
  {o \in Statics : NameOf(o)[1] = "ipv6" /\ NameOf(o)[2] \in {"dhis.org", "dnshome.de"}}

\* A destructor unregisters what its constructor registered: every system but
\* those two, and every system that has a copy.
ASSUME DestructorAssumption ==
  /\ \A f \in DOMAIN Files : \A n \in DOMAIN Files[f].exits : Static(f, Files[f].exits[n]) \in Objects
  /\ \A o \in Objects :
       o \in Forgotten <=> ~\E n \in DOMAIN Files[o[1]].exits : Files[o[1]].exits[n] = o[2]
=============================================================================
