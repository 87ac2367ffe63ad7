---------------------------- MODULE DdnsPromise ----------------------------
(***************************************************************************)
(* What the update cycle promises to the owner of the records, without the *)
(* loops, flags, codes and commands of ddns.c: where an address the daemon *)
(* believes in comes from, what a record and a cache file may be set to,   *)
(* and when.  Ddns implements it.                                          *)
(***************************************************************************)
EXTENDS Integers

CONSTANTS
  Alias, Provider,  \* the aliases, and the section each belongs to
  File, CacheFile,  \* the cache files, and the one each alias reads
  Addr,             \* addresses of the WAN interface
  Empty, Fake,      \* no address; an address that is not the WAN interface's
  NoAddress,        \* what a cache file that does not exist holds
  MayFake           \* are fake addresses configured?

VARIABLES
  wan,              \* the address of the WAN interface
  belief,           \* the address the daemon believes an alias to have
  record,           \* the address the alias's server holds
  disk              \* the address the cache file holds

pvars == <<wan, belief, record, disk>>

Init ==
  /\ wan \in Addr /\ belief = [a \in Alias |-> Empty]
  /\ \A a \in Alias : disk[CacheFile[a]] # NoAddress => disk[CacheFile[a]] = record[a]

\* The WAN interface gets another address.
Move ==
  /\ wan' \in Addr \ {wan}
  /\ UNCHANGED <<belief, record, disk>>

\* The aliases of a provider are believed to have the WAN address of now.
Observe(p) ==
  /\ belief' = [a \in Alias |-> IF Provider[a] = p THEN wan ELSE belief[a]]
  /\ UNCHANGED <<wan, record, disk>>

\* A record is set to the address that is believed in, and to nothing else ...
Publish(a) ==
  /\ record' = [record EXCEPT ![a] = belief[a]]
  /\ UNCHANGED <<wan, belief, disk>>

\* ... but for the fake address, which may also stay behind in the memory of
\* the daemon.
PublishFake(a) ==
  /\ MayFake
  /\ record' \in {record, [record EXCEPT ![a] = Fake]}
  /\ belief' \in {belief, [belief EXCEPT ![a] = Fake]}
  /\ UNCHANGED <<wan, disk>>

\* A cache file is emptied, and written only with what the record holds at that
\* moment.
Save(a) ==
  /\ record[a] = belief[a]
  /\ disk' \in {[disk EXCEPT ![CacheFile[a]] = v] : v \in {belief[a], Empty}}
  /\ UNCHANGED <<wan, belief, record>>

\* A restart forgets everything that is not on disk,
Forget ==
  /\ belief' = [a \in Alias |-> Empty]
  /\ UNCHANGED <<wan, record, disk>>

\* and a start recalls it, or asks the DNS where nothing is on disk.
Recall ==
  /\ \A a \in Alias : belief[a] = Empty
  /\ belief' \in [Alias -> Addr \cup {Empty, Fake}]
  /\ \A a \in Alias :
       IF disk[CacheFile[a]] # NoAddress THEN belief'[a] = disk[CacheFile[a]]
       ELSE belief'[a] \in {record[a], Empty}
  /\ UNCHANGED <<wan, record, disk>>

Next ==
  \/ Move \/ Forget \/ Recall
  \/ \E a \in Alias : Observe(Provider[a]) \/ Publish(a) \/ PublishFake(a) \/ Save(a)

Spec == Init /\ [][Next]_pvars
=============================================================================
