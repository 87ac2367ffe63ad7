---------------------------- MODULE DdnsHistory ----------------------------
(***************************************************************************)
(* Ddns with two history variables: what the servers have acknowledged,    *)
(* and how many checks succeeded.  They are read by properties only.       *)
(***************************************************************************)
EXTENDS Ddns

VARIABLES
  acked,     \* the addresses each alias's server has acknowledged
  okChecks   \* check_address() calls that returned RC_OK since the last boot,
             \* counted when their number is limited

hvars == <<vars, acked, okChecks>>

HInit ==
  /\ Init
  /\ acked = [a \in Alias |-> IF cache[CacheFile[a]] = NoFile THEN {}
                                ELSE {cache[CacheFile[a]].addr}]
  /\ okChecks = 0

\* This step is the successful send_update() of alias a.
Acks(a) ==
  /\ pc = "update" /\ InAlias /\ cur = a
  /\ update_required[a] /\ ~update_required'[a]

\* This step is the return of a successful check_address().
ChecksOk ==
  TotalIterations # 0 /\ pc = "update" /\ EndOfInfos /\ pc' # pc /\ rc' = "OK"

HNext ==
  /\ Next
  /\ acked' = [a \in Alias |-> IF Acks(a) THEN acked[a] \cup {address[a]} ELSE acked[a]]
  /\ okChecks' = IF pc' = "down" THEN 0
                 ELSE IF ChecksOk THEN okChecks + 1 ELSE okChecks

HSpec == HInit /\ [][HNext]_hvars

-----------------------------------------------------------------------------
\* No two aliases share a cache file: their systems or their host names differ.
DistinctFiles == \A a, b \in Alias : CacheFile[a] = CacheFile[b] => a = b

\* A cache file is empty or holds an address that the provider of each alias that
\* reads the file has acknowledged, so a restart never starts from an address
\* that was merely attempted.
CacheWasAcked ==
  \A a \in Alias :
    cache[CacheFile[a]].addr \in acked[a] \cup {NoFile.addr, Empty}

\* The iterations limit counts successful checks across SIGHUPs: never one more
\* than configured, and a restart never forgets one.
IterationsCounted ==
  TotalIterations # 0 =>
    /\ okChecks <= TotalIterations
    /\ pc \in {"checkip", "update", "wait"} /\ ~delaying => num_iterations = okChecks
=============================================================================
