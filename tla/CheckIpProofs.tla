---------------------------- MODULE CheckIpProofs ----------------------------
(***************************************************************************)
(* get_address_backend() uses the HTTP client the way Transport allows, so *)
(* what is proved of the client holds below it, for every configuration.   *)
(***************************************************************************)
EXTENDS CheckIp, TransportProofs, WellFoundedInduction

\* A step of get_address_backend() is a step of the client or leaves it alone.
LEMMA StepImplements == conf \in Configs /\ [Next]_vars => [TransportNext]_tvars
<1> SUFFICES ASSUME conf \in Configs, [Next]_vars PROVE [TransportNext]_tvars
  OBVIOUS
<1>1. \A ssl : Ask(ssl) => TransportNext
  <2> SUFFICES ASSUME NEW ssl, Ask(ssl) PROVE TransportNext
    OBVIOUS
  <2>1. conf.force \in Family
    BY CheckIpAssumption DEF Config
  <2>2. (ssl # SslOff) \in BOOLEAN
    OBVIOUS
  <2>3. \E s \in BOOLEAN, f \in Family : HttpInit(s, f)
    BY <2>1, <2>2 DEF Ask
  <2> QED BY <2>3 DEF TransportNext, Client
<1>2. CASE GetAddressRemote \/ Fallback
  BY <1>1, <1>2 DEF GetAddressRemote, Fallback
<1>3. CASE NewContext \/ Exchange
  BY <1>3 DEF NewContext, Exchange, TransportNext, Client, Stack
<1>4. CASE GetAddressCmd \/ GetAddressIface \/ RemoteOk \/ GiveUp \/ EndFallback \/ Again
  BY <1>4 DEF GetAddressCmd, GetAddressIface, RemoteOk, GiveUp, EndFallback, Again
<1>5. CASE UNCHANGED vars
  BY <1>5 DEF vars
<1> QED BY <1>2, <1>3, <1>4, <1>5 DEF Next

\* The configuration does not change while the context lives.
LEMMA ConfKept == conf \in Configs /\ [Next]_vars => (conf \in Configs)'
<1> SUFFICES ASSUME conf \in Configs, [Next]_vars PROVE conf' = conf
  OBVIOUS
<1>1. CASE UNCHANGED vars
  BY <1>1 DEF vars, cvars
<1>2. CASE Next
  BY <1>2 DEF Next, GetAddressCmd, GetAddressIface, GetAddressRemote, RemoteOk, Fallback,
     GiveUp, EndFallback, Again, NewContext, Exchange, cvars
<1> QED BY <1>1, <1>2

\* get_address_backend() implements the client of Transport: it never starts a
\* call while one is under way, and never leaves one half done.
THEOREM UsesTheClient == Spec => TransportSpec
<1>1. Init => TransportInit /\ conf \in Configs
  BY DEF Init
<1> QED BY <1>1, StepImplements, ConfKept, PTL DEF Spec, TransportSpec

\* Whichever server fails, and however, the checkip client keeps nothing open.
THEOREM CheckIpLeavesNothing == Spec => []NothingLeft
BY UsesTheClient, NothingStaysOpen, PTL

\* The socket and the session are there whenever the checkip client uses them.
THEOREM CheckIpHandles == Spec => []HandlesValid
BY UsesTheClient, HandlesAreValid, PTL

\* The backup is restored: the section's own server and TLS setting are replaced
\* only while the built-in server is being asked.
THEOREM BackupRestored == Spec => []SettingsRestored
<1> DEFINE I == /\ where \in {"start", "remote", "fallback", "done"}
                /\ SettingsRestored
<1>1. Init => I
  BY DEF Init, SettingsRestored
<1>2. ASSUME I, [Next]_vars PROVE I'
  <2> USE <1>2 DEF SettingsRestored
  <2>1. CASE UNCHANGED vars
    BY <2>1 DEF vars, cvars
  <2>2. CASE GetAddressCmd \/ GetAddressIface \/ RemoteOk \/ GiveUp
    BY <2>2 DEF GetAddressCmd, GetAddressIface, RemoteOk, GiveUp, Finish
  <2>3. CASE GetAddressRemote \/ Fallback
    BY <2>3 DEF GetAddressRemote, Fallback
  <2>4. CASE EndFallback
    <3>1. where' = "done" /\ name' = "own" /\ checkip_ssl' = conf.ssl /\ conf' = conf
      BY <2>4 DEF EndFallback, Finish, Restore
    <3> QED BY <3>1
  <2>5. CASE Again \/ NewContext
    BY <2>5 DEF Again, NewContext
  <2>6. CASE Exchange
    BY <2>6 DEF Exchange, cvars
  <2> QED BY <2>1, <2>2, <2>3, <2>4, <2>5, <2>6 DEF Next
<1>3. I => SettingsRestored
  OBVIOUS
<1> QED BY <1>1, <1>2, <1>3, PTL DEF Spec

-----------------------------------------------------------------------------
(* The address that is found *)

\* A set of places has a first one.
LEMMA FirstPlace ==
  ASSUME NEW T \in SUBSET Nat, T # {}
  PROVE  Min(T) \in T
<1> DEFINE less == {p \in Nat \X Nat : p[1] < p[2]}
<1>1. IsWellFoundedOn(less, Nat)
  BY NatLessThanWellFounded DEF OpToRel
<1> HIDE DEF less
<1>2. PICK m \in T : \A y \in T : ~(<<y, m>> \in less)
  BY <1>1, WFMin
<1>3. ASSUME NEW y \in T PROVE m <= y
  <2>1. y \in Nat /\ m \in Nat
    OBVIOUS
  <2>2. y < m => <<y, m>> \in less
    BY <2>1 DEF less
  <2> QED BY <1>2, <2>1, <2>2
<1> QED BY <1>3 DEF Min

\* A text is a sequence of addresses, and an address is not the absence of one.
LEMMA TextFacts ==
  ASSUME NEW t \in Text
  PROVE  /\ DOMAIN t \in SUBSET Nat
         /\ \A i \in DOMAIN t : t[i] \in Word
         /\ \A w \in Word : w # None /\ w.fam \in Family
<1>1. PICK n \in 0..MaxWords : t \in [1..n -> Word]
  BY DEF Text
<1>2. ASSUME NEW w \in Word PROVE w # None /\ w.fam \in Family
  <2>1. w.fam \in Family
    BY DEF Word
  <2>2. None.fam = "none"
    BY DEF None
  <2> QED BY <2>1, <2>2 DEF Family
<1> QED BY <1>1, <1>2

\* parse_ipv4_address() and parse_ipv6_address() find an address of the family
\* that is valid, if there is one among the places they look at.
LEMMA ParseFamilyFacts ==
  ASSUME NEW t \in Text, NEW S \in SUBSET DOMAIN t, NEW f
  PROVE  LET r == ParseFamily(t, S, f)
         IN /\ r # None => \E i \in S : r = t[i] /\ t[i].fam = f /\ IsAddressValid(t[i])
            /\ r = None => ~\E i \in S : t[i].fam = f /\ IsAddressValid(t[i])
<1> DEFINE hits == {i \in S : t[i].fam = f /\ IsAddressValid(t[i])}
<1>1. ParseFamily(t, S, f) = IF hits = {} THEN None ELSE t[Min(hits)]
  BY DEF ParseFamily
<1>2. CASE hits = {}
  BY <1>1, <1>2
<1>3. CASE hits # {}
  <2>1. hits \in SUBSET Nat
    BY TextFacts
  <2>2. Min(hits) \in hits
    BY <1>3, <2>1, FirstPlace
  <2>3. t[Min(hits)] # None
    BY <2>2, TextFacts
  <2> QED BY <1>1, <1>3, <2>2, <2>3
<1> QED BY <1>2, <1>3

\* parse_my_address() returns an address or none, whatever places it looks at.
LEMMA ParseType ==
  ASSUME NEW t \in Text, NEW S \in SUBSET DOMAIN t
  PROVE  ParseMyAddress(t, S) \in Word \cup {None}
<1>1. \A f : ParseFamily(t, S, f) \in Word \cup {None}
  <2> SUFFICES ASSUME NEW f PROVE ParseFamily(t, S, f) \in Word \cup {None}
    OBVIOUS
  <2>1. ParseFamily(t, S, f) # None => \E i \in S : ParseFamily(t, S, f) = t[i]
    BY ParseFamilyFacts
  <2> QED BY <2>1, TextFacts
<1> QED BY <1>1 DEF ParseMyAddress

\* The places get_address_iface() keeps, and all of them.
LEMMA FoundType ==
  ASSUME NEW t \in Text
  PROVE  /\ AddressIn(t) \in Word \cup {None}
         /\ ParseMyAddress(t, {i \in DOMAIN t : IsAddressValid(t[i])}) \in Word \cup {None}
BY ParseType DEF AddressIn

\* An empty text is a text.
LEMMA NothingType == <<>> \in Text
<1>1. <<>> \in [1..0 -> Word]
  OBVIOUS
<1>2. 0 \in 0..MaxWords
  BY CheckIpAssumption
<1> QED BY <1>1, <1>2 DEF Text

\* Every step of get_address_backend() keeps the types of its variables.
LEMMA TypeKept ==
  ASSUME CheckIpType, [Next]_vars
  PROVE  CheckIpType'
<1>1. ASSUME NEW t \in Text, NEW r, Finish(t, r), r \in Word \cup {None}
      PROVE  text' \in Text /\ result' \in Word \cup {None} /\ where' = "done"
  BY <1>1 DEF Finish
<1>2. <<>> \in Text
  BY NothingType
<1>3. conf \in Configs /\ conf.ssl \in {SslOff, SslOn}
  BY CheckIpAssumption DEF CheckIpType, Config
<1> USE DEF CheckIpType
<1>4. CASE GetAddressCmd
  <2>1. PICK t \in Text : Finish(t, AddressIn(t))
    BY <1>4 DEF GetAddressCmd
  <2> QED BY <1>1, <1>3, <1>4, <2>1, FoundType DEF GetAddressCmd
<1>5. CASE GetAddressIface
  <2>1. PICK t \in Text : Finish(t, ParseMyAddress(t, {i \in DOMAIN t : IsAddressValid(t[i])}))
    BY <1>5 DEF GetAddressIface
  <2> QED BY <1>1, <1>3, <1>5, <2>1, FoundType DEF GetAddressIface
<1>6. CASE GetAddressRemote
  BY <1>6 DEF GetAddressRemote
<1>7. CASE RemoteOk
  <2>1. PICK t \in Text : Finish(t, AddressIn(t))
    BY <1>7 DEF RemoteOk
  <2> QED BY <1>1, <1>3, <1>7, <2>1, FoundType DEF RemoteOk
<1>8. CASE Fallback
  BY <1>8 DEF Fallback
<1>9. CASE GiveUp
  BY <1>1, <1>2, <1>9 DEF GiveUp
<1>10. CASE EndFallback
  <2>1. name' = "own" /\ checkip_ssl' = conf.ssl /\ conf' = conf
    BY <1>10 DEF EndFallback, Restore
  <2>2. CASE \E t \in Text : Finish(t, AddressIn(t))
    <3>1. PICK t \in Text : Finish(t, AddressIn(t))
      BY <2>2
    <3> QED BY <1>1, <1>3, <2>1, <3>1, FoundType
  <2>3. CASE Finish(<<>>, None)
    BY <1>1, <1>2, <1>3, <2>1, <2>3
  <2> QED BY <1>10, <2>2, <2>3 DEF EndFallback
<1>11. CASE Again
  BY <1>2, <1>11 DEF Again
<1>12. CASE NewContext
  BY <1>2, <1>12 DEF NewContext
<1>13. CASE Exchange \/ UNCHANGED vars
  BY <1>13 DEF Exchange, vars, cvars
<1> QED BY <1>4, <1>5, <1>6, <1>7, <1>8, <1>9, <1>10, <1>11, <1>12, <1>13 DEF Next

\* Type correctness of the address check and of the client below it.
THEOREM CheckIpTypeCorrect == Spec => []TypeOK
<1>1. Init => CheckIpType
  BY NothingType, CheckIpAssumption DEF Init, CheckIpType, Config
<1>2. CheckIpType /\ [Next]_vars => CheckIpType'
  BY TypeKept
<1>3. ResourceInv => TransportType
  BY DEF ResourceInv
<1>4. CheckIpType /\ TransportType => TypeOK
  BY DEF TypeOK
<1> QED BY <1>1, <1>2, <1>3, <1>4, UsesTheClient, ResourceInvariant, PTL DEF Spec
=============================================================================
