----------------------- MODULE TeleporterRegistryProofs -----------------------
(***************************************************************************)
(* Theorems about TeleporterRegistryApp, for any messengers, versions,     *)
(* contracts and number of calls.                                          *)
(***************************************************************************)
EXTENDS TeleporterRegistryApp, FiniteSetTheorems, SequenceTheorems, TLAPS

-----------------------------------------------------------------------------
\* The registry.

\* Registered versions are finitely many.
LEMMA RegisteredFinite == IsFiniteSet(Registered) /\ Cardinality(Registered) \in Nat
<1>1. IsFiniteSet(Versions)
  <2>1. MaxVersion \in Int /\ 1 \in Int
    BY RegistryAssumption
  <2> QED BY <2>1, FS_Interval DEF Versions
<1>2. Registered \subseteq Versions
  BY DEF Registered
<1>3. IsFiniteSet(Registered)
  BY <1>1, <1>2, FS_Subset
<1> QED BY <1>3, FS_CardinalityType

\* An entry is one more version, and the mappings agree on it.
LEMMA AddStep ==
  ASSUME RegistryTypeOK, MappingsAgree, VersionsNotExhausted,
         NEW version \in Versions, NEW t \in Teleporters, AddProtocolVersion(version, t)
  PROVE  /\ RegistryTypeOK' /\ MappingsAgree' /\ VersionsNotExhausted'
         /\ latestVersion <= latestVersion'
         /\ \A u \in Teleporters : addressToVersion[u] <= addressToVersion'[u]
<1>1. /\ versionToAddress[version] = None
      /\ version <= latestVersion + MAX_VERSION_INCREMENT
      /\ versionToAddress' = [versionToAddress EXCEPT ![version] = t]
      /\ addressToVersion' = [addressToVersion EXCEPT ![t] = VersionOf(t, version)]
      /\ latestVersion' = Later(version)
  BY DEF AddProtocolVersion, WithinIncrement
<1>2. /\ MaxVersion \in Nat /\ MAX_VERSION_INCREMENT \in Nat /\ None \notin Teleporters
      /\ version \in 1..MaxVersion
  BY RegistryAssumption DEF Versions
<1>3. /\ latestVersion \in 0..MaxVersion
      /\ versionToAddress \in [Versions -> Teleporters \cup {None}]
      /\ addressToVersion \in [Teleporters -> 0..MaxVersion]
  BY DEF RegistryTypeOK
<1>4. /\ VersionOf(t, version) \in 0..MaxVersion
      /\ VersionOf(t, version) >= version /\ VersionOf(t, version) >= addressToVersion[t]
      /\ VersionOf(t, version) = version \/ VersionOf(t, version) = addressToVersion[t]
  BY <1>2, <1>3 DEF VersionOf
<1>5. /\ Later(version) \in 0..MaxVersion
      /\ Later(version) >= version /\ Later(version) >= latestVersion
      /\ Later(version) = version \/ Later(version) = latestVersion
  BY <1>2, <1>3 DEF Later
<1>6. RegistryTypeOK'
  BY <1>1, <1>3, <1>4, <1>5 DEF RegistryTypeOK
<1>7. Registered' = Registered \cup {version} /\ version \notin Registered
  BY <1>1, <1>2, <1>3 DEF Registered
<1>8. MappingsAgree'
  <2>1. ASSUME NEW u \in Teleporters
        PROVE  /\ \A v \in Registered' : versionToAddress'[v] = u => v <= addressToVersion'[u]
               /\ addressToVersion'[u] # 0 => versionToAddress'[addressToVersion'[u]] = u
    <3>1. /\ \A v \in Registered : versionToAddress[v] = u => v <= addressToVersion[u]
          /\ addressToVersion[u] # 0 => versionToAddress[addressToVersion[u]] = u
      BY DEF MappingsAgree
    <3>2. ASSUME NEW v \in Registered', versionToAddress'[v] = u PROVE v <= addressToVersion'[u]
      <4>1. CASE v = version
        <5>1. u = t
          BY <1>1, <1>3, <3>2, <4>1
        <5> QED BY <1>1, <1>3, <1>4, <4>1, <5>1
      <4>2. CASE v # version
        <5>1. v \in Registered /\ versionToAddress[v] = u /\ v \in Versions
          BY <1>1, <1>3, <1>7, <3>2, <4>2 DEF Registered
        <5>2. v <= addressToVersion[u] /\ v \in Nat
          BY <3>1, <5>1 DEF Versions
        <5> QED BY <1>1, <1>2, <1>3, <1>4, <5>2
      <4> QED BY <4>1, <4>2
    <3>3. ASSUME addressToVersion'[u] # 0 PROVE versionToAddress'[addressToVersion'[u]] = u
      <4>1. CASE u = t /\ VersionOf(t, version) = version
        BY <1>1, <1>3, <4>1
      <4>2. CASE u # t \/ VersionOf(t, version) = addressToVersion[t]
        <5>1. addressToVersion'[u] = addressToVersion[u]
          BY <1>1, <1>3, <4>2
        <5>2. versionToAddress[addressToVersion[u]] = u
          BY <3>1, <3>3, <5>1
        <5>3. addressToVersion[u] \in Versions
          BY <1>3, <3>3, <5>1 DEF Versions
        <5>4. addressToVersion[u] # version
          BY <1>1, <1>2, <5>2
        <5> QED BY <1>1, <1>3, <5>1, <5>2, <5>3, <5>4
      <4> QED BY <1>4, <4>1, <4>2
    <3> QED BY <3>2, <3>3
  <2>2. \A v \in Registered' : v <= latestVersion'
    <3>1. \A v \in Registered : v <= latestVersion /\ v \in Nat
      BY DEF MappingsAgree, Registered, Versions
    <3> QED BY <1>1, <1>2, <1>3, <1>5, <1>7, <3>1
  <2>3. latestVersion' # 0 => latestVersion' \in Registered'
    BY <1>1, <1>5, <1>7 DEF MappingsAgree
  <2> QED BY <2>1, <2>2, <2>3 DEF MappingsAgree
<1>9. VersionsNotExhausted'
  <2> DEFINE n == Cardinality(Registered)
  <2>1. n \in Nat /\ IsFiniteSet(Registered)
    BY RegisteredFinite
  <2>2. Cardinality(Registered') = n + 1
    BY <1>7, <2>1, FS_AddElement
  <2>3. latestVersion <= MAX_VERSION_INCREMENT * n
    BY DEF VersionsNotExhausted
  <2> HIDE DEF n
  <2>4. /\ MAX_VERSION_INCREMENT * (n + 1) = MAX_VERSION_INCREMENT * n + MAX_VERSION_INCREMENT
        /\ MAX_VERSION_INCREMENT * n \in Nat
    BY <1>2, <2>1
  <2>5. latestVersion' <= MAX_VERSION_INCREMENT * n + MAX_VERSION_INCREMENT
    BY <1>1, <1>2, <1>3, <1>5, <2>3, <2>4
  <2> QED BY <2>2, <2>4, <2>5 DEF VersionsNotExhausted
<1>10. latestVersion <= latestVersion' /\ \A u \in Teleporters : addressToVersion[u] <= addressToVersion'[u]
  BY <1>1, <1>3, <1>4, <1>5
<1> QED BY <1>6, <1>8, <1>9, <1>10
-----------------------------------------------------------------------------
\* The inductive invariant.

MinReached == \A a \in Targets : minTeleporterVersion[a] <= latestVersion

Inv == TypeOK /\ MappingsAgree /\ VersionsNotExhausted /\ MinReached /\ AsDecided

\* At first nothing is registered or decided.
LEMMA InitInv == Init => Inv
<1> SUFFICES ASSUME Init PROVE Inv
  OBVIOUS
<1> USE DEF Init, RegistryInit, SigInit
<1>1. MaxVersion \in Nat /\ MaxNonce \in Nat /\ MAX_VERSION_INCREMENT \in Nat
  BY RegistryAssumption, SigAssumption
<1>2. Registered = {}
  BY DEF Registered
<1>3. TypeOK
  BY <1>1 DEF TypeOK, RegistryTypeOK
<1>4. MappingsAgree
  BY <1>2 DEF MappingsAgree
<1>5. VersionsNotExhausted
  BY <1>1, <1>2, FS_EmptySet DEF VersionsNotExhausted
<1>6. MinReached
  BY DEF MinReached
<1>7. AsDecided
  BY DEF AsDecided, InNonceOrder, MinAsDecided, PausedAsDecided, DecidedMins
<1> QED BY <1>3, <1>4, <1>5, <1>6, <1>7 DEF Inv

\* An entry in the registry leaves the decisions of the apps alone.
LEMMA RegisterStep ==
  ASSUME Inv, NEW v \in Versions, NEW t \in Teleporters, Register(v, t)
  PROVE  Inv'
<1>1. /\ AddProtocolVersion(v, t)
      /\ nonces' = nonces /\ delivered' = delivered
      /\ minTeleporterVersion' = minTeleporterVersion
      /\ pausedTeleporterAddresses' = pausedTeleporterAddresses
  BY DEF Register, sigVars, appVars
<1>2. /\ RegistryTypeOK' /\ MappingsAgree' /\ VersionsNotExhausted'
      /\ latestVersion <= latestVersion'
  BY <1>1, AddStep DEF Inv, TypeOK
<1>3. TypeOK'
  BY <1>1, <1>2 DEF Inv, TypeOK
<1>4. MinReached'
  BY <1>1, <1>2, <1>3 DEF Inv, TypeOK, RegistryTypeOK, MinReached
<1>5. AsDecided'
  BY <1>1 DEF Inv, AsDecided, InNonceOrder, MinAsDecided, PausedAsDecided, DecidedMins
<1> QED BY <1>2, <1>3, <1>4, <1>5 DEF Inv

\* An app is initialized before any decision about it can be executed.
LEMMA InitializeStep ==
  ASSUME Inv, NEW a \in Targets, NEW v \in Versions, Initialize(a, v)
  PROVE  Inv'
<1>1. /\ minTeleporterVersion[a] = 0 /\ v <= latestVersion
      /\ minTeleporterVersion' = [minTeleporterVersion EXCEPT ![a] = v]
      /\ UNCHANGED <<registryVars, sigVars, pausedTeleporterAddresses>>
  BY DEF Initialize, SetMin, MayBeMin
<1>2. TypeOK'
  BY <1>1 DEF Inv, TypeOK, RegistryTypeOK, registryVars, sigVars, Versions
<1>3. MappingsAgree' /\ VersionsNotExhausted'
  BY <1>1 DEF Inv, MappingsAgree, VersionsNotExhausted, Registered, registryVars
<1>4. MinReached'
  BY <1>1 DEF Inv, TypeOK, MinReached, registryVars
<1>5. ASSUME NEW b \in Targets
      PROVE  (InNonceOrder(b))' /\ (MinAsDecided(b))' /\ (PausedAsDecided(b))'
  <2>1. /\ nonces' = nonces /\ delivered' = delivered
        /\ pausedTeleporterAddresses' = pausedTeleporterAddresses
    BY <1>1 DEF sigVars
  <2>2. InNonceOrder(b) /\ MinAsDecided(b) /\ PausedAsDecided(b)
    BY DEF Inv, AsDecided
  <2>3. (MinAsDecided(b))'
    <3>1. CASE b = a
      <4>1. ASSUME NEW i \in DecidedMins(a) PROVE FALSE
        <5>1. /\ delivered[a] \in Seq(Messages) /\ Len(delivered[a]) = nonces[a]
              /\ nonces[a] \in Nat
              /\ i \in 1..nonces[a] /\ delivered[a][i].call.type = "updateMinTeleporterVersion"
          BY <2>2, <3>1, <4>1 DEF Inv, TypeOK, InNonceOrder, DecidedMins
        <5>2. delivered[a][i] \in Messages
          BY <5>1
        <5>3. delivered[a][i].call \in OwnerCalls
          BY <5>2, CallAssumption DEF Messages
        <5>4. delivered[a][i].call.version \in Versions
          BY <5>1, <5>3 DEF OwnerCalls, UpdateMin, Pause, Unpause
        <5>5. delivered[a][i].call.version <= 0
          BY <1>1, <2>2, <3>1, <4>1 DEF MinAsDecided
        <5> QED BY <5>4, <5>5 DEF Versions
      <4>2. (DecidedMins(a))' = {}
        BY <2>1, <4>1 DEF DecidedMins
      <4> QED BY <3>1, <4>2 DEF MinAsDecided
    <3>2. CASE b # a
      <4>1. minTeleporterVersion'[b] = minTeleporterVersion[b]
        BY <1>1, <3>2 DEF Inv, TypeOK
      <4> QED BY <2>1, <2>2, <4>1 DEF MinAsDecided, DecidedMins
    <3> QED BY <3>1, <3>2
  <2> QED BY <2>1, <2>2, <2>3 DEF InNonceOrder, PausedAsDecided
<1>6. AsDecided'
  BY <1>5 DEF AsDecided
<1> QED BY <1>2, <1>3, <1>4, <1>6 DEF Inv

\* The kinds of decisions.
LEMMA CallKinds ==
  ASSUME NEW call \in OwnerCalls
  PROVE  /\ call.type \in {"updateMinTeleporterVersion", "pauseTeleporterAddress",
                           "unpauseTeleporterAddress"}
         /\ call.type = "updateMinTeleporterVersion" => call.version \in Versions
         /\ call.type # "updateMinTeleporterVersion" => call.teleporter \in Teleporters
         /\ \A t : /\ call = Pause(t) <=>
                        call.type = "pauseTeleporterAddress" /\ call.teleporter = t
                   /\ call = Unpause(t) <=>
                        call.type = "unpauseTeleporterAddress" /\ call.teleporter = t
BY DEF OwnerCalls, UpdateMin, Pause, Unpause

\* A decision is executed: it is the next of its app, and the app allows what it says.
LEMMA ExecuteCallStep ==
  ASSUME Inv, NEW m \in Messages, ExecuteCall(m), NEW a, a = m.target, NEW c, c = m.call
  PROVE  Inv'
<1> DEFINE n == nonces[a]
           d == delivered[a]
<1>1. /\ a \in Targets /\ m.nonce \in 0..(MaxNonce - 1) /\ c \in OwnerCalls
      /\ MaxNonce \in Nat
  BY CallAssumption, SigAssumption DEF Messages
<1>2. /\ m.nonce = n
      /\ nonces' = [nonces EXCEPT ![a] = n + 1]
      /\ delivered' = [delivered EXCEPT ![a] = Append(d, m)]
      /\ UNCHANGED registryVars
      /\ OwnerCall(a, c)
  BY DEF ExecuteCall, Delivered, ValidateMessage
<1>3. /\ nonces \in [Targets -> 0..MaxNonce] /\ delivered \in [Targets -> Seq(Messages)]
      /\ minTeleporterVersion \in [Targets -> 0..MaxVersion] /\ MaxVersion \in Nat
      /\ pausedTeleporterAddresses \in [Targets -> SUBSET Teleporters]
      /\ n \in Nat /\ d \in Seq(Messages)
  BY <1>1, RegistryAssumption DEF Inv, TypeOK
<1>4. /\ c.type = "updateMinTeleporterVersion" =>
            /\ c.version \in Versions
            /\ c.version <= latestVersion /\ c.version > minTeleporterVersion[a]
            /\ minTeleporterVersion' = [minTeleporterVersion EXCEPT ![a] = c.version]
            /\ pausedTeleporterAddresses' = pausedTeleporterAddresses
      /\ c.type # "updateMinTeleporterVersion" =>
            /\ c.type \in {"pauseTeleporterAddress", "unpauseTeleporterAddress"}
            /\ c.teleporter \in Teleporters
            /\ pausedTeleporterAddresses' =
                 [pausedTeleporterAddresses EXCEPT ![a] = NewlyPaused(a, c)]
            /\ minTeleporterVersion' = minTeleporterVersion
  <2>1. /\ c.type = "updateMinTeleporterVersion" => c.version \in Versions
        /\ c.type # "updateMinTeleporterVersion" => c.teleporter \in Teleporters
    BY <1>1, CallKinds
  <2> QED BY <1>2, <2>1 DEF OwnerCall, SetMin, MayBeMin
<1>5. TypeOK'
  <2>1. nonces' \in [Targets -> 0..MaxNonce]
    BY <1>1, <1>2, <1>3
  <2>2. delivered' \in [Targets -> Seq(Messages)]
    BY <1>1, <1>2, <1>3
  <2>3. minTeleporterVersion' \in [Targets -> 0..MaxVersion]
    <3>1. c.type = "updateMinTeleporterVersion" => c.version \in 0..MaxVersion
      BY <1>3, <1>4 DEF Versions
    <3>2. CASE c.type = "updateMinTeleporterVersion"
      BY <1>1, <1>3, <1>4, <3>1, <3>2
    <3>3. CASE c.type # "updateMinTeleporterVersion"
      BY <1>3, <1>4, <3>3
    <3> QED BY <3>2, <3>3
  <2>4. pausedTeleporterAddresses' \in [Targets -> SUBSET Teleporters]
    <3>1. c.teleporter \in Teleporters => NewlyPaused(a, c) \in SUBSET Teleporters
      BY <1>1, <1>3 DEF NewlyPaused
    <3> QED BY <1>1, <1>3, <1>4, <3>1
  <2>5. RegistryTypeOK'
    BY <1>2 DEF Inv, TypeOK, RegistryTypeOK, registryVars
  <2> QED BY <2>1, <2>2, <2>3, <2>4, <2>5 DEF TypeOK
<1>6. MappingsAgree' /\ VersionsNotExhausted'
  BY <1>2 DEF Inv, MappingsAgree, VersionsNotExhausted, Registered, registryVars
<1>7. MinReached'
  <2>1. latestVersion' = latestVersion /\ MinReached
    BY <1>2 DEF registryVars, Inv
  <2> QED BY <1>1, <1>3, <1>4, <2>1 DEF MinReached
<1>8. InNonceOrder(a) /\ MinAsDecided(a) /\ PausedAsDecided(a)
  BY <1>1 DEF Inv, AsDecided
<1> DEFINE e == Append(d, m)
<1>9. /\ Len(d) = n /\ Len(e) = n + 1 /\ e[n + 1] = m
      /\ \A i \in 1..n : e[i] = d[i] /\ d[i] \in Messages
  BY <1>3, <1>8 DEF InNonceOrder
<1>10. nonces'[a] = n + 1 /\ delivered'[a] = e
  BY <1>1, <1>2, <1>3
<1> HIDE DEF e
<1>11. (InNonceOrder(a))'
  <2>1. \A i \in 1..(n + 1) : e[i].nonce = i - 1 /\ e[i].target = a
    <3>1. \A i \in 1..n : d[i].nonce = i - 1 /\ d[i].target = a
      BY <1>8 DEF InNonceOrder
    <3>2. e[n + 1].nonce = (n + 1) - 1 /\ e[n + 1].target = a
      BY <1>2, <1>3, <1>9
    <3> HIDE DEF n, d
    <3> QED BY <1>3, <1>9, <3>1, <3>2
  <2> QED BY <1>9, <1>10, <2>1 DEF InNonceOrder
<1>12. (MinAsDecided(a))'
  <2> DEFINE D == {i \in 1..n : d[i].call.type = "updateMinTeleporterVersion"}
             E == {i \in 1..(n + 1) : e[i].call.type = "updateMinTeleporterVersion"}
             min == minTeleporterVersion[a]
  <2>1. \A i \in D : /\ d[i].call.version \in Nat /\ d[i].call.version <= min /\ i \in 1..n
                     /\ \A j \in D : i < j => d[i].call.version < d[j].call.version
                     /\ (\A j \in D : j <= i) => d[i].call.version = min
    <3>1. \A i \in D : d[i].call \in OwnerCalls
      BY <1>9, CallAssumption DEF Messages
    <3>2. \A i \in D : d[i].call.version \in Versions
      BY <3>1, CallKinds
    <3>3. D = DecidedMins(a)
      BY DEF DecidedMins
    <3> QED BY <1>8, <3>2, <3>3 DEF MinAsDecided, Versions
  <2>2. (DecidedMins(a))' = E
    BY <1>10 DEF DecidedMins
  <2>3. min \in Nat
    BY <1>1, <1>3
  <2>4. CASE c.type = "updateMinTeleporterVersion"
    <3>1. c.version \in Nat /\ c.version > min /\ minTeleporterVersion'[a] = c.version
      BY <1>1, <1>3, <1>4, <2>4 DEF Versions
    <3>2. E = D \cup {n + 1} /\ e[n + 1].call = c /\ \A i \in D : e[i] = d[i]
      <4>1. e[n + 1].call = c /\ n \in Nat /\ \A i \in 1..n : e[i] = d[i]
        BY <1>3, <1>9
      <4> HIDE DEF n, d
      <4> QED BY <2>4, <4>1
    <3> HIDE DEF D, E, n, d, min
    <3>3. \A i \in E :
            /\ e[i].call.version <= c.version
            /\ \A j \in E : i < j => e[i].call.version < e[j].call.version
            /\ (\A j \in E : j <= i) => e[i].call.version = c.version
      <4>1. \A i \in D : i \in 1..n /\ e[i].call.version \in Nat /\ e[i].call.version < c.version
        BY <2>1, <2>3, <3>1, <3>2
      <4>2. ASSUME NEW i \in D, NEW j \in D, i < j PROVE e[i].call.version < e[j].call.version
        <5>1. i \in 1..n /\ j \in 1..n
          BY <2>1
        <5>3. d[i].call.version < d[j].call.version
          BY <2>1, <4>2, <5>1, Zenon
        <5>2. e[i] = d[i] /\ e[j] = d[j]
          BY <3>2
        <5> QED BY <5>2, <5>3
      <4>3. \A i \in D : i < n + 1 /\ i # n + 1 /\ ~(n + 1 < i) /\ ~(n + 1 <= i)
        BY <1>3, <4>1
      <4>4. ASSUME NEW i \in D
            PROVE  /\ e[i].call.version <= c.version
                   /\ \A j \in E : i < j => e[i].call.version < e[j].call.version
                   /\ ~(\A j \in E : j <= i)
        BY <3>1, <3>2, <4>1, <4>2, <4>3
      <4>5. /\ e[n + 1].call.version <= c.version /\ e[n + 1].call.version = c.version
            /\ \A j \in E : ~(n + 1 < j)
        BY <1>3, <3>1, <3>2, <4>3
      <4> QED BY <3>2, <4>4, <4>5
    <3> QED BY <1>10, <2>2, <3>1, <3>3 DEF MinAsDecided
  <2>5. CASE c.type # "updateMinTeleporterVersion"
    <3>1. minTeleporterVersion'[a] = min
      BY <1>4, <2>5
    <3>2. E = D /\ \A i \in D : e[i] = d[i]
      <4>1. e[n + 1].call = c /\ n \in Nat /\ \A i \in 1..n : e[i] = d[i]
        BY <1>3, <1>9
      <4> HIDE DEF n, d
      <4> QED BY <2>5, <4>1
    <3>3. \A i \in E : /\ e[i].call.version <= min
                       /\ \A j \in E : i < j => e[i].call.version < e[j].call.version
                       /\ (\A j \in E : j <= i) => e[i].call.version = min
      <4> HIDE DEF D, E, n, d, min
      <4> QED BY <2>1, <3>2, Zenon
    <3> QED BY <1>10, <2>2, <3>1, <3>3 DEF MinAsDecided
  <2> QED BY <2>4, <2>5
<1>13. (PausedAsDecided(a))'
  <2> SUFFICES ASSUME NEW t \in Teleporters
               PROVE  t \in pausedTeleporterAddresses'[a]
                        <=> \E i \in 1..(n + 1) :
                              /\ e[i].call = Pause(t)
                              /\ \A j \in (i + 1)..(n + 1) : e[j].call # Unpause(t)
    BY <1>10 DEF PausedAsDecided
  <2>1. t \in pausedTeleporterAddresses[a]
          <=> \E i \in 1..n : d[i].call = Pause(t) /\ \A j \in (i + 1)..n : d[j].call # Unpause(t)
    BY <1>8 DEF PausedAsDecided
  <2>2. /\ c = Pause(t) <=> c.type = "pauseTeleporterAddress" /\ c.teleporter = t
        /\ c = Unpause(t) <=> c.type = "unpauseTeleporterAddress" /\ c.teleporter = t
    BY <1>1, CallKinds
  <2>3. e[n + 1].call = c
    BY <1>9
  <2>4. CASE c = Pause(t)
    <3>1. t \in pausedTeleporterAddresses'[a]
      BY <1>1, <1>3, <1>4, <2>2, <2>4 DEF NewlyPaused
    <3>2. n + 1 \in 1..(n + 1) /\ ((n + 1) + 1)..(n + 1) = {}
      BY <1>3
    <3> QED BY <2>3, <2>4, <3>1, <3>2
  <2>5. CASE c = Unpause(t)
    <3>1. t \notin pausedTeleporterAddresses'[a]
      BY <1>1, <1>3, <1>4, <2>2, <2>5 DEF NewlyPaused
    <3>2. e[n + 1].call # Pause(t)
      BY <2>2, <2>3, <2>5
    <3>3. ASSUME NEW i \in 1..(n + 1), e[i].call = Pause(t),
                 \A j \in (i + 1)..(n + 1) : e[j].call # Unpause(t)
          PROVE  FALSE
      <4>1. i # n + 1
        BY <3>2, <3>3
      <4>2. n + 1 \in (i + 1)..(n + 1)
        <5> HIDE DEF n, d
        <5> QED BY <1>3, <4>1
      <4> QED BY <2>3, <2>5, <3>3, <4>2
    <3> QED BY <3>1, <3>3
  <2>6. CASE c # Pause(t) /\ c # Unpause(t)
    <3>1. t \in pausedTeleporterAddresses'[a] <=> t \in pausedTeleporterAddresses[a]
      BY <1>1, <1>3, <1>4, <2>2, <2>6 DEF NewlyPaused
    <3>2. (\E i \in 1..n : d[i].call = Pause(t) /\ \A j \in (i + 1)..n : d[j].call # Unpause(t))
            <=> \E i \in 1..(n + 1) :
                  e[i].call = Pause(t) /\ \A j \in (i + 1)..(n + 1) : e[j].call # Unpause(t)
      <4> HIDE DEF d, n
      <4>1. ASSUME NEW i \in 1..n, d[i].call = Pause(t), \A j \in (i + 1)..n : d[j].call # Unpause(t)
            PROVE  /\ i \in 1..(n + 1) /\ e[i].call = Pause(t)
                   /\ \A j \in (i + 1)..(n + 1) : e[j].call # Unpause(t)
        <5>1. i \in 1..(n + 1) /\ e[i].call = Pause(t)
          BY <1>3, <1>9, <4>1
        <5>2. ASSUME NEW j \in (i + 1)..(n + 1) PROVE e[j].call # Unpause(t)
          <6>1. CASE j = n + 1
            BY <2>3, <2>6, <6>1
          <6>2. CASE j # n + 1
            <7>1. j \in (i + 1)..n /\ j \in 1..n
              BY <1>3, <6>2
            <7> QED BY <1>9, <4>1, <7>1
          <6> QED BY <6>1, <6>2
        <5> QED BY <5>1, <5>2
      <4>2. ASSUME NEW i \in 1..(n + 1), e[i].call = Pause(t),
                   \A j \in (i + 1)..(n + 1) : e[j].call # Unpause(t)
            PROVE  /\ i \in 1..n /\ d[i].call = Pause(t)
                   /\ \A j \in (i + 1)..n : d[j].call # Unpause(t)
        <5>1. i # n + 1
          BY <2>3, <2>6, <4>2
        <5> QED BY <1>3, <1>9, <4>2, <5>1
      <4> QED BY <4>1, <4>2
    <3> QED BY <2>1, <3>1, <3>2
  <2> QED BY <2>4, <2>5, <2>6
<1>14. ASSUME NEW b \in Targets, b # a
       PROVE  (InNonceOrder(b))' /\ (MinAsDecided(b))' /\ (PausedAsDecided(b))'
  <2>1. /\ nonces'[b] = nonces[b] /\ delivered'[b] = delivered[b]
        /\ minTeleporterVersion'[b] = minTeleporterVersion[b]
        /\ pausedTeleporterAddresses'[b] = pausedTeleporterAddresses[b]
    BY <1>2, <1>3, <1>4, <1>14
  <2>2. InNonceOrder(b) /\ MinAsDecided(b) /\ PausedAsDecided(b)
    BY DEF Inv, AsDecided
  <2> QED BY <2>1, <2>2 DEF InNonceOrder, MinAsDecided, PausedAsDecided, DecidedMins
<1>15. AsDecided'
  <2>1. \A b \in Targets : (InNonceOrder(b))' /\ (MinAsDecided(b))' /\ (PausedAsDecided(b))'
    BY <1>11, <1>12, <1>13, <1>14
  <2> QED BY <2>1 DEF AsDecided
<1> QED BY <1>5, <1>6, <1>7, <1>15 DEF Inv

\* Every step keeps the invariant.
LEMMA NextInv == Inv /\ [Next]_vars => Inv'
<1> SUFFICES ASSUME Inv, [Next]_vars PROVE Inv'
  OBVIOUS
<1>1. ASSUME NEW v \in Versions, NEW t \in Teleporters, Register(v, t) PROVE Inv'
  BY <1>1, RegisterStep
<1>2. ASSUME NEW a \in Targets, NEW v \in Versions, Initialize(a, v) PROVE Inv'
  BY <1>2, InitializeStep
<1>3. ASSUME NEW m \in Messages, ExecuteCall(m) PROVE Inv'
  BY <1>3, ExecuteCallStep
<1>4. CASE UNCHANGED vars
  <2>1. /\ latestVersion' = latestVersion /\ versionToAddress' = versionToAddress
        /\ addressToVersion' = addressToVersion /\ nonces' = nonces /\ delivered' = delivered
        /\ minTeleporterVersion' = minTeleporterVersion
        /\ pausedTeleporterAddresses' = pausedTeleporterAddresses
    BY <1>4 DEF vars, registryVars, sigVars, appVars
  <2>2. TypeOK' /\ MinReached'
    BY <2>1 DEF Inv, TypeOK, RegistryTypeOK, MinReached
  <2>3. MappingsAgree' /\ VersionsNotExhausted'
    BY <2>1 DEF Inv, MappingsAgree, VersionsNotExhausted, Registered
  <2>4. AsDecided'
    BY <2>1 DEF Inv, AsDecided, InNonceOrder, MinAsDecided, PausedAsDecided, DecidedMins
  <2> QED BY <2>2, <2>3, <2>4 DEF Inv
<1> QED BY <1>1, <1>2, <1>3, <1>4 DEF Next
-----------------------------------------------------------------------------
\* The theorems.

\* The inductive invariant holds in every reachable state.
THEOREM Invariance == Spec => []Inv
<1>1. Init => Inv
  BY InitInv
<1>2. Inv /\ [Next]_vars => Inv'
  BY NextInv
<1> QED BY <1>1, <1>2, PTL DEF Spec

\* Type correctness: versions, messengers and nonces stay within their ranges.
THEOREM TypeCorrect == Spec => []TypeOK
<1>1. Inv => TypeOK
  BY DEF Inv
<1> QED BY <1>1, Invariance, PTL

\* The mappings of the registry agree whatever order versions are registered in.
THEOREM Agreement == Spec => []MappingsAgree
<1>1. Inv => MappingsAgree
  BY DEF Inv
<1> QED BY <1>1, Invariance, PTL

\* The latest version grows with the number of registrations only.
THEOREM NotExhausted == Spec => []VersionsNotExhausted
<1>1. Inv => VersionsNotExhausted
  BY DEF Inv
<1> QED BY <1>1, Invariance, PTL

\* An app that can send through the latest messenger hears the answers that come through it.
THEOREM Heard == Spec => []AnswersHeard
<1>1. Inv => AnswersHeard
  <2> SUFFICES ASSUME Inv, NEW a \in Targets, CanSend(a)
               PROVE  LatestTeleporter \in Teleporters /\ Receives(a, LatestTeleporter)
    BY DEF AnswersHeard
  <2>1. /\ minTeleporterVersion[a] \in Nat /\ minTeleporterVersion[a] # 0
        /\ minTeleporterVersion[a] <= latestVersion /\ latestVersion \in Nat
        /\ addressToVersion \in [Teleporters -> 0..MaxVersion]
        /\ versionToAddress \in [Versions -> Teleporters \cup {None}]
        /\ MaxVersion \in Nat
    BY RegistryAssumption DEF Inv, TypeOK, RegistryTypeOK, MinReached, CanSend
  <2>2. latestVersion \in Registered
    BY <2>1 DEF Inv, MappingsAgree
  <2>3. LatestTeleporter \in Teleporters
    BY <2>1, <2>2 DEF Registered, LatestTeleporter
  <2>4. latestVersion <= addressToVersion[LatestTeleporter]
    BY <2>2, <2>3 DEF Inv, MappingsAgree, LatestTeleporter
  <2>5. addressToVersion[LatestTeleporter] \in Nat
    BY <2>1, <2>3
  <2> QED BY <2>1, <2>3, <2>4, <2>5 DEF Receives, CanSend
<1> QED BY <1>1, Invariance, PTL

\* What an app allows is what the validators decided, once each and in the order of the nonces.
THEOREM Decided == Spec => []AsDecided
<1>1. Inv => AsDecided
  BY DEF Inv
<1> QED BY <1>1, Invariance, PTL

\* A messenger that became too old for an app is heard again only under a new version.
THEOREM OldCutOff == Spec => CutOff
<1>1. Inv /\ [Next]_vars =>
        [\A a \in Targets, t \in Teleporters :
           TooOld(a, t) /\ ~TooOld(a, t)'
             => /\ addressToVersion'[t] \notin Registered
                /\ versionToAddress'[addressToVersion'[t]] = t]_vars
  <2> SUFFICES ASSUME Inv, Next, NEW a \in Targets, NEW t \in Teleporters,
                      TooOld(a, t), ~TooOld(a, t)'
               PROVE  /\ addressToVersion'[t] \notin Registered
                      /\ versionToAddress'[addressToVersion'[t]] = t
    OBVIOUS
  <2>1. /\ addressToVersion[t] \in Nat /\ addressToVersion[t] # 0
        /\ addressToVersion[t] < minTeleporterVersion[a]
        /\ minTeleporterVersion \in [Targets -> 0..MaxVersion]
        /\ addressToVersion \in [Teleporters -> 0..MaxVersion]
        /\ versionToAddress \in [Versions -> Teleporters \cup {None}]
        /\ MaxVersion \in Nat
    BY RegistryAssumption DEF Inv, TypeOK, RegistryTypeOK, TooOld
  <2>2. ASSUME NEW b \in Targets, NEW v \in Versions, SetMin(b, v), UNCHANGED registryVars
        PROVE  FALSE
    <3>1. /\ addressToVersion' = addressToVersion
          /\ v > minTeleporterVersion[b]
          /\ minTeleporterVersion' = [minTeleporterVersion EXCEPT ![b] = v]
      BY <2>2 DEF SetMin, MayBeMin, registryVars
    <3>2. minTeleporterVersion'[a] >= minTeleporterVersion[a]
      BY <2>1, <3>1 DEF Versions
    <3> QED BY <2>1, <3>1, <3>2 DEF TooOld, Versions
  <2>3. ASSUME UNCHANGED <<registryVars, minTeleporterVersion>> PROVE FALSE
    BY <2>3 DEF TooOld, registryVars
  <2>4. CASE \E v \in Versions, u \in Teleporters : Register(v, u)
    <3>1. PICK v \in Versions, u \in Teleporters : Register(v, u)
      BY <2>4
    <3>2. /\ versionToAddress[v] = None
          /\ versionToAddress' = [versionToAddress EXCEPT ![v] = u]
          /\ addressToVersion' = [addressToVersion EXCEPT ![u] = VersionOf(u, v)]
          /\ minTeleporterVersion' = minTeleporterVersion
      BY <3>1 DEF Register, AddProtocolVersion, appVars
    <3>3. addressToVersion'[t] # addressToVersion[t]
      BY <2>1, <3>2 DEF TooOld
    <3>4. t = u /\ addressToVersion'[t] = v
      BY <2>1, <3>2, <3>3 DEF VersionOf
    <3> QED BY <2>1, <3>2, <3>4 DEF Registered
  <2>5. CASE \E b \in Targets, v \in Versions : Initialize(b, v)
    BY <2>2, <2>5 DEF Initialize, registryVars
  <2>6. CASE \E m \in Messages : ExecuteCall(m)
    <3>1. PICK m \in Messages : ExecuteCall(m)
      BY <2>6
    <3>2. /\ m.target \in Targets /\ m.call \in OwnerCalls
          /\ OwnerCall(m.target, m.call) /\ UNCHANGED registryVars
      BY <3>1, CallAssumption DEF ExecuteCall, Messages
    <3>3. CASE m.call.type = "updateMinTeleporterVersion"
      <4>1. m.call.version \in Versions /\ SetMin(m.target, m.call.version)
        BY <3>2, <3>3, CallKinds DEF OwnerCall
      <4> QED BY <2>2, <3>2, <4>1
    <3>4. CASE m.call.type # "updateMinTeleporterVersion"
      BY <2>3, <3>2, <3>4 DEF OwnerCall
    <3> QED BY <3>3, <3>4
  <2> QED BY <2>4, <2>5, <2>6 DEF Next
<1> QED BY <1>1, Invariance, PTL DEF Spec, CutOff
=============================================================================
