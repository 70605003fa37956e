-------------------------- MODULE TeleporterRegistry --------------------------
(***************************************************************************)
(* The registry of messenger versions of a chain                           *)
(* (TeleporterRegistry.sol).  Entries come from the validators of the      *)
(* chain, in messages that anybody may present, in any order and again.    *)
(* The entries of the constructor are the first ones added.                *)
(***************************************************************************)
EXTENDS Integers, FiniteSets

CONSTANTS
  Teleporters,           \* addresses of messengers
  None,                  \* the zero address
  MAX_VERSION_INCREMENT,
  MaxVersion             \* bound: the versions that validators register

ASSUME RegistryAssumption ==
  /\ None \notin Teleporters
  /\ MAX_VERSION_INCREMENT \in Nat \ {0}
  /\ MaxVersion \in Nat

VARIABLES
  latestVersion,
  versionToAddress,   \* [version -> messenger or None]
  addressToVersion    \* [messenger -> version], zero if it has none

registryVars == <<latestVersion, versionToAddress, addressToVersion>>

Versions == 1..MaxVersion

RegistryInit ==
  /\ latestVersion = 0
  /\ versionToAddress = [v \in Versions |-> None]
  /\ addressToVersion = [t \in Teleporters |-> 0]

\* Mutant: the version of a messenger is the one registered last.
VersionRegisteredLast(t, version) == version

\* A messenger has the highest version it is registered with.
VersionOf(t, version) ==
  IF version > addressToVersion[t] THEN version ELSE addressToVersion[t]

\* Mutant: the limit counts the first version that is too far.
WithinAnyIncrement(version) == version <= latestVersion + MAX_VERSION_INCREMENT + 1

WithinIncrement(version) == version <= latestVersion + MAX_VERSION_INCREMENT

\* Mutant: the latest version is taken for the next one.
NextVersion(version) == version + 1

Later(version) == IF version > latestVersion THEN version ELSE latestVersion

AddProtocolVersion(version, t) ==
  /\ versionToAddress[version] = None
  /\ WithinIncrement(version)
  /\ versionToAddress' = [versionToAddress EXCEPT ![version] = t]
  /\ addressToVersion' = [addressToVersion EXCEPT ![t] = VersionOf(t, version)]
  /\ latestVersion' = Later(version)

Registered == {v \in Versions : versionToAddress[v] # None}
LatestTeleporter == versionToAddress[latestVersion]
-----------------------------------------------------------------------------
RegistryTypeOK ==
  /\ latestVersion \in 0..MaxVersion
  /\ versionToAddress \in [Versions -> Teleporters \cup {None}]
  /\ addressToVersion \in [Teleporters -> 0..MaxVersion]

\* The two mappings agree in whatever order versions come in: a messenger has the highest version
\* registered for it, and the latest version is the highest of all (_addToRegistry).
MappingsAgree ==
  /\ \A t \in Teleporters :
       /\ \A v \in Registered : versionToAddress[v] = t => v <= addressToVersion[t]
       /\ addressToVersion[t] # 0 => versionToAddress[addressToVersion[t]] = t
  /\ \A v \in Registered : v <= latestVersion
  /\ latestVersion # 0 => latestVersion \in Registered

\* No entry uses up the version numbers: getting far takes many registrations
\* (MAX_VERSION_INCREMENT of TeleporterRegistry.sol).
VersionsNotExhausted == latestVersion <= MAX_VERSION_INCREMENT * Cardinality(Registered)
=============================================================================
