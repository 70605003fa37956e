------------------------ MODULE TeleporterRegistryApp ------------------------
(***************************************************************************)
(* Contracts that use messengers through the registry of their chain       *)
(* (TeleporterRegistryAppUpgradeable.sol) and are owned by a               *)
(* ValidatorSetSig (TeleporterRegistryOwnableAppUpgradeable.sol), so that  *)
(* validators set the least version and pause messengers.  Ownership is    *)
(* not given away.  Sending and receiving change nothing here:             *)
(* `CanSend' and `Receives' say when they succeed.                         *)
(***************************************************************************)
EXTENDS TeleporterRegistry, ValidatorSetSig

VARIABLES
  minTeleporterVersion,     \* [app -> version], zero until it is initialized
  pausedTeleporterAddresses \* [app -> set of messengers]

appVars == <<minTeleporterVersion, pausedTeleporterAddresses>>
vars == <<registryVars, sigVars, appVars>>

UpdateMin(version) == [type |-> "updateMinTeleporterVersion", version |-> version]
Pause(t) == [type |-> "pauseTeleporterAddress", teleporter |-> t]
Unpause(t) == [type |-> "unpauseTeleporterAddress", teleporter |-> t]

OwnerCalls ==
  {UpdateMin(v) : v \in Versions}
    \cup {Pause(t) : t \in Teleporters} \cup {Unpause(t) : t \in Teleporters}

ASSUME CallAssumption == Calls = OwnerCalls

Init ==
  /\ RegistryInit
  /\ SigInit
  /\ minTeleporterVersion = [a \in Targets |-> 0]
  /\ pausedTeleporterAddresses = [a \in Targets |-> {}]
-----------------------------------------------------------------------------
\* Mutant: any higher version may be the least one.
AnyHigherVersion(a, version) == version > minTeleporterVersion[a]

\* Mutant: the least version may come down again.
AnyRegisteredVersion(a, version) == version <= latestVersion

MayBeMin(a, version) ==
  /\ version <= latestVersion
  /\ version > minTeleporterVersion[a]

SetMin(a, version) ==
  /\ MayBeMin(a, version)
  /\ minTeleporterVersion' = [minTeleporterVersion EXCEPT ![a] = version]

\* The registry must have an entry, and the least version must be one up to its latest.
Initialize(a, version) ==
  /\ latestVersion > 0
  /\ minTeleporterVersion[a] = 0
  /\ SetMin(a, version)
  /\ UNCHANGED <<registryVars, sigVars, pausedTeleporterAddresses>>

NewlyPaused(a, call) ==
  IF call.type = "pauseTeleporterAddress"
  THEN pausedTeleporterAddresses[a] \cup {call.teleporter}
  ELSE pausedTeleporterAddresses[a] \ {call.teleporter}

\* The calls of the owner; pausing twice or unpausing what is not paused fails.
OwnerCall(a, call) ==
  /\ minTeleporterVersion[a] # 0
  /\ \/ /\ call.type = "updateMinTeleporterVersion"
        /\ SetMin(a, call.version)
        /\ UNCHANGED pausedTeleporterAddresses
     \/ /\ call.type \in {"pauseTeleporterAddress", "unpauseTeleporterAddress"}
        /\ call.teleporter \in pausedTeleporterAddresses[a]
             <=> call.type = "unpauseTeleporterAddress"
        /\ pausedTeleporterAddresses' =
             [pausedTeleporterAddresses EXCEPT ![a] = NewlyPaused(a, call)]
        /\ UNCHANGED minTeleporterVersion

ExecuteCall(m) ==
  /\ Delivered(m)
  /\ OwnerCall(m.target, m.call)
  /\ UNCHANGED registryVars

Register(version, t) ==
  /\ AddProtocolVersion(version, t)
  /\ UNCHANGED <<sigVars, appVars>>

Next ==
  \/ \E v \in Versions, t \in Teleporters : Register(v, t)
  \/ \E a \in Targets, v \in Versions : Initialize(a, v)
  \/ \E m \in Messages : ExecuteCall(m)

Spec == Init /\ [][Next]_vars
-----------------------------------------------------------------------------
\* Sending and receiving.

\* _getTeleporterMessenger: messages go through the latest messenger, unless it is paused.
CanSend(a) ==
  /\ minTeleporterVersion[a] # 0
  /\ LatestTeleporter \notin pausedTeleporterAddresses[a]

\* receiveTeleporterMessage: messages come from registered messengers that are new enough.
Receives(a, t) ==
  /\ minTeleporterVersion[a] # 0
  /\ addressToVersion[t] # 0
  /\ addressToVersion[t] >= minTeleporterVersion[a]
  /\ t \notin pausedTeleporterAddresses[a]
-----------------------------------------------------------------------------
\* Properties.

\* Every variable has its type.
TypeOK ==
  /\ RegistryTypeOK
  /\ nonces \in [Targets -> 0..MaxNonce]
  /\ delivered \in [Targets -> Seq(Messages)]
  /\ minTeleporterVersion \in [Targets -> 0..MaxVersion]
  /\ pausedTeleporterAddresses \in [Targets -> SUBSET Teleporters]

\* An app hears the answers: it takes messages from the messenger it sends through, whatever
\* versions came in meanwhile and however far the least version was raised.
AnswersHeard ==
  \A a \in Targets : CanSend(a) => LatestTeleporter \in Teleporters /\ Receives(a, LatestTeleporter)

InNonceOrder(a) ==
  /\ Len(delivered[a]) = nonces[a]
  /\ \A i \in 1..nonces[a] : delivered[a][i].nonce = i - 1 /\ delivered[a][i].target = a

DecidedMins(a) == {i \in 1..nonces[a] : delivered[a][i].call.type = "updateMinTeleporterVersion"}

MinAsDecided(a) ==
  \A i \in DecidedMins(a) :
    /\ delivered[a][i].call.version <= minTeleporterVersion[a]
    /\ \A j \in DecidedMins(a) :
         i < j => delivered[a][i].call.version < delivered[a][j].call.version
    /\ (\A j \in DecidedMins(a) : j <= i)
         => delivered[a][i].call.version = minTeleporterVersion[a]

PausedAsDecided(a) ==
  \A t \in Teleporters :
    t \in pausedTeleporterAddresses[a]
      <=> \E i \in 1..nonces[a] :
            /\ delivered[a][i].call = Pause(t)
            /\ \A j \in (i + 1)..nonces[a] : delivered[a][j].call # Unpause(t)

\* What an app allows is what the validators decided, each decision once and in the order of its
\* nonces: the least version rose with each of them up to the last, and a messenger is paused when
\* the last decision about it says so.
AsDecided ==
  \A a \in Targets : InNonceOrder(a) /\ MinAsDecided(a) /\ PausedAsDecided(a)

\* A messenger that is too old for an app is heard again only if it is registered again, with a
\* version that is not too old: raising the least version for good cuts off what is under way.
TooOld(a, t) == addressToVersion[t] # 0 /\ addressToVersion[t] < minTeleporterVersion[a]
CutOff ==
  [][\A a \in Targets, t \in Teleporters :
       TooOld(a, t) /\ ~TooOld(a, t)'
         => /\ addressToVersion'[t] \notin Registered
            /\ versionToAddress'[addressToVersion'[t]] = t]_vars
=============================================================================
