------------------------ MODULE CoqnetStakingManager ------------------------
(***************************************************************************)
(* The staking contract of Coqnet, which admits validators to epochs of 30 *)
(* days with a few places each and pays rewards for the validations that   *)
(* keep their place (contracts/coqnet/CoqnetERC20TokenStakingManager.sol). *)
(* Every transaction is a step: completeEndValidation and the registration *)
(* functions are nonReentrant and the staked token (WCOQ) calls nobody.    *)
(***************************************************************************)
EXTENDS PoSValidatorManager

CONSTANTS
  Registrars,         \* the accounts with REGISTER_ROLE
  MaxEpochValidators, \* MAX_EPOCH_VALIDATORS
  EpochDuration,      \* EPOCH_DURATION
  Owners,             \* bound: those that validations are registered for
  Recipients,         \* bound: the accounts that rewards are directed to
  MinStakeDurations,  \* bound: the minimum durations that registrations ask for
  MaxRegistrations    \* bound: the number of registrations

ASSUME EpochAssumption ==
  /\ MaxEpochValidators \in Nat \ {0}
  /\ EpochDuration \in Nat \ {0}
  /\ Registrars \cup Recipients \subseteq Accounts
  /\ Owners \subseteq Accounts \cup {ZeroAddress}
  /\ MinStakeDurations \subseteq Nat
  /\ MaxRegistrations \in Nat

VARIABLES
  epochs,           \* sequence of [startTime, endTime, validationIDs]; the current epoch is its last
  lastValidationId, \* [owner -> ID], of address(0) as well
  validationIdEpoch \* [ID -> number of its epoch]

epochVars == <<epochs, lastValidationId, validationIdEpoch>>

vars == <<managerVars, posVars, epochVars>>

Init ==
  /\ ManagerInit
  /\ PosInit
  /\ epochs = <<>>
  /\ lastValidationId = Empty
  /\ validationIdEpoch = Empty

----------------------------------------------------------------------------
(* Admission to an epoch: the modifier checkRegistration *)

\* _checkAndUpdateValidationEpoch
EpochsNow ==
  IF epochs # <<>> /\ now < Last(epochs).endTime
  THEN epochs
  ELSE Append(epochs, [startTime |-> now, endTime |-> now + EpochDuration, validationIDs |-> <<>>])

ValidationsOfEpoch(list, n) == IF n \in DOMAIN list THEN Range(list[n].validationIDs) ELSE {}

\* Mutant: the previous epoch is not looked at.
FreeToRegisterThisEpoch(owner, list) ==
  (owner \in DOMAIN lastValidationId /\ IsPoSValidator(lastValidationId[owner])) =>
    lastValidationId[owner] \notin ValidationsOfEpoch(list, Len(list))

\* _checkRegistrationEpoch: the owner's last validation has no place in this or the previous epoch.
\* One registered for address(0) counts as none.
FreeToRegister(owner, list) ==
  (owner \in DOMAIN lastValidationId /\ IsPoSValidator(lastValidationId[owner])) =>
    /\ lastValidationId[owner] \notin ValidationsOfEpoch(list, Len(list))
    /\ lastValidationId[owner] \notin ValidationsOfEpoch(list, Len(list) - 1)

\* The condition of _findInactiveValidationID.
IsInactive(id) ==
  \/ Status(id) = "Invalidated"
  \/ /\ Status(id) = "Active"
     /\ UptimeOf(id) * 100 < (now - validationPeriods[id].startedAt) * 80

\* Mutant: the last validation of the list gives way without a check.
MakeRoomForAnyone(ids) == IF Len(ids) < MaxEpochValidators THEN {ids} ELSE {Front(ids)}

\* Mutant: one place too many.
MakeRoomOffByOne(ids) == IF Len(ids) <= MaxEpochValidators THEN {ids} ELSE {}

\* _checkActiveValidationIDs: a full epoch gives the place of its first inactive validation away;
\* the last validation moves to it.  Without one there is no result: the function reverts.
MakeRoom(ids) ==
  LET inactive == {i \in DOMAIN ids : IsInactive(ids[i])}
  IN IF Len(ids) < MaxEpochValidators
     THEN {ids}
     ELSE IF inactive = {}
          THEN {}
          ELSE {Front([ids EXCEPT ![Min(inactive)] = Last(ids)])}

----------------------------------------------------------------------------
(* The functions of the contract *)

\* initializeValidatorRegistration with owner the registrar, and
\* initializeValidatorRegistrationOnBehalfOf, which takes address(0) for an owner; the stake comes
\* from the registrar.
RegisterValidation(registrar, owner, node, expiry, minStakeDuration, stake) ==
  LET id == ValidationID(node, ValueToWeight(stake), expiry)
      list == EpochsNow
  IN /\ registrar \in Registrars
     /\ FreeToRegister(owner, list)
     /\ \E ids \in MakeRoom(Last(list).validationIDs) :
          epochs' = [list EXCEPT ![Len(list)].validationIDs = Append(ids, id)]
     /\ InitializePoSRegistration(owner, node, expiry, minStakeDuration, stake)
     /\ lastValidationId' = Set(lastValidationId, owner, id)
     /\ validationIdEpoch' = Set(validationIdEpoch, id, Len(list))

InitializeValidatorRegistration(registrar, node, expiry, minStakeDuration, stake) ==
  RegisterValidation(registrar, registrar, node, expiry, minStakeDuration, stake)

InitializeValidatorRegistrationOnBehalfOf(registrar, owner, node, expiry, minStakeDuration, stake) ==
  RegisterValidation(registrar, owner, node, expiry, minStakeDuration, stake)

\* The override of _initializeEndValidation: a validation ends when the current epoch does, at the
\* latest.  The epoch of the validation may be an earlier one.
EndTime == IF epochs # <<>> /\ now >= Last(epochs).endTime THEN Last(epochs).endTime ELSE now

\* Mutant: the rewards of a validation without a place stay.
KeepsPlaceAlways(id) == TRUE

\* Whether the validation is still on the list of its epoch.
KeepsPlace(id) == id \in ValidationsOfEpoch(epochs, validationIdEpoch[id])

\* initializeEndValidation, which reverts if there is no reward, and forceInitializeEndValidation.
\* The override of _initializeEndPoSValidation refuses validations without an owner, and takes the
\* reward of a validation that lost its place, which the check for a reward does not notice.
EndPoSValidation(id, sender, proof, recipient, force) ==
  LET reward == RewardAtEnd(id, proof, EndTime)
  IN /\ IsPoSValidator(id)
     /\ force \/ reward > 0
     /\ InitializeEndPoSValidation(id, sender, proof, recipient, EndTime,
          IF KeepsPlace(id) THEN AmountAt(redeemableValidatorRewards, id) + reward ELSE 0)
     /\ UNCHANGED epochVars

----------------------------------------------------------------------------

Registers ==
  \E registrar \in Registrars, node \in NodeIDs, minStakeDuration \in MinStakeDurations,
     stake \in StakeAmounts, expiry \in now .. now + MaximumRegistrationExpiryLength :
    /\ expiry <= MaxTime
    /\ RegistrationsMade < MaxRegistrations
    /\ \/ InitializeValidatorRegistration(registrar, node, expiry, minStakeDuration, stake)
       \/ \E owner \in Owners :
            InitializeValidatorRegistrationOnBehalfOf(registrar, owner, node, expiry,
                                                      minStakeDuration, stake)

Ends(id) ==
  \E sender \in Accounts, proof \in UptimeProofs \cup {NoProof}, force \in BOOLEAN :
    \E recipient \in Recipients \cup {sender} : EndPoSValidation(id, sender, proof, recipient, force)

Completes(id) == CompleteEndValidation(id) /\ UNCHANGED epochVars

Next ==
  \/ ManagerStep /\ UNCHANGED <<posVars, epochVars>>
  \/ Registers
  \/ \E id \in DOMAIN validationPeriods :
       \/ Ends(id)
       \/ Completes(id)
       \/ \E proof \in UptimeProofs : SubmitUptimeProof(id, proof) /\ UNCHANGED epochVars
       \/ \E a \in Recipients : ChangeValidatorRewardRecipient(id, a) /\ UNCHANGED epochVars
       \/ ClaimDelegationFees(id) /\ UNCHANGED epochVars

Spec == Init /\ [][Next]_vars

----------------------------------------------------------------------------
(* Properties *)

TypeOK ==
  /\ ManagerTypeOK
  /\ PosTypeOK
  /\ epochs \in Seq([startTime : Nat, endTime : Nat, validationIDs : Seq(DOMAIN validationIdEpoch)])
  /\ lastValidationId \in [DOMAIN lastValidationId -> DOMAIN validationIdEpoch]
  /\ DOMAIN lastValidationId \subseteq Accounts \cup {ZeroAddress}
  /\ validationIdEpoch \in [DOMAIN validationIdEpoch -> DOMAIN epochs]
  /\ DOMAIN posValidatorInfo \subseteq DOMAIN validationIdEpoch
  /\ DOMAIN validationIdEpoch \subseteq DOMAIN validationPeriods

EpochOf(id) == epochs[validationIdEpoch[id]]

\* The epochs follow one another and their lists hold no more validations than there are places,
\* whatever evictions and ends come in between.  A list holds validations of its own, each once; an ID
\* that was registered again may be there more than once, and on the lists of earlier epochs too, but
\* on none later than the epoch it counts for.
EpochListsSound ==
  \A n \in DOMAIN epochs :
    LET ids == epochs[n].validationIDs
    IN /\ Len(ids) <= MaxEpochValidators
       /\ n > 1 => epochs[n - 1].endTime <= epochs[n].startTime
       /\ \A i \in DOMAIN ids :
            /\ validationIdEpoch[ids[i]] >= n
            /\ RegisteredOnce(ids[i]) =>
                 /\ validationIdEpoch[ids[i]] = n
                 /\ \A j \in DOMAIN ids : ids[j] = ids[i] => j = i

\* The validations with an owner that have a place in epoch n, the one they count for.
OwnedPlaces(n) ==
  {id \in ValidationsOfEpoch(epochs, n) : IsPoSValidator(id) /\ validationIdEpoch[id] = n}

\* An owner has at most one place in an epoch and the one before it together, whoever had the IDs
\* before.
OnePlacePerOwner ==
  \A n \in DOMAIN epochs :
    \A id1, id2 \in OwnedPlaces(n) \cup OwnedPlaces(n - 1) :
      posValidatorInfo[id1].owner = posValidatorInfo[id2].owner => id1 = id2

\* "Validations that ended up out of active list (5), won't earn any rewards": neither the end of a
\* validation nor a later claim pays for a place that was lost.
OnlyPlacesEarn ==
  \A id \in DOMAIN validationIdEpoch :
    EarnedBy(id) > 0 => id \in ValidationsOfEpoch(epochs, validationIdEpoch[id])

\* A step takes places from the list of the current epoch only, one at most and that of a validation
\* that is inactive: registrations evict nobody else, and lists of past epochs never change.
PlacesLostOnlyByInactive ==
  [][\A n \in DOMAIN epochs :
       LET lost == ValidationsOfEpoch(epochs, n) \ ValidationsOfEpoch(epochs', n)
       IN lost # {} => /\ n = Len(epochs')
                       /\ Cardinality(lost) = 1
                       /\ \A id \in lost : IsInactive(id)]_vars

\* doc/validatorManagerEpochs.md, line 9: validations end by the end of their epoch.
EndsWithinItsEpoch ==
  \A id \in PoSValidations({"PendingRemoved", "Completed"}) :
    validationPeriods[id].endedAt <= EpochOf(id).endTime

\* doc/validatorManagerEpochs.md, line 11: no owner registers for consecutive epochs.
NoConsecutiveEpochs ==
  \A id1, id2 \in DOMAIN posValidatorInfo :
    (posValidatorInfo[id1].owner = posValidatorInfo[id2].owner /\ id1 # id2)
      => AbsDiff(validationIdEpoch[id1], validationIdEpoch[id2]) > 1

=============================================================================
