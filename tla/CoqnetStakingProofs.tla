------------------------ MODULE CoqnetStakingProofs ------------------------
(***************************************************************************)
(* Theorems about the staking contract of Coqnet, for any set of nodes,    *)
(* accounts, stakes and durations, any number of places and any time: the  *)
(* types, that a node has one validation, the agreement with the P-Chain,  *)
(* that stakes are an escrow and covered, the total weight, the epochs and *)
(* what is earned.  What holds of any staking contract comes from          *)
(* ValidatorManagerProofs.                                                 *)
(***************************************************************************)
EXTENDS CoqnetStakingManager, ValidatorManagerProofs, SequenceTheorems, WellFoundedInduction

EpochType(ids) == [startTime : Nat, endTime : Nat, validationIDs : Seq(ids)]

EpochTypeOK ==
  /\ epochs \in Seq(EpochType(DOMAIN validationIdEpoch))
  /\ lastValidationId \in [DOMAIN lastValidationId -> DOMAIN validationIdEpoch]
  /\ DOMAIN lastValidationId \subseteq Accounts \cup {ZeroAddress}
  /\ validationIdEpoch \in [DOMAIN validationIdEpoch -> DOMAIN epochs]
  /\ DOMAIN posValidatorInfo \subseteq DOMAIN validationIdEpoch
  /\ DOMAIN validationIdEpoch \subseteq DOMAIN validationPeriods

Inv == ManagerInv /\ StakingInv /\ TypeOK

----------------------------------------------------------------------------
(* Lemmas about epochs *)

\* To start an epoch when the last is over keeps the others (_checkAndUpdateValidationEpoch).
LEMMA EpochsNowType ==
  ASSUME now \in Nat, EpochTypeOK
  PROVE  /\ EpochsNow \in Seq(EpochType(DOMAIN validationIdEpoch))
         /\ EpochsNow # <<>>
         /\ Len(epochs) <= Len(EpochsNow)
<1> DEFINE ids == DOMAIN validationIdEpoch
           new == [startTime |-> now, endTime |-> now + EpochDuration, validationIDs |-> <<>>]
<1>1. new \in EpochType(ids)
  BY EpochAssumption DEF EpochType
<1> HIDE DEF new
<1>2. epochs \in Seq(EpochType(ids))
  BY DEF EpochTypeOK
<1> HIDE DEF ids
<1>3. EpochsNow = epochs \/ EpochsNow = Append(epochs, new)
  BY DEF EpochsNow, new
<1>4. CASE EpochsNow = epochs
  <2>1. epochs # <<>>
    <3>1. Append(epochs, new) # <<>>
      <4>1. Len(Append(epochs, new)) = Len(epochs) + 1 /\ Len(epochs) \in Nat
        BY <1>1, <1>2
      <4> QED BY <4>1
    <3> QED BY <1>4, <3>1 DEF EpochsNow, new
  <2> QED BY <1>2, <1>4, <2>1 DEF ids
<1>5. CASE EpochsNow = Append(epochs, new)
  BY <1>1, <1>2, <1>5 DEF ids
<1> QED BY <1>3, <1>4, <1>5

\* The list that makes room for a registration holds validations of the list before
\* (_checkActiveValidationIDs).
LEMMA MakeRoomType ==
  ASSUME NEW S, NEW ids \in Seq(S), NEW room \in MakeRoom(ids)
  PROVE  room \in Seq(S)
<1>1. CASE Len(ids) < MaxEpochValidators
  BY <1>1 DEF MakeRoom
<1>2. CASE ~(Len(ids) < MaxEpochValidators)
  <2> DEFINE inactive == {i \in DOMAIN ids : IsInactive(ids[i])}
             moved == [ids EXCEPT ![Min(inactive)] = Last(ids)]
  <2>1. Len(ids) \in Nat /\ Len(ids) >= 1
    BY <1>2, EpochAssumption
  <2>2. ids \in [1 .. Len(ids) -> S] /\ Last(ids) \in S
    BY <2>1 DEF Last
  <2>3. moved \in [1 .. Len(ids) -> S]
    BY <2>2
  <2>4. moved \in Seq(S)
    BY <2>1, <2>3
  <2>5. room = Front(moved)
    BY <1>2 DEF MakeRoom
  <2> HIDE DEF moved
  <2>6. room = SubSeq(moved, 1, Len(moved) - 1)
    BY <2>5 DEF Front
  <2> QED BY <2>3, <2>4, <2>6, <2>1
<1> QED BY <1>1, <1>2

\* A validation does not end in the future (the override of _initializeEndValidation).
LEMMA EndTimeType ==
  ASSUME now \in Nat, EpochTypeOK
  PROVE  EndTime \in Nat /\ EndTime <= now
<1>1. CASE epochs # <<>>
  <2>1. Last(epochs) \in EpochType(DOMAIN validationIdEpoch)
    BY <1>1 DEF EpochTypeOK, Last
  <2> QED BY <2>1 DEF EndTime, EpochType
<1>2. CASE epochs = <<>>
  BY <1>2 DEF EndTime
<1> QED BY <1>1, <1>2

----------------------------------------------------------------------------
(* What the contract does *)

\* A registration is one of RegisterValidation, whoever calls it for whom.
LEMMA RegistrationArguments ==
  ASSUME StakingInv, Registers
  PROVE  \E registrar \in Registrars, owner \in Accounts \cup {ZeroAddress}, node \in NodeIDs,
            expiry \in Nat, minStakeDuration \in MinStakeDurations, stake \in StakeAmounts :
           RegisterValidation(registrar, owner, node, expiry, minStakeDuration, stake)
<1>1. now \in Nat /\ MaximumRegistrationExpiryLength \in Nat
  BY ClockAssumption DEF StakingInv, ManagerCore, ManagerTypeOK
<1>2. \A expiry \in now .. now + MaximumRegistrationExpiryLength : expiry \in Nat
  BY <1>1
<1> QED BY <1>2, EpochAssumption
        DEF Registers, InitializeValidatorRegistration, InitializeValidatorRegistrationOnBehalfOf

\* A registration is one with a stake (initializeValidatorRegistration and ...OnBehalfOf).
LEMMA RegistrationStakes ==
  ASSUME NEW registrar \in Registrars, NEW owner \in Accounts \cup {ZeroAddress},
         NEW node \in NodeIDs, NEW expiry \in Nat,
         NEW minStakeDuration \in MinStakeDurations, NEW stake \in StakeAmounts,
         RegisterValidation(registrar, owner, node, expiry, minStakeDuration, stake)
  PROVE  /\ minStakeDuration \in Nat
         /\ InitializePoSRegistration(owner, node, expiry, minStakeDuration, stake)
BY EpochAssumption DEF RegisterValidation

\* What accrues at an end: the reward if the validation kept its place (the override of
\* _initializeEndPoSValidation).
AccruedAtEnd(id, proof) ==
  IF KeepsPlace(id)
  THEN AmountAt(redeemableValidatorRewards, id) + RewardAtEnd(id, proof, EndTime)
  ELSE 0

\* An end is one of a validation with an owner, at the end of the current epoch at the latest.
LEMMA EndIsOwned ==
  ASSUME StakingInv, EpochTypeOK, NEW id \in DOMAIN validationPeriods, NEW sender \in Accounts,
         NEW proof \in UptimeProofs \cup {NoProof}, NEW recipient \in Accounts, NEW force \in BOOLEAN,
         EndPoSValidation(id, sender, proof, recipient, force)
  PROVE  /\ id \in DOMAIN posValidatorInfo
         /\ EndTime \in Nat
         /\ AccruedAtEnd(id, proof) \in Nat
         /\ EndsOwned(id, sender, proof, recipient, EndTime, AccruedAtEnd(id, proof))
<1>1. now \in Nat /\ EndTime \in Nat /\ EndTime <= now
  BY EndTimeType DEF StakingInv, ManagerCore, ManagerTypeOK
<1>2. /\ IsPoSValidator(id)
      /\ InitializeEndPoSValidation(id, sender, proof, recipient, EndTime, AccruedAtEnd(id, proof))
  BY DEF EndPoSValidation, AccruedAtEnd
<1>3. /\ id \in DOMAIN posValidatorInfo
      /\ AmountAt(redeemableValidatorRewards, id) + RewardAtEnd(id, proof, EndTime) \in Nat
  BY <1>1, <1>2, EndIsLate
<1>4. AccruedAtEnd(id, proof) \in
        {0, AmountAt(redeemableValidatorRewards, id) + RewardAtEnd(id, proof, EndTime)}
  BY DEF AccruedAtEnd
<1> QED BY <1>1, <1>2, <1>3, <1>4 DEF EndsOwned

\* An end, whoever asks for it.
LEMMA EndArguments ==
  ASSUME StakingInv, EpochTypeOK, NEW id \in DOMAIN validationPeriods, Ends(id)
  PROVE  \E sender \in Accounts, proof \in UptimeProofs \cup {NoProof}, recipient \in Accounts :
           /\ id \in DOMAIN posValidatorInfo /\ EndTime \in Nat
           /\ AccruedAtEnd(id, proof) \in Nat
           /\ EndsOwned(id, sender, proof, recipient, EndTime, AccruedAtEnd(id, proof))
BY EndIsOwned, EpochAssumption DEF Ends

\* Coqnet's contract does what staking contracts do.
LEMMA NextIsStaking ==
  ASSUME StakingInv, EpochTypeOK, [Next]_vars
  PROVE  StakingStep
<1>1. CASE Registers
  BY <1>1, RegistrationArguments, RegistrationStakes DEF StakingStep
<1>2. ASSUME NEW id \in DOMAIN validationPeriods, Ends(id)
      PROVE  StakingStep
  <2>1. PICK sender \in Accounts, proof \in UptimeProofs \cup {NoProof}, recipient \in Accounts :
          /\ EndTime \in Nat /\ AccruedAtEnd(id, proof) \in Nat
          /\ EndsOwned(id, sender, proof, recipient, EndTime, AccruedAtEnd(id, proof))
    BY <1>2, EndArguments
  <2> QED BY <2>1 DEF StakingStep
<1> QED BY <1>1, <1>2, EpochAssumption DEF Next, Completes, vars, StakingStep

\* A step that is no registration leaves the epochs and the owners as they are.
LEMMA EpochFrame ==
  ASSUME StakingInv, [Next]_vars, ~Registers
  PROVE  /\ UNCHANGED epochVars
         /\ DOMAIN posValidatorInfo' = DOMAIN posValidatorInfo
         /\ \A id \in DOMAIN posValidatorInfo :
              posValidatorInfo'[id].owner = posValidatorInfo[id].owner
<1>1. CASE ManagerStep /\ UNCHANGED <<posVars, epochVars>>
  BY <1>1 DEF posVars
<1>2. ASSUME NEW id \in DOMAIN validationPeriods, Ends(id)
      PROVE  /\ UNCHANGED epochVars
             /\ \E uptime : posValidatorInfo' = [posValidatorInfo EXCEPT ![id].uptimeSeconds = uptime]
  BY <1>2 DEF Ends, EndPoSValidation, InitializeEndPoSValidation
<1>3. ASSUME NEW id \in DOMAIN validationPeriods, Completes(id)
      PROVE  UNCHANGED epochVars /\ UNCHANGED posValidatorInfo
  BY <1>3 DEF Completes, CompleteEndValidation, posVars
<1>4. ASSUME NEW id \in DOMAIN validationPeriods, NEW proof \in UptimeProofs,
             SubmitUptimeProof(id, proof)
      PROVE  \E uptime : posValidatorInfo' = [posValidatorInfo EXCEPT ![id].uptimeSeconds = uptime]
  BY <1>4 DEF SubmitUptimeProof
<1>5. ASSUME NEW id, NEW uptime,
             posValidatorInfo' = [posValidatorInfo EXCEPT ![id].uptimeSeconds = uptime]
      PROVE  /\ DOMAIN posValidatorInfo' = DOMAIN posValidatorInfo
             /\ \A other \in DOMAIN posValidatorInfo :
                  posValidatorInfo'[other].owner = posValidatorInfo[other].owner
  BY <1>5 DEF StakingInv, PosTypeOK
<1> QED BY <1>1, <1>2, <1>3, <1>4, <1>5
        DEF Next, ChangeValidatorRewardRecipient, ClaimDelegationFees, vars, posVars

\* It leaves what was registered in the records, each ID as often as it was.
LEMMA RecordsStay ==
  ASSUME StakingInv, EpochTypeOK, [Next]_vars, ~Registers
  PROVE  /\ DOMAIN validationPeriods \subseteq DOMAIN validationPeriods'
         /\ \A id \in DOMAIN validationPeriods : RegisteredOnce(id)' <=> RegisteredOnce(id)
<1>1. ManagerCore /\ ManagerTypeOK
  BY DEF StakingInv, ManagerCore
<1>2. CASE UNCHANGED managerVars
  BY <1>2 DEF managerVars, RegisteredOnce
<1>3. CASE ManagerStep
  <2>1. CASE InitializeValidatorSet
    BY <1>1, <2>1 DEF InitializeValidatorSet, ManagerCore, NothingBefore
  <2>2. CASE ~InitializeValidatorSet
    <3>1. UNCHANGED history
      BY <1>3, <2>2
      DEF ManagerStep, ResendRegisterValidatorMessage, CompleteValidatorRegistration,
          ResendEndValidatorMessage, PChainRegisters, PChainRemoves, MessageLost, Tick
    <3>2. DOMAIN validationPeriods \subseteq DOMAIN validationPeriods'
      BY <1>1, <1>3, ManagerStepFrame, CompleteValidatorRegistrationFrame
    <3> QED BY <3>1, <3>2 DEF RegisteredOnce
  <2> QED BY <2>1, <2>2
<1>4. ASSUME NEW id \in DOMAIN validationPeriods, Ends(id)
      PROVE  /\ DOMAIN validationPeriods \subseteq DOMAIN validationPeriods'
             /\ UNCHANGED history
  <2>1. InitializeEndValidation(id, EndTime) /\ EndTime \in Nat
    BY <1>4, EndArguments DEF EndsOwned, InitializeEndPoSValidation
  <2> QED BY <1>1, <2>1, InitializeEndValidationFrame DEF InitializeEndValidation
<1>5. ASSUME NEW id \in DOMAIN validationPeriods, Completes(id)
      PROVE  /\ DOMAIN validationPeriods \subseteq DOMAIN validationPeriods'
             /\ \A other \in DOMAIN validationPeriods :
                  RegisteredOnce(other)' <=> RegisteredOnce(other)
  <2>1. CompleteEnd(id)
    BY <1>5 DEF Completes, CompleteEndValidation
  <2> QED BY <1>1, <2>1, CompleteEndFrame, CompleteEndIsCounted
<1> QED BY <1>2, <1>3, <1>4, <1>5
        DEF Next, SubmitUptimeProof, ChangeValidatorRewardRecipient, ClaimDelegationFees, vars,
            RegisteredOnce

\* The epochs stay lists of validations that were registered here when one is registered.
LEMMA RegistrationKeepsEpochTypes ==
  ASSUME StakingInv, EpochTypeOK,
         NEW registrar \in Registrars, NEW owner \in Accounts \cup {ZeroAddress},
         NEW node \in NodeIDs, NEW expiry \in Nat,
         NEW minStakeDuration \in MinStakeDurations, NEW stake \in StakeAmounts,
         RegisterValidation(registrar, owner, node, expiry, minStakeDuration, stake)
  PROVE  EpochTypeOK'
<1> DEFINE id == ValidationID(node, ValueToWeight(stake), expiry)
           list == EpochsNow
           known == DOMAIN validationIdEpoch
           after == known \cup {id}
<1>1. /\ InitializeRegistration(id)
      /\ DOMAIN posValidatorInfo' \subseteq DOMAIN posValidatorInfo \cup {id}
      /\ lastValidationId' = Set(lastValidationId, owner, id)
      /\ validationIdEpoch' = Set(validationIdEpoch, id, Len(list))
  BY DEF RegisterValidation, InitializePoSRegistration, SetFor, Set, Without, Restrict
<1>2. PICK ids \in MakeRoom(Last(list).validationIDs) :
        epochs' = [list EXCEPT ![Len(list)].validationIDs = Append(ids, id)]
  BY DEF RegisterValidation
<1>3. DOMAIN validationIdEpoch' = after
  BY <1>1 DEF Set
<1>4. /\ list \in Seq(EpochType(known)) /\ list # <<>> /\ Len(epochs) <= Len(list)
  BY EpochsNowType DEF StakingInv, ManagerCore, ManagerTypeOK
<1> HIDE DEF list, id
<1>5. Len(list) \in Nat /\ Len(list) >= 1 /\ list \in [1 .. Len(list) -> EpochType(known)]
  BY <1>4
<1>6. Last(list) = list[Len(list)] /\ Last(list).validationIDs \in Seq(known)
  BY <1>5 DEF Last, EpochType
<1>7. ids \in Seq(known)
  BY <1>2, <1>6, MakeRoomType
<1>8. Append(ids, id) \in Seq(after)
  BY <1>7
<1>9. \A epoch \in EpochType(known) : epoch \in EpochType(after)
  <2>1. Seq(known) \subseteq Seq(after)
    OBVIOUS
  <2> QED BY <2>1 DEF EpochType
<1> DEFINE n == Len(list)
           T == EpochType(after)
<1>10. epochs' \in [1 .. n -> T]
  <2>1. list \in [1 .. n -> T]
    BY <1>5, <1>9
  <2>2. n \in 1 .. n
    BY <1>5
  <2>3. \A epoch \in T : [epoch EXCEPT !.validationIDs = Append(ids, id)] \in T
    BY <1>8 DEF EpochType
  <2>4. epochs' = [list EXCEPT ![n] = [list[n] EXCEPT !.validationIDs = Append(ids, id)]]
    BY <1>2, <2>1, <2>2
  <2> HIDE DEF T, n
  <2>5. list[n] \in T
    BY <2>1, <2>2
  <2> QED BY <2>1, <2>2, <2>3, <2>4, <2>5
<1>11. epochs' \in Seq(T) /\ DOMAIN epochs' = 1 .. n
  <2>1. n \in Nat
    BY <1>5
  <2> HIDE DEF T, n
  <2> QED BY <1>10, <2>1
<1>12. validationIdEpoch' \in [after -> DOMAIN epochs']
  <2>1. DOMAIN epochs \subseteq 1 .. Len(list)
    BY <1>4, <1>5 DEF EpochTypeOK
  <2> QED BY <1>1, <1>5, <1>11, <2>1 DEF Set, EpochTypeOK
<1>13. /\ lastValidationId' \in [DOMAIN lastValidationId' -> after]
       /\ DOMAIN lastValidationId' \subseteq Accounts \cup {ZeroAddress}
  BY <1>1 DEF Set, EpochTypeOK
<1>14. /\ DOMAIN posValidatorInfo' \subseteq after
       /\ after \subseteq DOMAIN validationPeriods'
  BY <1>1, InitializeRegistrationFrame DEF EpochTypeOK
<1> QED BY <1>3, <1>11, <1>12, <1>13, <1>14 DEF EpochTypeOK

\* The epochs stay so whatever the contract does.
LEMMA NextKeepsEpochTypes ==
  ASSUME StakingInv, EpochTypeOK, [Next]_vars
  PROVE  EpochTypeOK'
<1>1. CASE Registers
  BY <1>1, RegistrationArguments, RegistrationKeepsEpochTypes
<1>2. CASE ~Registers
  <2>1. /\ UNCHANGED epochVars /\ DOMAIN posValidatorInfo' = DOMAIN posValidatorInfo
        /\ DOMAIN validationPeriods \subseteq DOMAIN validationPeriods'
    BY <1>2, EpochFrame, RecordsStay
  <2> QED BY <2>1 DEF EpochTypeOK, epochVars
<1> QED BY <1>1, <1>2

----------------------------------------------------------------------------
(* The invariant *)

\* The invariant holds of every state (all functions of the three contracts).
THEOREM Invariance == Spec => []Inv
<1>1. Inv <=> ManagerInv /\ StakingInv /\ EpochTypeOK
  BY DEF Inv, TypeOK, EpochTypeOK, EpochType, StakingInv, ManagerInv
<1>2. Init => Inv
  <2> SUFFICES ASSUME Init
               PROVE  ManagerInv /\ StakingInv /\ EpochTypeOK
    BY <1>1
  <2>1. ManagerInv /\ StakingInv
    BY ManagerInitially, StakingInitially DEF Init
  <2>2. EpochTypeOK
    BY DEF Init, PosInit, EpochTypeOK, Empty
  <2> QED BY <2>1, <2>2
<1>3. Inv /\ [Next]_vars => Inv'
  <2> SUFFICES ASSUME Inv, [Next]_vars
               PROVE  Inv'
    OBVIOUS
  <2>1. StakingInv /\ EpochTypeOK
    BY <1>1
  <2>2. ManagerInv'
    BY <2>1, NextIsStaking, StakingStepKeepsManager DEF Inv
  <2>3. StakingInv'
    BY <2>1, NextIsStaking, StakingStepKeeps
  <2>4. EpochTypeOK'
    BY <2>1, NextKeepsEpochTypes
  <2> QED BY <2>2, <2>3, <2>4
       DEF Inv, TypeOK, EpochTypeOK, EpochType, StakingInv, ManagerInv
<1> QED BY <1>2, <1>3, PTL DEF Spec

\* What follows from the invariant about a step.
LEMMA InvSteps ==
  ASSUME Inv
  PROVE  /\ ManagerInv /\ ManagerCore /\ StakingInv /\ EpochTypeOK /\ PosTypeOK
         /\ [Next]_vars => StakingStep
<1>1. ManagerInv /\ StakingInv /\ EpochTypeOK
  BY DEF Inv, TypeOK, EpochTypeOK, EpochType
<1> QED BY <1>1, NextIsStaking DEF StakingInv

\* Types, of all three contracts.
THEOREM TypeCorrect == Spec => []TypeOK
<1>1. Inv => TypeOK
  BY DEF Inv
<1> QED BY <1>1, Invariance, PTL

\* A node has one validation that has not ended (_registeredValidators).
THEOREM NodeUniqueness == Spec => []OneValidationPerNode
<1>1. Inv => OneValidationPerNode
  BY InvSteps, NodesAreUnique
<1> QED BY <1>1, Invariance, PTL

\* The manager and the P-Chain agree, whatever messages are lost or repeated and however short
\* stakes may be: what an ID that is used again is taken for does not matter to the P-Chain.
THEOREM AgreementWithPChain == Spec => []AgreesWithPChain
<1>1. Inv => AgreesWithPChain
  BY DEF Inv, ManagerInv, ManagerTypeOK, StatusesSound, AgreesWithPChain, Validations, Live,
         Statuses, Status
<1> QED BY <1>1, Invariance, PTL

----------------------------------------------------------------------------
(* The stakes *)

\* The staking contract keeps the stake of every owner until its validation has ended and then returns
\* it once, to its owner, less what no weight stands for (_lock, _unlock).
THEOREM StakesInEscrow == Spec => EscrowSpec
<1>1. Init => StakeIsEscrow!EscrowInit
  BY EscrowInitially DEF Init
<1>2. Inv /\ [Next]_vars => [StakeIsEscrow!EscrowNext]_(StakeIsEscrow!escrowVars)
  BY InvSteps, StakingStepIsEscrow
<1> QED BY <1>1, <1>2, Invariance, PTL DEF Spec, EscrowSpec, StakeIsEscrow!Escrow

\* The contract always holds the stakes that it has to give back.
THEOREM StakesBacked == Spec => []StakeBacked
<1>1. Init => StakeBacked
  BY BackedInitially DEF Init
<1>2. Inv /\ [Next]_vars /\ StakeBacked => StakeBacked'
  BY InvSteps, StakingStepKeepsBacked
<1> QED BY <1>1, <1>2, Invariance, PTL DEF Spec

\* The end of a validation is never held up by the balance: each stake to give back is there.
COROLLARY StakesPayable == Spec => [](\A id \in PoSValidations(Live) : StakeOf(id) <= stakeBalance)
<1>1. Inv /\ StakeBacked => \A id \in PoSValidations(Live) : StakeOf(id) <= stakeBalance
  BY InvSteps, StakesSplit
<1> QED BY <1>1, Invariance, StakesBacked, PTL

----------------------------------------------------------------------------
(* The total weight *)

\* The total is accounted for after every function of the contract, also when an ID is used again.
THEOREM WeightInvariance == Spec => []WeightsAccounted
<1>1. Init => WeightsAccounted
  BY NothingWeighsInitially DEF Init
<1>2. Inv /\ [Next]_vars /\ WeightsAccounted => WeightsAccounted'
  BY InvSteps, StakingStepKeepsWeights
<1> QED BY <1>1, <1>2, Invariance, PTL DEF Spec

\* The total weight that churn is measured against is never more or less than the weight of the
\* validations that are pending or active and of the registrations that were invalidated
\* (_churnTracker.totalWeight).
THEOREM TotalWeightExact == Spec => []TotalWeightAccounted
<1>1. WeightsAccounted => TotalWeightAccounted
  BY DEF WeightsAccounted, TotalWeightAccounted, WeightSum, Weight, WeightOf, Weighing, Lost, LostOf
<1> QED BY <1>1, WeightInvariance, PTL

----------------------------------------------------------------------------
(* The epochs *)

\* A validation with a place is the last one of its owner, or its epoch is before the previous one
\* (_lastValidationId, which _checkRegistrationEpoch looks up).
LastPlaces ==
  \A n \in DOMAIN epochs : \A id \in OwnedPlaces(n) :
    LET owner == posValidatorInfo[id].owner
    IN /\ owner \in DOMAIN lastValidationId
       /\ id = lastValidationId[owner] \/ n + 2 <= Len(epochs)

EpochInv == EpochListsSound /\ OnePlacePerOwner /\ LastPlaces

----------------------------------------------------------------------------
(* Making room *)

\* The first index of a non-empty set is in the set (_findInactiveValidationID).
LEMMA FirstIndex ==
  ASSUME NEW S \in SUBSET Nat, S # {}
  PROVE  Min(S) \in S
<1> DEFINE less == {pair \in Nat \X Nat : pair[1] < pair[2]}
<1>1. IsWellFoundedOn(less, Nat)
  BY NatLessThanWellFounded DEF OpToRel
<1>2. S \subseteq Nat
  OBVIOUS
<1>3. \A y \in S, x \in S : y < x => <<y, x>> \in less
  OBVIOUS
<1> HIDE DEF less
<1>4. PICK x \in S : \A y \in S : ~(<<y, x>> \in less)
  BY <1>1, <1>2, WFMin
<1>5. \A y \in S : x <= y
  <2> SUFFICES ASSUME NEW y \in S
               PROVE  x <= y
    OBVIOUS
  <2>1. ~(y < x)
    BY <1>3, <1>4
  <2>2. x \in Nat /\ y \in Nat
    BY <1>2
  <2> QED BY <2>1, <2>2
<1> QED BY <1>5 DEF Min

\* A validation is on a list once, or not at all.
Once(ids, id) == \A i, j \in DOMAIN ids : ids[i] = id /\ ids[j] = id => i = j

\* What is left of a list when one validation at most, an inactive one, gives way.
RoomOn(ids, room) ==
  /\ Len(room) < MaxEpochValidators
  /\ Range(room) \subseteq Range(ids)
  /\ \A id : Once(ids, id) => Once(room, id)
  /\ \/ room = ids
     \/ \E i \in DOMAIN ids : IsInactive(ids[i]) /\ Range(ids) \ Range(room) \subseteq {ids[i]}

\* What is left of a list after room is made on it: fewer validations than places, none more often
\* than before (_checkActiveValidationIDs).
LEMMA MakeRoomKeeps ==
  ASSUME NEW S, NEW ids \in Seq(S), Len(ids) <= MaxEpochValidators, NEW room \in MakeRoom(ids)
  PROVE  room \in Seq(S) /\ RoomOn(ids, room)
<1>1. CASE Len(ids) < MaxEpochValidators
  BY <1>1 DEF MakeRoom, RoomOn
<1>2. CASE ~(Len(ids) < MaxEpochValidators)
  <2> DEFINE inactive == {i \in DOMAIN ids : IsInactive(ids[i])}
             n == Len(ids)
             first == Min(inactive)
             moved == [ids EXCEPT ![first] = Last(ids)]
  <2>1. n \in Nat /\ n >= 1 /\ n <= MaxEpochValidators /\ MaxEpochValidators \in Nat
    BY <1>2, EpochAssumption
  <2>2. ids \in [1 .. n -> S] /\ Last(ids) = ids[n]
    BY <2>1 DEF Last
  <2>3. inactive # {} /\ room = Front(moved)
    BY <1>2 DEF MakeRoom
  <2>4. first \in inactive
    <3>1. inactive \in SUBSET Nat
      BY <2>2
    <3> HIDE DEF inactive
    <3> QED BY <2>3, <3>1, FirstIndex
  <2>5. first \in 1 .. n /\ IsInactive(ids[first])
    BY <2>2, <2>4
  <2> HIDE DEF first, inactive
  <2>6. moved \in [1 .. n -> S]
    BY <2>1, <2>2, <2>5
  <2>7. \A i \in 1 .. n : moved[i] = IF i = first THEN ids[n] ELSE ids[i]
    BY <2>2, <2>5
  <2> HIDE DEF moved
  <2>8. moved \in Seq(S) /\ Len(moved) = n
    BY <2>1, <2>6
  <2>9. /\ room \in [1 .. n - 1 -> S] /\ room \in Seq(S) /\ Len(room) = n - 1
        /\ \A i \in 1 .. n - 1 : room[i] = moved[i]
    <3>1. room = SubSeq(moved, 1, n - 1)
      BY <2>3, <2>8 DEF Front
    <3>2. \A i \in 1 .. n - 1 : i \in 1 .. n
      BY <2>1
    <3> HIDE DEF n
    <3>3. SubSeq(moved, 1, n - 1) \in Seq(S) /\ Len(SubSeq(moved, 1, n - 1)) = n - 1
          /\ \A i \in 1 .. n - 1 : SubSeq(moved, 1, n - 1)[i] = moved[i]
      BY <2>1, <2>8, SubSeqProperties
    <3>4. room \in Seq(S) /\ Len(room) = n - 1
      BY <3>1, <3>3
    <3>5. room \in [1 .. n - 1 -> S]
      BY <3>4
    <3> QED BY <3>1, <3>3, <3>4, <3>5
  <2> DEFINE from(i) == IF i = first THEN n ELSE i
  <2>10. \A i \in 1 .. n - 1 : from(i) \in 1 .. n /\ room[i] = ids[from(i)]
    <3> SUFFICES ASSUME NEW i \in 1 .. n - 1
                 PROVE  from(i) \in 1 .. n /\ room[i] = ids[from(i)]
      OBVIOUS
    <3>1. i \in 1 .. n /\ n \in 1 .. n
      BY <2>1
    <3> QED BY <3>1, <2>7, <2>9
  <2>11. \A i, j \in 1 .. n - 1 : from(i) = from(j) => i = j
    BY <2>1
  <2>12. \A id : Once(ids, id) => Once(room, id)
    <3> SUFFICES ASSUME NEW id, Once(ids, id), NEW i \in 1 .. n - 1, NEW j \in 1 .. n - 1,
                        room[i] = id, room[j] = id
                 PROVE  i = j
      BY <2>9 DEF Once
    <3> HIDE DEF from
    <3>1. from(i) \in DOMAIN ids /\ from(j) \in DOMAIN ids
      BY <2>2, <2>10
    <3>2. ids[from(i)] = id /\ ids[from(j)] = id
      BY <2>10
    <3>3. from(i) = from(j)
      BY <3>1, <3>2 DEF Once
    <3> QED BY <2>11, <3>3
  <2>13. Range(room) \subseteq Range(ids) /\ Range(ids) \ Range(room) \subseteq {ids[first]}
    <3>1. Range(room) = {room[i] : i \in 1 .. n - 1} /\ Range(ids) = {ids[i] : i \in 1 .. n}
      BY <2>2, <2>9 DEF Range
    <3>2. ASSUME NEW j \in 1 .. n, j # first
          PROVE  \E i \in 1 .. n - 1 : room[i] = ids[j]
      <4>1. CASE j = n
        <5>1. first \in 1 .. n - 1
          BY <2>1, <2>5, <3>2, <4>1
        <5> QED BY <2>5, <2>7, <2>9, <4>1, <5>1
      <4>2. CASE j # n
        <5>1. j \in 1 .. n - 1
          BY <2>1, <4>2
        <5> QED BY <2>7, <2>9, <3>2, <5>1
      <4> QED BY <4>1, <4>2
    <3>3. \A i \in 1 .. n - 1 : room[i] \in Range(ids)
      <4> HIDE DEF from
      <4> QED BY <2>10, <3>1
    <3> QED BY <3>1, <3>2, <3>3
  <2>14. Len(room) < MaxEpochValidators
    BY <2>1, <2>9
  <2>15. first \in DOMAIN ids
    BY <2>2, <2>5
  <2> QED BY <2>5, <2>9, <2>12, <2>13, <2>14, <2>15 DEF RoomOn
<1> QED BY <1>1, <1>2

\* Registering a validation adds it to those on the list (Epoch.validationIDs.push).
LEMMA RangeOfAppend ==
  ASSUME NEW S, NEW ids \in Seq(S), NEW id
  PROVE  Range(Append(ids, id)) = Range(ids) \cup {id}
<1>1. /\ DOMAIN ids = 1 .. Len(ids) /\ Len(ids) \in Nat
      /\ DOMAIN Append(ids, id) = 1 .. Len(ids) + 1
      /\ Append(ids, id)[Len(ids) + 1] = id
      /\ \A i \in 1 .. Len(ids) : Append(ids, id)[i] = ids[i]
  OBVIOUS
<1>2. 1 .. Len(ids) + 1 = (1 .. Len(ids)) \cup {Len(ids) + 1}
  BY <1>1
<1>3. Range(Append(ids, id)) = {Append(ids, id)[i] : i \in (1 .. Len(ids)) \cup {Len(ids) + 1}}
  BY <1>1, <1>2 DEF Range
<1>4. Range(ids) = {ids[i] : i \in 1 .. Len(ids)}
  BY <1>1 DEF Range
<1> QED BY <1>1, <1>3, <1>4

----------------------------------------------------------------------------
(* What a step does to the epochs *)

\* The fields of an epoch (struct Epoch).
LEMMA EpochFields ==
  ASSUME NEW S, NEW list \in Seq(EpochType(S)), NEW n \in 1 .. Len(list)
  PROVE  /\ list[n].startTime \in Nat /\ list[n].endTime \in Nat
         /\ list[n].validationIDs \in Seq(S)
<1>1. list[n] \in EpochType(S)
  <2> DEFINE T == EpochType(S)
  <2> HIDE DEF T
  <2>1. list \in Seq(T)
    BY DEF T
  <2>2. list[n] \in T
    BY <2>1
  <2> QED BY <2>2 DEF T
<1> QED BY <1>1 DEF EpochType

\* The current epoch is the last of the epochs, or a new one after them without validations.
LEMMA EpochsNowShape ==
  ASSUME Inv
  PROVE  LET list == EpochsNow
         IN /\ list \in Seq(EpochType(DOMAIN validationIdEpoch)) /\ Len(list) >= 1
            /\ Len(epochs) <= Len(list) /\ Len(list) <= Len(epochs) + 1
            /\ \A n \in 1 .. Len(epochs) : list[n] = epochs[n]
            /\ Len(list) = Len(epochs) + 1 =>
                 /\ list[Len(list)].validationIDs = <<>>
                 /\ list[Len(list)].startTime = now
                 /\ Len(epochs) >= 1 => epochs[Len(epochs)].endTime <= now
<1> DEFINE ids == DOMAIN validationIdEpoch
           new == [startTime |-> now, endTime |-> now + EpochDuration, validationIDs |-> <<>>]
<1>1. now \in Nat /\ epochs \in Seq(EpochType(ids)) /\ new \in EpochType(ids)
  BY EpochAssumption DEF Inv, TypeOK, ManagerTypeOK, EpochType
<1>2. \A n \in 1 .. Len(epochs) : epochs[n].endTime \in Nat
  BY <1>1, EpochFields
<1>3. new.validationIDs = <<>> /\ new.startTime = now
  OBVIOUS
<1> HIDE DEF new, ids
<1>4. CASE epochs # <<>> /\ now < Last(epochs).endTime
  <2>1. EpochsNow = epochs
    BY <1>4 DEF EpochsNow
  <2> QED BY <1>1, <1>4, <2>1 DEF ids
<1>5. CASE ~(epochs # <<>> /\ now < Last(epochs).endTime)
  <2>1. EpochsNow = Append(epochs, new)
    BY <1>5 DEF EpochsNow, new
  <2>2. Len(epochs) >= 1 => epochs[Len(epochs)].endTime <= now
    BY <1>1, <1>2, <1>5 DEF Last
  <2>3. /\ Append(epochs, new) \in Seq(EpochType(ids))
        /\ Len(Append(epochs, new)) = Len(epochs) + 1
        /\ Append(epochs, new)[Len(epochs) + 1] = new
        /\ \A n \in 1 .. Len(epochs) : Append(epochs, new)[n] = epochs[n]
    BY <1>1
  <2> QED BY <1>1, <1>3, <2>1, <2>2, <2>3 DEF ids
<1> QED BY <1>4, <1>5

\* A place for the validation id of an owner on the list of the current epoch, where room is what is
\* left of those that were there.
TakesPlace(owner, id, room) ==
  LET list == EpochsNow
      n == Len(list)
  IN /\ room \in Seq(DOMAIN validationIdEpoch)
     /\ RoomOn(list[n].validationIDs, room)
     /\ DOMAIN epochs' = 1 .. n /\ Len(epochs') = n
     /\ \A k \in 1 .. n - 1 : epochs'[k] = epochs[k]
     /\ epochs'[n] = [list[n] EXCEPT !.validationIDs = Append(room, id)]
     /\ lastValidationId' = Set(lastValidationId, owner, id)
     /\ validationIdEpoch' = Set(validationIdEpoch, id, n)
     /\ FreeToRegister(owner, list)

\* What becomes of the records of owners and of registrations.
TakesRecord(owner, id) ==
  /\ \A other \in DOMAIN posValidatorInfo' :
       other # id => /\ other \in DOMAIN posValidatorInfo
                     /\ posValidatorInfo'[other].owner = posValidatorInfo[other].owner
  /\ id \in DOMAIN posValidatorInfo' => posValidatorInfo'[id].owner = owner
  /\ \A other \in DOMAIN validationIdEpoch :
       other # id => (RegisteredOnce(other)' <=> RegisteredOnce(other))
  /\ RegisteredOnce(id)' => id \notin DOMAIN validationIdEpoch

\* A registration writes the records of its ID, which may have been used before, and leaves those of
\* the others.
LEMMA RegistrationRecords ==
  ASSUME Inv, NEW owner \in Accounts \cup {ZeroAddress}, NEW node, NEW expiry,
         NEW minStakeDuration, NEW stake,
         InitializePoSRegistration(owner, node, expiry, minStakeDuration, stake)
  PROVE  TakesRecord(owner, ValidationID(node, ValueToWeight(stake), expiry))
<1> DEFINE id == ValidationID(node, ValueToWeight(stake), expiry)
           info == [owner |-> owner, minStakeDuration |-> minStakeDuration, uptimeSeconds |-> 0]
<1>1. /\ InitializeRegistration(id) /\ info.owner = owner
      /\ posValidatorInfo' = SetFor(owner, posValidatorInfo, id, info)
  BY DEF InitializePoSRegistration
<1> HIDE DEF id, info
<1>2. ManagerTypeOK /\ DOMAIN validationIdEpoch \subseteq DOMAIN validationPeriods
  BY DEF Inv, TypeOK
<1>3. /\ \A other \in DOMAIN validationPeriods \ {id} : history'[other] = history[other]
      /\ id \in DOMAIN validationPeriods => ~RegisteredOnce(id)'
  BY <1>1, <1>2, RegistrationIsCounted
<1>4. WrittenFor(owner, posValidatorInfo, id, info, posValidatorInfo')
  BY <1>1, SetForFrame
<1>5. \A other \in DOMAIN validationIdEpoch :
        other # id => (RegisteredOnce(other)' <=> RegisteredOnce(other))
  BY <1>2, <1>3 DEF RegisteredOnce
<1> QED BY <1>1, <1>2, <1>3, <1>4, <1>5 DEF TakesRecord, WrittenFor, id

\* A registration adds a validation to the list of the current epoch, after making room on it, and
\* leaves the other lists as they are.
LEMMA RegistrationShape ==
  ASSUME Inv, EpochListsSound,
         NEW registrar \in Registrars, NEW owner \in Accounts \cup {ZeroAddress},
         NEW node \in NodeIDs, NEW expiry \in Nat, NEW minStakeDuration \in MinStakeDurations,
         NEW stake \in StakeAmounts,
         RegisterValidation(registrar, owner, node, expiry, minStakeDuration, stake)
  PROVE  \E id, room : TakesPlace(owner, id, room) /\ TakesRecord(owner, id)
<1> DEFINE id == ValidationID(node, ValueToWeight(stake), expiry)
           list == EpochsNow
           n == Len(list)
           ids == list[n].validationIDs
           known == DOMAIN validationIdEpoch
<1>1. /\ lastValidationId' = Set(lastValidationId, owner, id)
      /\ validationIdEpoch' = Set(validationIdEpoch, id, n)
      /\ FreeToRegister(owner, list)
      /\ InitializePoSRegistration(owner, node, expiry, minStakeDuration, stake)
  BY DEF RegisterValidation
<1>2. PICK room \in MakeRoom(Last(list).validationIDs) :
        epochs' = [list EXCEPT ![n].validationIDs = Append(room, id)]
  BY DEF RegisterValidation
<1>3. TakesRecord(owner, id)
  BY <1>1, RegistrationRecords
<1> HIDE DEF id
<1>5. /\ list \in Seq(EpochType(known)) /\ n \in Nat /\ n >= 1
      /\ Len(epochs) <= n /\ n <= Len(epochs) + 1
      /\ \A k \in 1 .. Len(epochs) : list[k] = epochs[k]
      /\ n = Len(epochs) + 1 => ids = <<>>
  BY EpochsNowShape
<1>6. epochs \in Seq(EpochType(known))
  BY DEF Inv, TypeOK, EpochType
<1> HIDE DEF list
<1>7. DOMAIN list = 1 .. n /\ Last(list) = list[n] /\ ids \in Seq(known)
  <2> HIDE DEF n
  <2>1. n = Len(list)
    BY DEF n
  <2>2. list[n].validationIDs \in Seq(known)
    BY <1>5, <2>1, EpochFields
  <2> QED BY <1>5, <2>1, <2>2 DEF Last
<1>8. Len(ids) <= MaxEpochValidators
  <2>1. CASE n = Len(epochs) + 1
    BY <1>5, <2>1, EpochAssumption
  <2>2. CASE n = Len(epochs)
    BY <1>5, <1>6, <2>2 DEF EpochListsSound
  <2> QED BY <1>5, <1>6, <2>1, <2>2
<1>9. room \in Seq(known) /\ RoomOn(ids, room)
  <2> HIDE DEF ids, known
  <2>1. room \in MakeRoom(ids)
    BY <1>2, <1>7 DEF ids
  <2> QED BY <1>7, <1>8, <2>1, MakeRoomKeeps
<1>10. /\ DOMAIN epochs' = 1 .. n /\ Len(epochs') = n
       /\ \A k \in 1 .. n - 1 : epochs'[k] = list[k]
       /\ epochs'[n] = [list[n] EXCEPT !.validationIDs = Append(room, id)]
  <2>1. epochs' = [k \in 1 .. n |-> IF k = n THEN [list[n] EXCEPT !.validationIDs = Append(room, id)]
                                             ELSE list[k]]
    BY <1>2, <1>7, <1>5
  <2> HIDE DEF n
  <2> QED BY <1>5, <2>1
<1>11. \A k \in 1 .. n - 1 : k \in 1 .. Len(epochs)
  BY <1>5, <1>6
<1>12. TakesPlace(owner, id, room)
  <2>1. \A k \in 1 .. n - 1 : epochs'[k] = epochs[k]
    BY <1>5, <1>10, <1>11
  <2> HIDE DEF id
  <2> QED BY <1>1, <1>9, <1>10, <2>1 DEF TakesPlace, list
<1> QED BY <1>3, <1>12

----------------------------------------------------------------------------
(* The invariant of the epochs *)

\* A registration keeps the epochs in order, and the places of each owner apart (checkRegistration).
LEMMA RegistrationKeepsEpochs ==
  ASSUME Inv, Inv', EpochInv,
         NEW registrar \in Registrars, NEW owner \in Accounts \cup {ZeroAddress},
         NEW node \in NodeIDs, NEW expiry \in Nat,
         NEW minStakeDuration \in MinStakeDurations, NEW stake \in StakeAmounts,
         RegisterValidation(registrar, owner, node, expiry, minStakeDuration, stake)
  PROVE  EpochInv'
<1> DEFINE list == EpochsNow
           n == Len(list)
           ids == list[n].validationIDs
           known == DOMAIN validationIdEpoch
           m == Len(epochs)
           Places(k) == ValidationsOfEpoch(epochs, k)
           After(k) == ValidationsOfEpoch(epochs', k)
<1>0. PICK id, room : TakesPlace(owner, id, room) /\ TakesRecord(owner, id)
  BY RegistrationShape DEF EpochInv
<1>1. /\ room \in Seq(known) /\ RoomOn(ids, room)
      /\ DOMAIN epochs' = 1 .. n /\ Len(epochs') = n
      /\ \A k \in 1 .. n - 1 : epochs'[k] = epochs[k]
      /\ epochs'[n] = [list[n] EXCEPT !.validationIDs = Append(room, id)]
      /\ lastValidationId' = Set(lastValidationId, owner, id)
      /\ validationIdEpoch' = Set(validationIdEpoch, id, n)
      /\ FreeToRegister(owner, list)
  BY <1>0 DEF TakesPlace
<1>2. /\ list \in Seq(EpochType(known)) /\ n \in Nat /\ n >= 1 /\ m <= n /\ n <= m + 1
      /\ \A k \in 1 .. m : list[k] = epochs[k]
      /\ n = m + 1 => /\ ids = <<>> /\ list[n].startTime = now
                      /\ m >= 1 => epochs[m].endTime <= now
  BY EpochsNowShape
<1>3. epochs \in Seq(EpochType(known)) /\ m \in Nat /\ DOMAIN epochs = 1 .. m
  BY DEF Inv, TypeOK, EpochType
<1> HIDE DEF list
<1>4. DOMAIN list = 1 .. n /\ list[n] \in EpochType(known)
  <2> DEFINE T == EpochType(known)
  <2> HIDE DEF T
  <2>1. list \in Seq(T) /\ n \in 1 .. n
    BY <1>2 DEF T
  <2> QED BY <2>1 DEF T
<1>16. n = Len(list) /\ m = Len(epochs)
  OBVIOUS
<1> HIDE DEF n, m
<1>5. \A k \in 1 .. m : Places(k) = Range(epochs[k].validationIDs) /\ Places(k) \subseteq known
  <2>1. \A k \in 1 .. m : epochs[k].validationIDs \in Seq(known)
    BY <1>3, <1>16, EpochFields
  <2> QED BY <1>3, <2>1 DEF ValidationsOfEpoch, Range
<1>6. \A k : k \notin 1 .. m => Places(k) = {}
  BY <1>3 DEF ValidationsOfEpoch
<1>7. Range(ids) = Places(n)
  <2>1. CASE n = m + 1
    BY <1>2, <1>3, <1>6, <2>1 DEF Range
  <2>2. CASE n = m
    BY <1>2, <1>3, <1>5, <2>2
  <2> QED BY <1>2, <1>3, <2>1, <2>2
<1>8. ValidationsOfEpoch(list, n) = Places(n) /\ ValidationsOfEpoch(list, n - 1) = Places(n - 1)
  <2>1. ValidationsOfEpoch(list, n) = Range(ids)
    BY <1>2, <1>4 DEF ValidationsOfEpoch
  <2>2. CASE n = 1
    BY <1>4, <1>6, <2>2, <2>1, <1>7 DEF ValidationsOfEpoch
  <2>3. CASE n # 1
    <3>1. n - 1 \in 1 .. m /\ n - 1 \in 1 .. n
      BY <1>2, <1>3, <2>3
    <3> QED BY <1>2, <1>4, <1>5, <1>7, <2>1, <3>1 DEF ValidationsOfEpoch
  <2> QED BY <2>2, <2>3
<1>9. epochs'[n].validationIDs = Append(room, id) /\ epochs'[n].startTime = list[n].startTime
  BY <1>1, <1>4 DEF EpochType
<1>10. /\ \A k \in 1 .. n - 1 : After(k) = Places(k)
       /\ After(n) \subseteq Places(n) \cup {id}
       /\ \A k : k \notin 1 .. n => After(k) = {}
  <2>1. \A k \in 1 .. n - 1 : k \in 1 .. m /\ k \in 1 .. n
    BY <1>2, <1>3
  <2>2. Range(Append(room, id)) = Range(room) \cup {id}
    BY <1>1, RangeOfAppend
  <2>3. \A k \in 1 .. n - 1 : After(k) = Places(k)
    BY <1>1, <1>5, <2>1 DEF ValidationsOfEpoch
  <2>4. n \in 1 .. n
    BY <1>2
  <2>5. After(n) = Range(Append(room, id))
    BY <1>1, <1>9, <2>4 DEF ValidationsOfEpoch
  <2>6. Range(room) \subseteq Places(n)
    BY <1>1, <1>7 DEF RoomOn
  <2> QED BY <1>1, <2>2, <2>3, <2>5, <2>6 DEF ValidationsOfEpoch
<1> HIDE DEF Places, After
<1>11. \A k : Places(k) \subseteq known
  BY <1>5, <1>6
<1>12. /\ validationIdEpoch'[id] = n
       /\ \A other \in known : other # id => validationIdEpoch'[other] = validationIdEpoch[other]
  BY <1>1 DEF Set
<1>13. EpochListsSound'
  <2> SUFFICES ASSUME NEW k \in 1 .. n
               PROVE  /\ Len(epochs'[k].validationIDs) <= MaxEpochValidators
                      /\ k > 1 => epochs'[k - 1].endTime <= epochs'[k].startTime
                      /\ \A x \in Range(epochs'[k].validationIDs) :
                           /\ validationIdEpoch'[x] >= k
                           /\ RegisteredOnce(x)' =>
                                validationIdEpoch'[x] = k /\ Once(epochs'[k].validationIDs, x)
    BY <1>1 DEF EpochListsSound, Once, RegisteredOnce, Range
  <2>1. ASSUME NEW l \in 1 .. m
        PROVE  /\ Len(epochs[l].validationIDs) <= MaxEpochValidators
               /\ l > 1 => epochs[l - 1].endTime <= epochs[l].startTime
               /\ \A x \in Range(epochs[l].validationIDs) :
                    /\ validationIdEpoch[x] >= l
                    /\ RegisteredOnce(x) =>
                         validationIdEpoch[x] = l /\ Once(epochs[l].validationIDs, x)
    BY <1>3, <2>1 DEF EpochInv, EpochListsSound, Once, Range
  <2>2. \A l \in 1 .. m : Range(epochs[l].validationIDs) \subseteq known
    BY <1>5
  <2>3. CASE k < n
    <3>1. /\ k \in 1 .. m /\ k \in 1 .. n - 1 /\ epochs'[k] = epochs[k]
          /\ k > 1 => k - 1 \in 1 .. n - 1 /\ epochs'[k - 1] = epochs[k - 1]
      BY <1>1, <1>2, <1>3, <2>3
    <3>2. ASSUME NEW x \in Range(epochs[k].validationIDs)
          PROVE  /\ validationIdEpoch'[x] >= k
                 /\ RegisteredOnce(x)' =>
                      validationIdEpoch'[x] = k /\ Once(epochs[k].validationIDs, x)
      <4>1. x \in known
        BY <2>2, <3>1, <3>2
      <4>2. CASE x = id
        <5>1. validationIdEpoch'[x] >= k /\ ~RegisteredOnce(x)'
          BY <1>0, <1>2, <1>12, <2>3, <4>1, <4>2 DEF TakesRecord
        <5> QED BY <5>1
      <4>3. CASE x # id
        <5>1. RegisteredOnce(x)' <=> RegisteredOnce(x)
          BY <1>0, <4>1, <4>3 DEF TakesRecord
        <5> QED BY <1>12, <2>1, <3>1, <3>2, <4>1, <4>3, <5>1
      <4> QED BY <4>2, <4>3
    <3> QED BY <2>1, <3>1, <3>2
  <2>4. CASE k = n
    <3>1. Len(Append(room, id)) <= MaxEpochValidators
      BY <1>1, EpochAssumption DEF RoomOn
    <3>2. ASSUME NEW x \in Range(Append(room, id))
          PROVE  /\ validationIdEpoch'[x] >= n
                 /\ RegisteredOnce(x)' => validationIdEpoch'[x] = n /\ Once(Append(room, id), x)
      <4>1. CASE x = id
        <5>1. ASSUME RegisteredOnce(id)'
              PROVE  Once(Append(room, id), id)
          <6>1. \A j \in 1 .. Len(room) : room[j] # id
            BY <1>0, <1>1, <5>1 DEF TakesRecord
          <6> SUFFICES ASSUME NEW j \in 1 .. Len(room) + 1, Append(room, id)[j] = id
                       PROVE  j = Len(room) + 1
            BY <1>1 DEF Once
          <6> QED BY <1>1, <6>1
        <5>2. validationIdEpoch'[id] >= n
          BY <1>2, <1>12
        <5> QED BY <1>12, <4>1, <5>1, <5>2
      <4>2. CASE x # id
        <5>1. x \in Range(room)
          BY <1>1, <3>2, <4>2, RangeOfAppend
        <5>2. x \in Places(n) /\ x \in known
          BY <1>1, <1>7, <1>11, <5>1 DEF RoomOn
        <5>3. n \in 1 .. m /\ x \in Range(epochs[n].validationIDs) /\ ids = epochs[n].validationIDs
          BY <1>2, <1>5, <1>6, <5>2
        <5>4. RegisteredOnce(x)' <=> RegisteredOnce(x)
          BY <1>0, <4>2, <5>2 DEF TakesRecord
        <5>5. /\ validationIdEpoch'[x] >= n
              /\ RegisteredOnce(x)' => validationIdEpoch'[x] = n /\ Once(ids, x)
          BY <1>12, <2>1, <4>2, <5>2, <5>3, <5>4
        <5>6. Once(ids, x) => Once(room, x)
          BY <1>1 DEF RoomOn
        <5>7. ASSUME Once(room, x)
              PROVE  Once(Append(room, id), x)
          <6> SUFFICES ASSUME NEW j \in 1 .. Len(room) + 1, NEW l \in 1 .. Len(room) + 1,
                              Append(room, id)[j] = x, Append(room, id)[l] = x
                       PROVE  j = l
            BY <1>1 DEF Once
          <6>1. j \in 1 .. Len(room) /\ l \in 1 .. Len(room) /\ room[j] = x /\ room[l] = x
            BY <1>1, <4>2
          <6>2. DOMAIN room = 1 .. Len(room)
            BY <1>1
          <6> QED BY <5>7, <6>1, <6>2 DEF Once
        <5> QED BY <5>5, <5>6, <5>7
      <4> QED BY <4>1, <4>2
    <3>3. n > 1 => epochs'[n - 1].endTime <= epochs'[n].startTime
      <4> SUFFICES ASSUME n > 1
                   PROVE  epochs'[n - 1].endTime <= epochs'[n].startTime
        OBVIOUS
      <4>1. n - 1 \in 1 .. n - 1 /\ epochs'[n - 1] = epochs[n - 1] /\ n \in 1 .. n
        BY <1>1, <1>2
      <4>2. CASE n = m
        BY <1>2, <1>3, <1>9, <2>1, <4>1, <4>2
      <4>3. CASE n = m + 1
        BY <1>2, <1>3, <1>9, <4>1, <4>3
      <4> QED BY <1>2, <1>3, <4>2, <4>3
    <3> QED BY <1>9, <2>4, <3>1, <3>2, <3>3
  <2> QED BY <1>2, <2>3, <2>4
<1> DEFINE Owned(k) == OwnedPlaces(k)
           OwnedAfter(k) == OwnedPlaces(k)'
<1>14. \A k : Owned(k) \subseteq Places(k) /\ Owned(k) \subseteq DOMAIN posValidatorInfo
  BY DEF OwnedPlaces, Places, IsPoSValidator
<1>15. ASSUME NEW k, NEW x \in OwnedAfter(k)
       PROVE  /\ x = id => k = n /\ posValidatorInfo'[x].owner = owner
              /\ x # id => /\ x \in Owned(k)
                           /\ posValidatorInfo'[x].owner = posValidatorInfo[x].owner
  <2>1. x \in After(k) /\ x \in DOMAIN posValidatorInfo' /\ validationIdEpoch'[x] = k
    BY DEF OwnedPlaces, After, IsPoSValidator
  <2>2. CASE x = id
    BY <1>0, <1>12, <2>1, <2>2 DEF TakesRecord
  <2>3. CASE x # id
    <3>1. x \in DOMAIN posValidatorInfo /\ posValidatorInfo'[x].owner = posValidatorInfo[x].owner
      BY <1>0, <2>1, <2>3 DEF TakesRecord
    <3>2. k \in 1 .. n - 1 \/ k = n
      BY <1>2, <1>10, <2>1
    <3>3. x \in Places(k) /\ x \in known
      BY <1>10, <1>11, <2>1, <2>3, <3>2
    <3>4. validationIdEpoch[x] = k
      BY <1>12, <2>1, <2>3, <3>3
    <3> QED BY <2>3, <3>1, <3>3, <3>4 DEF OwnedPlaces, Places, IsPoSValidator
  <2> QED BY <2>2, <2>3
<1>17. \A k : k \notin 1 .. m => Owned(k) = {}
  BY <1>6, <1>14
<1>18. ASSUME NEW k \in 1 .. m, NEW x \in Owned(k), posValidatorInfo[x].owner = owner, k >= n - 1
       PROVE  FALSE
  <2>1. owner \in DOMAIN lastValidationId /\ (x = lastValidationId[owner] \/ k + 2 <= m)
    BY <1>3, <1>18 DEF EpochInv, LastPlaces, m
  <2>2. x = lastValidationId[owner] /\ (k = n \/ k = n - 1) /\ IsPoSValidator(x) /\ x \in Places(k)
    BY <1>2, <1>3, <1>14, <1>18, <2>1 DEF IsPoSValidator
  <2>3. x \notin Places(n) /\ x \notin Places(n - 1)
    BY <1>1, <1>8, <2>1, <2>2 DEF FreeToRegister, n
  <2> QED BY <2>2, <2>3
<1> HIDE DEF Owned, OwnedAfter
<1>19. OnePlacePerOwner'
  <2> SUFFICES ASSUME NEW k \in 1 .. n,
                      NEW id1 \in OwnedAfter(k) \cup OwnedAfter(k - 1),
                      NEW id2 \in OwnedAfter(k) \cup OwnedAfter(k - 1),
                      posValidatorInfo'[id1].owner = posValidatorInfo'[id2].owner
               PROVE  id1 = id2
    BY <1>1 DEF OnePlacePerOwner, OwnedAfter
  <2>1. \A x \in OwnedAfter(k) \cup OwnedAfter(k - 1) :
          /\ x = id => k = n /\ posValidatorInfo'[x].owner = owner
          /\ x # id => /\ x \in Owned(k) \cup Owned(k - 1)
                       /\ posValidatorInfo'[x].owner = posValidatorInfo[x].owner
    BY <1>2, <1>15
  <2>2. CASE id1 # id /\ id2 # id
    <3>1. /\ id1 \in Owned(k) \cup Owned(k - 1) /\ id2 \in Owned(k) \cup Owned(k - 1)
          /\ posValidatorInfo[id1].owner = posValidatorInfo[id2].owner
      BY <2>1, <2>2
    <3>2. CASE k \in 1 .. m
      BY <1>3, <3>1, <3>2 DEF EpochInv, OnePlacePerOwner, Owned
    <3>3. CASE k \notin 1 .. m
      <4>1. Owned(k) = {} /\ k - 1 \in 1 .. m
        BY <1>17, <3>1, <3>3
      <4> QED BY <1>3, <3>1, <4>1 DEF EpochInv, OnePlacePerOwner, Owned
    <3> QED BY <3>2, <3>3
  <2>3. ASSUME NEW x \in Owned(k) \cup Owned(k - 1), k = n
        PROVE  posValidatorInfo[x].owner # owner
    <3>1. PICK l \in {k, k - 1} : x \in Owned(l) /\ l \in 1 .. m
      BY <1>17, <2>3
    <3>2. l >= n - 1
      BY <1>2, <2>3, <3>1
    <3> QED BY <1>18, <3>1, <3>2
  <2> QED BY <2>1, <2>2, <2>3
<1>20. LastPlaces'
  <2> SUFFICES ASSUME NEW k \in 1 .. n, NEW x \in OwnedAfter(k)
               PROVE  /\ posValidatorInfo'[x].owner \in DOMAIN lastValidationId'
                      /\ \/ x = lastValidationId'[posValidatorInfo'[x].owner]
                         \/ k + 2 <= n
    BY <1>1 DEF LastPlaces, OwnedAfter
  <2>0. /\ DOMAIN lastValidationId' = DOMAIN lastValidationId \cup {owner}
        /\ lastValidationId'[owner] = id
        /\ \A o \in DOMAIN lastValidationId : o # owner => lastValidationId'[o] = lastValidationId[o]
    BY <1>1 DEF Set
  <2>1. CASE x = id
    BY <1>15, <2>0, <2>1
  <2>2. CASE x # id
    <3> DEFINE o == posValidatorInfo[x].owner
    <3>1. x \in Owned(k) /\ posValidatorInfo'[x].owner = o
      BY <1>15, <2>2
    <3>2. k \in 1 .. m
      BY <1>17, <3>1
    <3>3. o \in DOMAIN lastValidationId /\ (x = lastValidationId[o] \/ k + 2 <= m)
      BY <1>3, <3>1, <3>2 DEF EpochInv, LastPlaces, Owned, m
    <3>4. o = owner => k + 2 <= n
      BY <1>2, <1>18, <3>1, <3>2
    <3>5. k + 2 <= m => k + 2 <= n
      BY <1>2, <1>3
    <3> HIDE DEF o
    <3> QED BY <2>0, <3>1, <3>3, <3>4, <3>5
  <2> QED BY <2>1, <2>2
<1> QED BY <1>13, <1>19, <1>20 DEF EpochInv

\* A step that is no registration keeps the invariant (all other functions).
LEMMA EpochFrameKeeps ==
  ASSUME Inv, [Next]_vars, ~Registers, EpochInv
  PROVE  EpochInv'
<1>1. /\ epochs' = epochs /\ lastValidationId' = lastValidationId
      /\ validationIdEpoch' = validationIdEpoch
      /\ DOMAIN posValidatorInfo' = DOMAIN posValidatorInfo
      /\ \A id \in DOMAIN posValidatorInfo :
           posValidatorInfo'[id].owner = posValidatorInfo[id].owner
  BY EpochFrame DEF epochVars, Inv
<1>2. epochs \in Seq(EpochType(DOMAIN validationIdEpoch))
  BY DEF Inv, TypeOK, EpochType
<1>3. \A n \in DOMAIN epochs : \A x \in Range(epochs[n].validationIDs) :
        RegisteredOnce(x)' <=> RegisteredOnce(x)
  <2> SUFFICES ASSUME NEW n \in 1 .. Len(epochs), NEW x \in Range(epochs[n].validationIDs)
               PROVE  RegisteredOnce(x)' <=> RegisteredOnce(x)
    BY <1>2
  <2>1. epochs[n].validationIDs \in Seq(DOMAIN validationIdEpoch)
    BY <1>2, EpochFields
  <2>2. x \in DOMAIN validationPeriods
    BY <2>1 DEF Inv, TypeOK, Range
  <2> QED BY <2>2, RecordsStay, InvSteps
<1>4. EpochListsSound'
  BY <1>1, <1>3 DEF EpochInv, EpochListsSound, RegisteredOnce, Range
<1>5. \A n : OwnedPlaces(n)' = OwnedPlaces(n) /\ OwnedPlaces(n) \subseteq DOMAIN posValidatorInfo
  BY <1>1 DEF OwnedPlaces, IsPoSValidator, ValidationsOfEpoch
<1>6. OnePlacePerOwner'
  BY <1>1, <1>5 DEF EpochInv, OnePlacePerOwner
<1>7. LastPlaces'
  BY <1>1, <1>5 DEF EpochInv, LastPlaces
<1> QED BY <1>4, <1>6, <1>7 DEF EpochInv

\* The epochs stay sound, whatever the order of registrations and ends.
THEOREM EpochInvariance == Spec => []EpochInv
<1>1. Init => EpochInv
  BY DEF Init, EpochInv, EpochListsSound, OnePlacePerOwner, LastPlaces
<1>2. Inv /\ Inv' /\ [Next]_vars /\ EpochInv => EpochInv'
  <2> SUFFICES ASSUME Inv, Inv', [Next]_vars, EpochInv
               PROVE  EpochInv'
    OBVIOUS
  <2>1. CASE Registers
    BY <2>1, RegistrationArguments, RegistrationKeepsEpochs DEF Inv
  <2>2. CASE ~Registers
    BY <2>2, EpochFrameKeeps
  <2> QED BY <2>1, <2>2
<1> QED BY <1>1, <1>2, Invariance, PTL DEF Spec

\* A list never has more validations than places, none twice and each under its own epoch unless its ID
\* was used again, and the epochs do not overlap (getCurrentEpoch, _checkActiveValidationIDs).
THEOREM ListsSound == Spec => []EpochListsSound
<1>1. EpochInv => EpochListsSound
  BY DEF EpochInv
<1> QED BY <1>1, EpochInvariance, PTL

\* An owner has at most one place in an epoch and the one before it together, also when places are
\* lost and taken again and when IDs pass from one owner to another (_checkRegistrationEpoch).
THEOREM OnePlace == Spec => []OnePlacePerOwner
<1>1. EpochInv => OnePlacePerOwner
  BY DEF EpochInv
<1> QED BY <1>1, EpochInvariance, PTL

\* What a step takes off a list (_findInactiveValidationID).
LEMMA PlacesLost ==
  ASSUME Inv, EpochInv, [Next]_vars, NEW k \in DOMAIN epochs,
         ValidationsOfEpoch(epochs, k) \ ValidationsOfEpoch(epochs', k) # {}
  PROVE  LET lost == ValidationsOfEpoch(epochs, k) \ ValidationsOfEpoch(epochs', k)
         IN /\ k = Len(epochs')
            /\ Cardinality(lost) = 1
            /\ \A id \in lost : IsInactive(id)
<1> DEFINE lost == ValidationsOfEpoch(epochs, k) \ ValidationsOfEpoch(epochs', k)
<1>1. CASE ~Registers
  <2>1. epochs' = epochs
    BY <1>1, EpochFrame DEF epochVars, Inv
  <2> QED BY <2>1
<1>2. CASE Registers
  <2> DEFINE list == EpochsNow
             n == Len(list)
             ids == list[n].validationIDs
             known == DOMAIN validationIdEpoch
  <2>0. PICK owner, id, room : TakesPlace(owner, id, room)
    BY <1>2, RegistrationArguments, RegistrationShape DEF EpochInv, Inv
  <2>1. /\ room \in Seq(known) /\ RoomOn(ids, room)
        /\ DOMAIN epochs' = 1 .. n /\ Len(epochs') = n
        /\ \A l \in 1 .. n - 1 : epochs'[l] = epochs[l]
        /\ epochs'[n] = [list[n] EXCEPT !.validationIDs = Append(room, id)]
    BY <2>0 DEF TakesPlace
  <2>2. /\ list \in Seq(EpochType(known)) /\ n >= 1
        /\ Len(epochs) <= n /\ \A l \in 1 .. Len(epochs) : list[l] = epochs[l]
    BY EpochsNowShape
  <2>3. epochs \in Seq(EpochType(known))
    BY DEF Inv, TypeOK, EpochType
  <2> HIDE DEF list
  <2>4. n \in Nat /\ n = Len(list) /\ k \in 1 .. Len(epochs) /\ k \in 1 .. n
    BY <2>2, <2>3
  <2>5. ValidationsOfEpoch(epochs, k) = Range(epochs[k].validationIDs)
    BY DEF ValidationsOfEpoch
  <2>6. ValidationsOfEpoch(epochs', k) = Range(epochs'[k].validationIDs)
    BY <2>1, <2>4 DEF ValidationsOfEpoch
  <2> HIDE DEF n
  <2>7. k = n
    BY <2>1, <2>4, <2>5, <2>6
  <2>8. ids \in Seq(known) /\ list[n] \in EpochType(known)
    <3> DEFINE T == EpochType(known)
    <3> HIDE DEF T
    <3>1. list \in Seq(T) /\ n \in 1 .. Len(list)
      BY <2>2, <2>4, <2>7 DEF T
    <3>2. list[n] \in T
      BY <3>1
    <3>3. list[n].validationIDs \in Seq(known)
      BY <2>2, <3>1, EpochFields
    <3> QED BY <3>2, <3>3 DEF T
  <2>9. epochs'[n].validationIDs = Append(room, id)
    BY <2>1, <2>8 DEF EpochType
  <2> HIDE DEF known
  <2>10. Range(Append(room, id)) = Range(room) \cup {id}
    BY <2>1, RangeOfAppend
  <2>11. epochs[k].validationIDs = ids
    BY <2>2, <2>4, <2>7
  <2> HIDE DEF ids
  <2>12. lost \subseteq Range(ids) \ Range(room) /\ lost # {}
    BY <2>5, <2>6, <2>7, <2>9, <2>10, <2>11
  <2>13. PICK i \in DOMAIN ids : IsInactive(ids[i]) /\ Range(ids) \ Range(room) \subseteq {ids[i]}
    BY <2>1, <2>12 DEF RoomOn
  <2>14. lost = {ids[i]}
    <3> HIDE DEF lost
    <3> QED BY <2>12, <2>13
  <2> HIDE DEF lost
  <2>15. Cardinality(lost) = 1
    BY <2>14, FS_Singleton
  <2>16. k = Len(epochs') /\ \A x \in lost : IsInactive(x)
    BY <2>1, <2>7, <2>13, <2>14
  <2> QED BY <2>15, <2>16 DEF lost
<1> QED BY <1>1, <1>2

\* A place is lost only to a registration in the same epoch, one place at a time, and only by an
\* inactive validation (_findInactiveValidationID).
THEOREM PlacesKept == Spec => PlacesLostOnlyByInactive
<1>1. Inv /\ EpochInv /\ [Next]_vars =>
        [\A n \in DOMAIN epochs :
           LET lost == ValidationsOfEpoch(epochs, n) \ ValidationsOfEpoch(epochs', n)
           IN lost # {} => /\ n = Len(epochs')
                           /\ Cardinality(lost) = 1
                           /\ \A id \in lost : IsInactive(id)]_vars
  BY PlacesLost
<1> QED BY <1>1, Invariance, EpochInvariance, PTL DEF Spec, PlacesLostOnlyByInactive


----------------------------------------------------------------------------
(* The rewards *)

\* What validations earned is within the bounds, and only those earned that kept their place.
EarningsInv == RewardsEarned /\ OnlyPlacesEarn

\* A validation that has earned something keeps its place: it is not inactive any more.
LEMMA EarnersKeepTheirPlace ==
  ASSUME Inv, EpochInv, EarningsInv, [Next]_vars,
         NEW id \in DOMAIN posValidatorInfo, EarnedBy(id) > 0,
         validationIdEpoch'[id] = validationIdEpoch[id]
  PROVE  id \in ValidationsOfEpoch(epochs', validationIdEpoch'[id])
<1> DEFINE n == validationIdEpoch[id]
<1>1. id \in DOMAIN validationPeriods /\ id \in DOMAIN validationIdEpoch /\ n \in DOMAIN epochs
  BY DEF Inv, TypeOK, PosTypeOK
<1>2. id \in ValidationsOfEpoch(epochs, n)
  BY <1>1 DEF EarningsInv, OnlyPlacesEarn
<1>3. validationPeriods[id].status \in Ended
  BY <1>1, InvSteps, UnendedEarnedNothing DEF EarningsInv
<1>4. ~IsInactive(id)
  BY <1>1, <1>3 DEF IsInactive, Status, Ended
<1> HIDE DEF n
<1>5. id \notin ValidationsOfEpoch(epochs, n) \ ValidationsOfEpoch(epochs', n)
  BY <1>1, <1>4, PlacesLost
<1> QED BY <1>2, <1>5 DEF n

\* The epoch of a validation stays while it has earned something: it is written when the ID is
\* registered again, and what was earned before is forgotten.
LEMMA EpochOfEarnerStays ==
  ASSUME Inv, [Next]_vars, NEW id \in DOMAIN validationIdEpoch, EarnedBy(id)' > 0
  PROVE  validationIdEpoch'[id] = validationIdEpoch[id]
<1>1. CASE ~Registers
  BY <1>1, EpochFrame DEF Inv, epochVars
<1>2. CASE Registers
  <2>1. PICK registrar \in Registrars, owner \in Accounts \cup {ZeroAddress}, node \in NodeIDs,
             expiry \in Nat, minStakeDuration \in MinStakeDurations, stake \in StakeAmounts :
          RegisterValidation(registrar, owner, node, expiry, minStakeDuration, stake)
    BY <1>2, RegistrationArguments DEF Inv
  <2> DEFINE new == ValidationID(node, ValueToWeight(stake), expiry)
  <2>2. /\ InitializePoSRegistration(owner, node, expiry, minStakeDuration, stake)
        /\ validationIdEpoch' = Set(validationIdEpoch, new, Len(EpochsNow))
    BY <2>1 DEF RegisterValidation
  <2>3. EarnedBy(new)' = 0
    BY <2>2, InvSteps, RegistrationForgets
  <2> HIDE DEF new
  <2>4. id # new
    BY <2>3
  <2> QED BY <2>2, <2>4 DEF Set
<1> QED BY <1>1, <1>2

\* A place that something was earned for is not lost while nothing is earned.
LEMMA EarnersStay ==
  ASSUME Inv, Inv', EpochInv, EarningsInv, [Next]_vars, NothingEarns
  PROVE  OnlyPlacesEarn'
<1> SUFFICES ASSUME NEW id \in DOMAIN validationIdEpoch', EarnedBy(id)' > 0
             PROVE  id \in ValidationsOfEpoch(epochs', validationIdEpoch'[id])
  BY DEF OnlyPlacesEarn
<1>1. EarnedBy(id) > 0
  BY DEF NothingEarns
<1>2. id \in DOMAIN posValidatorInfo
  BY <1>1, NothingEarned DEF Inv, StakingInv
<1>3. id \in DOMAIN validationIdEpoch
  BY <1>2 DEF Inv, TypeOK
<1> QED BY <1>1, <1>2, <1>3, EarnersKeepTheirPlace, EpochOfEarnerStays

\* What validations earn stays within its bounds, after every function of the contract.
THEOREM EarningsInvariance == Spec => []EarningsInv
<1>1. Init => EarningsInv
  BY DEF Init, ManagerInit, PosInit, Empty, EarningsInv, RewardsEarned, OnlyPlacesEarn
<1>2. Inv /\ Inv' /\ EpochInv /\ [Next]_vars /\ EarningsInv => EarningsInv'
  <2> SUFFICES ASSUME Inv, Inv', EpochInv, [Next]_vars, EarningsInv
               PROVE  EarningsInv'
    OBVIOUS
  <2>1. StakingInv /\ StakingStep /\ EpochTypeOK /\ RewardsEarned
    BY InvSteps DEF EarningsInv
  <2>2. RewardsEarned'
    BY <2>1, StakingStepKeepsEarnings
  <2>3. ASSUME NothingEarns
        PROVE  OnlyPlacesEarn'
    BY <2>3, EarnersStay
  <2>4. ASSUME NEW id \in DOMAIN validationPeriods, Ends(id)
        PROVE  OnlyPlacesEarn'
    <3>1. PICK sender \in Accounts, proof \in UptimeProofs \cup {NoProof}, recipient \in Accounts :
            /\ EndTime \in Nat /\ AccruedAtEnd(id, proof) \in Nat
            /\ EndsOwned(id, sender, proof, recipient, EndTime, AccruedAtEnd(id, proof))
      BY <2>1, <2>4, EndArguments
    <3>2. /\ EarnedBy(id)' = AccruedAtEnd(id, proof)
          /\ \A other : other # id => EarnedBy(other)' = EarnedBy(other)
      BY <2>1, <3>1, EndEarns
    <3>3. UNCHANGED <<epochs, validationIdEpoch>>
      BY <2>4 DEF Ends, EndPoSValidation, epochVars
    <3>4. AccruedAtEnd(id, proof) > 0 => KeepsPlace(id)
      BY DEF AccruedAtEnd
    <3> QED BY <3>2, <3>3, <3>4 DEF OnlyPlacesEarn, EarningsInv, KeepsPlace
  <2>5. ASSUME UNCHANGED <<redeemableValidatorRewards, rewardsMinted>>
        PROVE  OnlyPlacesEarn'
    <3>1. NothingEarns
      BY <2>5 DEF NothingEarns, EarnedBy, AmountAt, MintedFor
    <3> QED BY <2>3, <3>1
  <2>6. ASSUME Registers
        PROVE  OnlyPlacesEarn'
    <3>1. PICK owner \in Accounts \cup {ZeroAddress}, node \in NodeIDs, expiry \in Nat,
               minStakeDuration \in Nat, stake \in StakeAmounts :
            InitializePoSRegistration(owner, node, expiry, minStakeDuration, stake)
      BY <2>1, <2>6, RegistrationArguments, RegistrationStakes
    <3>2. NothingEarns
      BY <2>1, <3>1, RegistrationForgets DEF NothingEarns
    <3> QED BY <2>3, <3>2
  <2>7. ASSUME NEW id \in DOMAIN validationPeriods, Completes(id)
        PROVE  OnlyPlacesEarn'
    <3>1. CompleteEndValidation(id)
      BY <2>7 DEF Completes
    <3>2. NothingEarns
      BY <2>1, <3>1, CompletionEarnsNothing
    <3> QED BY <2>3, <3>2
  <2>8. ASSUME NEW id \in DOMAIN validationPeriods, ClaimDelegationFees(id)
        PROVE  OnlyPlacesEarn'
    <3>1. NothingEarns
      BY <2>1, <2>8, ClaimEarnsNothing
    <3> QED BY <2>3, <3>1
  <2>9. OnlyPlacesEarn'
    BY <2>4, <2>5, <2>6, <2>7, <2>8
       DEF Next, SubmitUptimeProof, ChangeValidatorRewardRecipient, vars, posVars
  <2> QED BY <2>2, <2>9 DEF EarningsInv
<1> QED BY <1>1, <1>2, Invariance, EpochInvariance, PTL DEF Spec

\* A validation earns once, for its time between start and end, for no more than the cap, and only with
\* 80% of that time as its uptime on record (calculateReward, _initializeEndPoSValidation).
THEOREM EarnedOnce == Spec => []RewardsEarned
<1>1. EarningsInv => RewardsEarned
  BY DEF EarningsInv
<1> QED BY <1>1, EarningsInvariance, PTL

\* A validation that lost its place earns nothing, at its end or later.
THEOREM PlacesEarn == Spec => []OnlyPlacesEarn
<1>1. EarningsInv => OnlyPlacesEarn
  BY DEF EarningsInv
<1> QED BY <1>1, EarningsInvariance, PTL

=============================================================================
