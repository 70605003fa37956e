-------------------- MODULE ValidatorManagerUpgradeProofs --------------------
(***************************************************************************)
(* Theorems about the conversion from authority to stake, at any moment    *)
(* and to either staking contract: the storage that the staking contract   *)
(* finds suits it, and what holds of a contract that was always one of     *)
(* stake (ValidatorManagerProofs) holds of the converted one as well.      *)
(***************************************************************************)
EXTENDS ValidatorManagerUpgrade, CoqnetStakingProofs

Implementations ==
  {"PoAValidatorManager", "CoqnetERC20TokenStakingManager", "NativeTokenStakingManager"}

\* The authority leaves the storage of the staking contracts as it is: nothing is staked, earned or
\* admitted to an epoch.
StorageUntouched ==
  /\ PosInit
  /\ epochs = <<>>
  /\ lastValidationId = Empty
  /\ validationIdEpoch = Empty

UpgradeTypeOK ==
  /\ ManagerTypeOK
  /\ PosTypeOK
  /\ implementation \in Implementations
  /\ stakingInitialized \in BOOLEAN

\* There is no staking contract, or one without settings.
TakesNoStakes ==
  \/ implementation = "PoAValidatorManager"
  \/ implementation = "NativeTokenStakingManager" /\ ~stakingInitialized

\* Epochs are those of the Coqnet contract; the other contracts have none.
UpgradeInv ==
  /\ StakingInv
  /\ UpgradeTypeOK
  /\ TakesNoStakes => StorageUntouched
  /\ implementation = "CoqnetERC20TokenStakingManager" => EpochTypeOK

----------------------------------------------------------------------------
(* What the proxy does is what a staking contract does *)

\* Epochs of the right type are what initialize finds (upgradeAndCall).
LEMMA UntouchedEpochs ==
  ASSUME StorageUntouched
  PROVE  EpochTypeOK
BY DEF StorageUntouched, PosInit, EpochTypeOK, Empty

\* Without a stake every validation is one without an owner.
LEMMA UntouchedIsUnowned ==
  ASSUME StorageUntouched, NEW id
  PROVE  ~IsPoSValidator(id)
BY DEF StorageUntouched, PosInit, IsPoSValidator, Empty

\* A transaction of the authority is one that a staking contract can take for its own: about
\* validations without an owner (PoAValidatorManager).
LEMMA AuthorityIsStaking ==
  ASSUME StorageUntouched, UNCHANGED posVars, ManagerStep \/ AuthorityStep, StakingInv
  PROVE  StakingStep
<1>1. CASE ManagerStep
  BY <1>1 DEF StakingStep
<1>2. ASSUME NEW node \in NodeIDs, NEW weight \in AuthorityWeights,
             NEW expiry \in now .. now + MaximumRegistrationExpiryLength,
             AuthorityRegisters(node, weight, expiry)
      PROVE  StakingStep
  <2>1. expiry \in Nat /\ weight \in 1 .. MaxUint64
    BY ClockAssumption, AuthorityAssumption DEF StakingInv, ManagerCore, ManagerTypeOK
  <2>2. RegistersUnowned(ValidationID(node, weight, expiry))
    BY <1>2, UntouchedIsUnowned DEF AuthorityRegisters, RegistersUnowned
  <2> QED BY <2>1, <2>2 DEF StakingStep
<1>3. ASSUME NEW id \in DOMAIN validationPeriods, AuthorityEnds(id)
      PROVE  StakingStep
  <2>1. EndsUnowned(id)
    BY <1>3, UntouchedIsUnowned DEF AuthorityEnds, EndsUnowned
  <2> QED BY <2>1 DEF StakingStep
<1>4. ASSUME NEW id \in DOMAIN validationPeriods, AuthorityCompletesEnd(id)
      PROVE  StakingStep
  <2>1. CompleteEndValidation(id)
    BY <1>4, UntouchedIsUnowned DEF AuthorityCompletesEnd, CompleteEndValidation
  <2> QED BY <2>1 DEF StakingStep
<1> QED BY <1>1, <1>2, <1>3, <1>4 DEF AuthorityStep

\* The end of a staked validation is at the time of the block and adds its reward to what is
\* redeemable (initializeEndValidation and forceInitializeEndValidation without epochs).
LEMMA NativeEndIsOwned ==
  ASSUME StakingInv, NEW id \in DOMAIN validationPeriods, NEW sender \in Accounts,
         NEW proof \in UptimeProofs \cup {NoProof}, NEW recipient \in Recipients \cup {sender},
         NEW force \in BOOLEAN, EndStakedValidation(id, sender, proof, recipient, force)
  PROVE  StakingStep
<1> DEFINE accrued == AmountAt(redeemableValidatorRewards, id) + RewardAtEnd(id, proof, now)
<1>1. now \in Nat /\ recipient \in Accounts
  BY EpochAssumption DEF StakingInv, ManagerCore, ManagerTypeOK
<1>2. /\ IsPoSValidator(id)
      /\ InitializeEndPoSValidation(id, sender, proof, recipient, now, accrued)
  BY DEF EndStakedValidation
<1>3. accrued \in Nat
  BY <1>1, <1>2, EndIsLate
<1>4. EndsOwned(id, sender, proof, recipient, now, accrued)
  BY <1>1, <1>2 DEF EndsOwned
<1> HIDE DEF accrued
<1> QED BY <1>1, <1>3, <1>4 DEF StakingStep

\* What the contract for native tokens does is what a staking contract does.
LEMMA NativeIsStaking ==
  ASSUME StakingInv, NativeStep
  PROVE  StakingStep
<1>1. CASE InitializeStaking
  BY <1>1 DEF InitializeStaking, StakingStep
<1>2. CASE ManagerStep /\ UNCHANGED <<posVars, stakingInitialized>>
  BY <1>2 DEF StakingStep
<1>3. ASSUME NEW sender \in Accounts, NEW node \in NodeIDs,
             NEW minStakeDuration \in MinStakeDurations, NEW stake \in StakeAmounts,
             NEW expiry \in now .. now + MaximumRegistrationExpiryLength,
             StakeValidation(sender, node, expiry, minStakeDuration, stake)
      PROVE  StakingStep
  <2>1. expiry \in Nat /\ minStakeDuration \in Nat
    BY ClockAssumption, EpochAssumption DEF StakingInv, ManagerCore, ManagerTypeOK
  <2>2. InitializePoSRegistration(sender, node, expiry, minStakeDuration, stake)
    BY <1>3 DEF StakeValidation
  <2> QED BY <2>1, <2>2 DEF StakingStep
<1>4. ASSUME NEW id \in DOMAIN validationPeriods, EndUnownedValidation(id)
      PROVE  StakingStep
  <2>1. EndsUnowned(id)
    BY <1>4 DEF EndUnownedValidation, EndsUnowned
  <2> QED BY <2>1 DEF StakingStep
<1>5. ASSUME NEW id \in DOMAIN validationPeriods, CompleteEndAndUnlock(id)
      PROVE  StakingStep
  <2>1. CompleteEndValidation(id)
    BY <1>5 DEF CompleteEndAndUnlock
  <2> QED BY <2>1 DEF StakingStep
<1>6. ASSUME NEW id \in DOMAIN validationPeriods, NEW a \in Recipients,
             ChangeValidatorRewardRecipient(id, a)
      PROVE  StakingStep
  <2>1. a \in Accounts
    BY EpochAssumption
  <2> QED BY <1>6, <2>1 DEF StakingStep
<1>7. ASSUME NEW id \in DOMAIN validationPeriods, NEW proof \in UptimeProofs,
             SubmitUptimeProof(id, proof)
      PROVE  StakingStep
  BY <1>7 DEF StakingStep
<1>8. ASSUME NEW id \in DOMAIN validationPeriods, ClaimDelegationFees(id)
      PROVE  StakingStep
  BY <1>8 DEF StakingStep
<1> QED BY <1>1, <1>2, <1>3, <1>4, <1>5, <1>6, <1>7, <1>8, NativeEndIsOwned DEF NativeStep

\* Under every implementation, and when it is replaced, the steps are those of a staking contract.
LEMMA UpgradeIsStaking ==
  ASSUME UpgradeInv, [UpgradeNext]_upgradeVars
  PROVE  StakingStep
<1>1. CASE ByAuthority(ManagerStep \/ AuthorityStep)
  BY <1>1, AuthorityIsStaking DEF ByAuthority, UpgradeInv, TakesNoStakes
<1>2. CASE UpgradeAndCall
  BY <1>2 DEF UpgradeAndCall, StakingStep, vars
<1>3. CASE ByStake(Next)
  <2>1. StakingInv /\ EpochTypeOK /\ [Next]_vars
    BY <1>3 DEF ByStake, UpgradeInv
  <2> QED BY <2>1, NextIsStaking
<1>4. CASE ByNativeStake(NativeStep)
  BY <1>4, NativeIsStaking DEF ByNativeStake, UpgradeInv, TakesNoStakes
<1>5. CASE UNCHANGED upgradeVars
  BY <1>5 DEF upgradeVars, vars, StakingStep
<1> QED BY <1>1, <1>2, <1>3, <1>4, <1>5 DEF UpgradeNext

----------------------------------------------------------------------------
(* The storage that the staking contract finds *)

\* Before initialize the contract for native tokens does not take stakes, nor pay rewards: there is
\* no rate of value to weight, and no validation has an owner.
LEMMA UninitializedKeepsStorage ==
  ASSUME StorageUntouched, ~stakingInitialized, NativeStep, UNCHANGED epochVars, ~stakingInitialized'
  PROVE  StorageUntouched'
<1>1. \A id : ~IsPoSValidator(id)
  BY UntouchedIsUnowned
<1>2. UNCHANGED posVars
  <2>1. ASSUME NEW id, CompleteEndAndUnlock(id)
        PROVE  UNCHANGED posVars
    BY <1>1, <2>1 DEF CompleteEndAndUnlock, CompleteEndValidation
  <2>2. ASSUME NEW id, EndUnownedValidation(id)
        PROVE  UNCHANGED posVars
    BY <2>2 DEF EndUnownedValidation
  <2>3. ASSUME NEW id, NEW sender, NEW proof, NEW recipient, NEW force,
               EndStakedValidation(id, sender, proof, recipient, force)
        PROVE  FALSE
    BY <1>1, <2>3 DEF EndStakedValidation
  <2>4. ASSUME NEW id, NEW a, NEW proof,
               \/ SubmitUptimeProof(id, proof)
               \/ ChangeValidatorRewardRecipient(id, a)
               \/ ClaimDelegationFees(id)
        PROVE  FALSE
    BY <1>1, <2>4 DEF SubmitUptimeProof, ChangeValidatorRewardRecipient, ClaimDelegationFees
  <2>5. ASSUME NEW sender, NEW node, NEW expiry, NEW minStakeDuration, NEW stake,
               StakeValidation(sender, node, expiry, minStakeDuration, stake)
        PROVE  FALSE
    BY <2>5 DEF StakeValidation
  <2>6. CASE InitializeStaking
    BY <2>6 DEF InitializeStaking
  <2> QED BY <2>1, <2>2, <2>3, <2>4, <2>5, <2>6 DEF NativeStep
<1> QED BY <1>2 DEF StorageUntouched, PosInit, posVars, epochVars

\* The invariant holds at first.
LEMMA UpgradeInitially ==
  ASSUME UpgradeInit
  PROVE  UpgradeInv
<1>1. StakingInv
  BY StakingInitially DEF UpgradeInit, Init
<1>2. StorageUntouched
  BY DEF UpgradeInit, Init, StorageUntouched
<1> QED BY <1>1, <1>2
        DEF UpgradeInit, UpgradeInv, UpgradeTypeOK, StakingInv, ManagerCore, Implementations

\* The invariant holds after every transaction, the upgrade among them.
LEMMA UpgradeKeepsInv ==
  ASSUME UpgradeInv, [UpgradeNext]_upgradeVars
  PROVE  UpgradeInv'
<1>1. StakingInv'
  BY UpgradeIsStaking, StakingStepKeeps DEF UpgradeInv
<1>2. ManagerTypeOK' /\ PosTypeOK'
  BY <1>1 DEF StakingInv, ManagerCore
<1>3. CASE ByAuthority(ManagerStep \/ AuthorityStep)
  <2>1. StorageUntouched'
    BY <1>3 DEF ByAuthority, UpgradeInv, TakesNoStakes, StorageUntouched, PosInit, posVars, epochVars
  <2> QED BY <1>1, <1>2, <1>3, <2>1 DEF ByAuthority, UpgradeInv, TakesNoStakes, UpgradeTypeOK
<1>4. CASE UpgradeAndCall
  <2>1. StorageUntouched /\ StorageUntouched'
    BY <1>4 DEF UpgradeAndCall, UpgradeInv, TakesNoStakes, StorageUntouched, PosInit, vars, posVars, epochVars
  <2>2. EpochTypeOK'
    BY <1>4, <2>1, UntouchedEpochs
       DEF UpgradeAndCall, vars, managerVars, posVars, epochVars, EpochTypeOK, EpochType
  <2> QED BY <1>1, <1>2, <1>4, <2>1, <2>2
          DEF UpgradeAndCall, UpgradeInv, TakesNoStakes, UpgradeTypeOK, Implementations
<1>5. CASE ByStake(Next)
  <2>1. EpochTypeOK'
    BY <1>5, NextKeepsEpochTypes DEF ByStake, UpgradeInv
  <2> QED BY <1>1, <1>2, <1>5, <2>1 DEF ByStake, UpgradeInv, TakesNoStakes, UpgradeTypeOK
<1>6. CASE ByNativeStake(NativeStep)
  <2>1. stakingInitialized' \in BOOLEAN /\ (stakingInitialized => stakingInitialized')
    BY <1>6 DEF ByNativeStake, UpgradeInv, UpgradeTypeOK, NativeStep, InitializeStaking,
                StakeValidation, EndUnownedValidation, CompleteEndAndUnlock, EndStakedValidation
  <2>2. ~stakingInitialized' => StorageUntouched'
    BY <1>6, <2>1, UninitializedKeepsStorage DEF ByNativeStake, UpgradeInv, TakesNoStakes
  <2> QED BY <1>1, <1>2, <1>6, <2>1, <2>2 DEF ByNativeStake, UpgradeInv, TakesNoStakes, UpgradeTypeOK
<1>7. CASE UNCHANGED upgradeVars
  <2>1. StorageUntouched' <=> StorageUntouched
    BY <1>7 DEF upgradeVars, vars, posVars, epochVars, StorageUntouched, PosInit
  <2>2. EpochTypeOK' <=> EpochTypeOK
    BY <1>7 DEF upgradeVars, vars, managerVars, posVars, epochVars, EpochTypeOK, EpochType
  <2> QED BY <1>1, <1>2, <1>7, <2>1, <2>2 DEF upgradeVars, UpgradeInv, TakesNoStakes, UpgradeTypeOK
<1> QED BY <1>3, <1>4, <1>5, <1>6, <1>7 DEF UpgradeNext

----------------------------------------------------------------------------
(* What the conversion keeps *)

\* The storage that a staking contract finds suits it, whenever the proxy is upgraded and whatever is
\* under way.
THEOREM UpgradeInvariance == UpgradeSpec => []UpgradeInv
<1>1. UpgradeInit => UpgradeInv
  BY UpgradeInitially
<1>2. UpgradeInv /\ [UpgradeNext]_upgradeVars => UpgradeInv'
  BY UpgradeKeepsInv
<1> QED BY <1>1, <1>2, PTL DEF UpgradeSpec

\* Types, before and after the upgrade.
THEOREM UpgradeTypes == UpgradeSpec => []UpgradeTypeOK
<1>1. UpgradeInv => UpgradeTypeOK
  BY DEF UpgradeInv
<1> QED BY <1>1, UpgradeInvariance, PTL

\* A node has one validation that has not ended, also one registered by the authority and acknowledged
\* by a staking contract (_registeredValidators).
THEOREM UpgradeKeepsNodesUnique == UpgradeSpec => []OneValidationPerNode
<1>1. UpgradeInv => OneValidationPerNode
  BY NodesAreUnique DEF UpgradeInv, StakingInv
<1> QED BY <1>1, UpgradeInvariance, PTL

\* After the upgrade too, every stake goes back once, to its owner, less what no weight stands for, and
\* validations without an owner, those of the authority and of address(0), take none (_lock, _unlock).
THEOREM UpgradeKeepsEscrow == UpgradeSpec => EscrowSpec
<1>1. UpgradeInit => StakeIsEscrow!EscrowInit
  BY EscrowInitially DEF UpgradeInit, Init
<1>2. UpgradeInv /\ [UpgradeNext]_upgradeVars
        => [StakeIsEscrow!EscrowNext]_(StakeIsEscrow!escrowVars)
  BY UpgradeIsStaking, StakingStepIsEscrow DEF UpgradeInv
<1> QED BY <1>1, <1>2, UpgradeInvariance, PTL DEF UpgradeSpec, EscrowSpec, StakeIsEscrow!Escrow

\* The converted contract holds every stake that it has to give back.
THEOREM UpgradeKeepsStakesBacked == UpgradeSpec => []StakeBacked
<1>1. UpgradeInit => StakeBacked
  BY BackedInitially DEF UpgradeInit, Init
<1>2. UpgradeInv /\ [UpgradeNext]_upgradeVars /\ StakeBacked => StakeBacked'
  BY UpgradeIsStaking, StakingStepKeepsBacked DEF UpgradeInv
<1> QED BY <1>1, <1>2, UpgradeInvariance, PTL DEF UpgradeSpec

\* So no end is held up by the balance of the converted contract.
COROLLARY UpgradeKeepsStakesPayable ==
  UpgradeSpec => [](\A id \in PoSValidations(Live) : StakeOf(id) <= stakeBalance)
<1>1. UpgradeInv /\ StakeBacked => \A id \in PoSValidations(Live) : StakeOf(id) <= stakeBalance
  BY StakesSplit DEF UpgradeInv
<1> QED BY <1>1, UpgradeInvariance, UpgradeKeepsStakesBacked, PTL

\* Nothing is staked, and no token held for anyone, before a staking contract is in place and has its
\* settings: initialize comes with the upgrade to the Coqnet contract, and a contract for native tokens
\* that was not initialized takes no stake.
THEOREM NothingStakedBefore ==
  UpgradeSpec => [](TakesNoStakes => PosInit)
<1>1. UpgradeInv => (TakesNoStakes => PosInit)
  BY DEF UpgradeInv, TakesNoStakes, StorageUntouched
<1> QED BY <1>1, UpgradeInvariance, PTL

\* What validations earn stays within its bounds under both staking contracts, whatever validations of
\* the authority they find.
THEOREM UpgradeKeepsEarnings == UpgradeSpec => []RewardsEarned
<1>1. UpgradeInit => RewardsEarned
  BY DEF UpgradeInit, Init, ManagerInit, Empty, RewardsEarned
<1>2. UpgradeInv /\ [UpgradeNext]_upgradeVars /\ RewardsEarned => RewardsEarned'
  BY UpgradeIsStaking, StakingStepKeepsEarnings DEF UpgradeInv
<1> QED BY <1>1, <1>2, UpgradeInvariance, PTL DEF UpgradeSpec

\* Agreement with the P-Chain outlasts the conversion, whatever is under way then.
THEOREM UpgradeKeepsAgreement == UpgradeSpec => []AgreesWithPChain
<1>1. UpgradeInit => ManagerInv
  BY ManagerInitially DEF UpgradeInit, Init
<1>2. UpgradeInv /\ [UpgradeNext]_upgradeVars /\ ManagerInv => ManagerInv'
  BY UpgradeIsStaking, StakingStepKeepsManager
<1>3. ManagerInv => AgreesWithPChain
  BY DEF ManagerInv, ManagerTypeOK, StatusesSound, AgreesWithPChain, Validations, Live,
         Statuses, Status
<1> QED BY <1>1, <1>2, <1>3, UpgradeInvariance, PTL DEF UpgradeSpec

\* The total weight of the converted L1 is the weight of what is pending or active, registered by
\* whomever, and of the registrations that were invalidated under any of the implementations, each time
\* that they were: _completeEndValidation leaves it in the total.
THEOREM UpgradeKeepsWeights == UpgradeSpec => []WeightsAccounted
<1>1. UpgradeInit => WeightsAccounted
  BY NothingWeighsInitially DEF UpgradeInit, Init
<1>2. UpgradeInv /\ [UpgradeNext]_upgradeVars /\ WeightsAccounted => WeightsAccounted'
  BY UpgradeIsStaking, StakingStepKeepsWeights DEF UpgradeInv, StakingInv
<1> QED BY <1>1, <1>2, UpgradeInvariance, PTL DEF UpgradeSpec

\* As the property says it: what churn is measured against is never off, before and after the upgrade
\* (_churnTracker.totalWeight).
THEOREM UpgradeKeepsTotalWeight == UpgradeSpec => []TotalWeightAccounted
<1>1. WeightsAccounted => TotalWeightAccounted
  BY DEF WeightsAccounted, TotalWeightAccounted, WeightSum, Weight, WeightOf, Weighing, Lost, LostOf
<1> QED BY <1>1, UpgradeKeepsWeights, PTL

\* So an active validation, of the converted subnet, of the authority or with a stake, can always be
\* taken off the total: the subtraction of _checkAndUpdateChurnTracker, in checked uint64 arithmetic,
\* does not revert its end.
COROLLARY UpgradeKeepsEndsCovered ==
  UpgradeSpec => [](\A id \in Validations({"Active"}) : validationPeriods[id].weight <= TotalWeight)
<1>1. UpgradeInv /\ WeightsAccounted
        => \A id \in Validations({"Active"}) : validationPeriods[id].weight <= TotalWeight
  BY WeightIsInTotal DEF UpgradeInv, StakingInv
<1> QED BY <1>1, UpgradeInvariance, UpgradeKeepsWeights, PTL

=============================================================================
