------------------------ MODULE PoSValidatorManager ------------------------
(***************************************************************************)
(* Proof-of-stake validations: who owns a validation, the stake locked for *)
(* it and the rewards it earns                                             *)
(* (contracts/validator-manager/PoSValidatorManager.sol).  Delegation has  *)
(* empty functions in this contract and is left out, and with it the       *)
(* delegation fee, which nothing reads.                                    *)
(***************************************************************************)
EXTENDS ValidatorManager

CONSTANTS
  Accounts,             \* the addresses that own validations and receive rewards
  ZeroAddress,          \* address(0); a validation of this owner counts as one without an owner
  MinimumStakeDuration,
  StakeAmounts,         \* bound: the stakes offered, within the minimum and the maximum
  WeightToValueFactor,
  UptimeProofs,         \* bound: the uptimes that validators sign
  NoProof,              \* no uptime proof is included
  RewardCap,            \* RewardsCalculator.MAX_UPTIME_SECONS
  RewardDivisor         \* SECONDS_IN_YEAR * BIPS_CONVERSION_FACTOR / rewardBasisPoints

ASSUME StakeAssumption ==
  /\ WeightToValueFactor \in Nat \ {0}
  /\ StakeAmounts \subseteq Nat
  /\ MinimumStakeDuration \in Nat /\ MinimumStakeDuration >= ChurnPeriodSeconds
ASSUME RewardAssumption ==
  /\ IsFiniteSet(Accounts) /\ ZeroAddress \notin Accounts
  /\ UptimeProofs \subseteq Nat /\ NoProof \notin UptimeProofs
  /\ RewardCap \in Nat /\ RewardDivisor \in Nat \ {0}

VARIABLES
  posValidatorInfo,           \* [ID -> owner, minimum duration and uptime]; owned IDs only
  redeemableValidatorRewards, \* [ID -> amount], 0 without an entry
  rewardRecipients,           \* [ID -> account], address(0) without an entry
  stakeBalance,               \* the tokens of the contract
  stakeLocked,                \* [owned ID -> the tokens taken for its validation]
  stakeReturned,              \* [account -> tokens transferred to it]
  rewardsMinted               \* [ID -> [account -> tokens minted to it]] for the validation that
                              \* the ID stands for, 0 without an entry

posVars == <<posValidatorInfo, redeemableValidatorRewards, rewardRecipients, stakeBalance,
             stakeLocked, stakeReturned, rewardsMinted>>

PosInit ==
  /\ posValidatorInfo = Empty
  /\ redeemableValidatorRewards = Empty
  /\ rewardRecipients = Empty
  /\ stakeBalance = 0
  /\ stakeLocked = Empty
  /\ stakeReturned = [a \in Accounts |-> 0]
  /\ rewardsMinted = Empty

AmountAt(f, id) == IF id \in DOMAIN f THEN f[id] ELSE 0

IsPoSValidator(id) == id \in DOMAIN posValidatorInfo

UptimeOf(id) == IF IsPoSValidator(id) THEN posValidatorInfo[id].uptimeSeconds ELSE 0

\* An entry written for an owner; address(0) leaves none.
SetFor(owner, f, id, value) == IF owner = ZeroAddress THEN Without(f, id) ELSE Set(f, id, value)

ValueToWeight(value) == value \div WeightToValueFactor

\* Mutant: the stake is returned at the rate of one token per unit of weight, rounded up.
WeightToValueRoundedUp(weight) == (weight + 1) * WeightToValueFactor

WeightToValue(weight) == weight * WeightToValueFactor

\* The time that a reward is calculated for.
RewardedTime(startedAt, endedAt) ==
  IF endedAt - startedAt > RewardCap THEN RewardCap ELSE endedAt - startedAt

\* Mutant: the uptime is not looked at.
RewardWithoutUptime(stake, startedAt, endedAt, uptime) ==
  (stake * RewardedTime(startedAt, endedAt)) \div RewardDivisor

\* RewardsCalculator.calculateReward: linear in time up to the cap, nothing below 80% uptime.
CalculateReward(stake, startedAt, endedAt, uptime) ==
  IF uptime * 100 < RewardedTime(startedAt, endedAt) * 80
  THEN 0
  ELSE (stake * RewardedTime(startedAt, endedAt)) \div RewardDivisor

----------------------------------------------------------------------------

\* _updateUptime: the stored uptime never decreases.
UpdatedUptime(id, proof) ==
  IF proof # NoProof /\ proof > UptimeOf(id) THEN proof ELSE UptimeOf(id)

SubmitUptimeProof(id, proof) ==
  /\ IsPoSValidator(id)
  /\ Status(id) = "Active"
  /\ posValidatorInfo' = [posValidatorInfo EXCEPT ![id].uptimeSeconds = UpdatedUptime(id, proof)]
  /\ UNCHANGED <<managerVars, redeemableValidatorRewards, rewardRecipients, stakeBalance,
                 stakeLocked, stakeReturned, rewardsMinted>>

\* _initializeValidatorRegistration, owner is whom the contract at hand records.  The weight is
\* rounded down, what it does not stand for stays in the contract.  An ID that is used again loses
\* the owner and the uptime it had; the contract says nothing of what its stake was.
InitializePoSRegistration(owner, node, expiry, minStakeDuration, stake) ==
  LET id == ValidationID(node, ValueToWeight(stake), expiry)
  IN /\ minStakeDuration >= MinimumStakeDuration
     /\ stake \in StakeAmounts
     /\ ValueToWeight(stake) \in 1 .. MaxUint64
     /\ InitializeRegistration(id)
     /\ posValidatorInfo' =
          SetFor(owner, posValidatorInfo, id,
                 [owner |-> owner, minStakeDuration |-> minStakeDuration, uptimeSeconds |-> 0])
     /\ rewardRecipients' = SetFor(owner, rewardRecipients, id, owner)
     /\ stakeBalance' = stakeBalance + stake
     /\ stakeLocked' = SetFor(owner, stakeLocked, id, stake)
     /\ rewardsMinted' = Without(rewardsMinted, id)
     /\ UNCHANGED <<redeemableValidatorRewards, stakeReturned>>

\* _initializeEndPoSValidation of a validation with an owner, up to the entry in
\* _redeemableValidatorRewards: accrued is what it is to hold.
InitializeEndPoSValidation(id, sender, proof, recipient, endedAt, accrued) ==
  /\ InitializeEndValidation(id, endedAt)
  /\ posValidatorInfo[id].owner = sender
  /\ endedAt >= validationPeriods[id].startedAt + posValidatorInfo[id].minStakeDuration
  /\ posValidatorInfo' = [posValidatorInfo EXCEPT ![id].uptimeSeconds = UpdatedUptime(id, proof)]
  /\ redeemableValidatorRewards' = Set(redeemableValidatorRewards, id, accrued)
  /\ rewardRecipients' = Set(rewardRecipients, id, recipient)
  /\ UNCHANGED <<stakeBalance, stakeLocked, stakeReturned, rewardsMinted>>

\* The reward of a validation that ends at endedAt.
RewardAtEnd(id, proof, endedAt) ==
  CalculateReward(WeightToValue(validationPeriods[id].startingWeight),
                  validationPeriods[id].startedAt, endedAt, UpdatedUptime(id, proof))

ChangeValidatorRewardRecipient(id, recipient) ==
  /\ IsPoSValidator(id)
  /\ rewardRecipients' = Set(rewardRecipients, id, recipient)
  /\ UNCHANGED <<managerVars, posValidatorInfo, redeemableValidatorRewards, stakeBalance,
                 stakeLocked, stakeReturned, rewardsMinted>>

NothingMinted == [a \in Accounts |-> 0]

MintedFor(id) == IF id \in DOMAIN rewardsMinted THEN rewardsMinted[id] ELSE NothingMinted

\* _withdrawValidationRewards
WithdrawValidationRewards(recipient, id) ==
  /\ rewardsMinted' =
       Set(rewardsMinted, id,
           [MintedFor(id) EXCEPT ![recipient] = @ + AmountAt(redeemableValidatorRewards, id)])
  /\ redeemableValidatorRewards' = Without(redeemableValidatorRewards, id)

\* Whom the rewards are minted to at the end.
RewardPayee(id) ==
  IF id \in DOMAIN rewardRecipients THEN rewardRecipients[id] ELSE posValidatorInfo[id].owner

\* Whom _unlock pays.
StakePayee(id) == posValidatorInfo[id].owner

\* completeEndValidation: rewards for a completed validation, the stake for an invalidated one too.
CompleteEndValidation(id) ==
  /\ CompleteEnd(id)
  /\ IF ~IsPoSValidator(id)
     THEN UNCHANGED posVars
     ELSE LET value == WeightToValue(validationPeriods[id].startingWeight)
          IN /\ value <= stakeBalance
             /\ IF EndStatus(id) = "Completed"
                THEN WithdrawValidationRewards(RewardPayee(id), id)
                ELSE UNCHANGED <<redeemableValidatorRewards, rewardsMinted>>
             /\ rewardRecipients' = Without(rewardRecipients, id)
             /\ stakeBalance' = stakeBalance - value
             /\ stakeReturned' = [stakeReturned EXCEPT ![StakePayee(id)] = @ + value]
             /\ UNCHANGED <<posValidatorInfo, stakeLocked>>

\* claimDelegationFees
ClaimDelegationFees(id) ==
  /\ Status(id) = "Completed"
  /\ IsPoSValidator(id)
  /\ WithdrawValidationRewards(posValidatorInfo[id].owner, id)
  /\ UNCHANGED <<managerVars, posValidatorInfo, rewardRecipients, stakeBalance, stakeLocked,
                 stakeReturned>>

----------------------------------------------------------------------------
(* Properties *)

PosTypeOK ==
  /\ DOMAIN posValidatorInfo \subseteq DOMAIN validationPeriods
  /\ posValidatorInfo \in [DOMAIN posValidatorInfo ->
                            [owner : Accounts, minStakeDuration : Nat, uptimeSeconds : Nat]]
  /\ redeemableValidatorRewards \in [DOMAIN redeemableValidatorRewards -> Nat]
  /\ rewardRecipients \in [DOMAIN rewardRecipients -> Accounts]
  /\ stakeBalance \in Nat
  /\ stakeLocked \in [DOMAIN posValidatorInfo -> Nat]
  /\ stakeReturned \in [Accounts -> Nat]
  /\ rewardsMinted \in [DOMAIN rewardsMinted -> [Accounts -> Nat]]

StakeOf(id) == WeightToValue(validationPeriods[id].startingWeight)

PoSValidations(statuses) == Validations(statuses) \cap DOMAIN posValidatorInfo

\* The contract holds the stake of every validation whose end is not acknowledged.
StakeBacked ==
  stakeBalance >= Total([id \in PoSValidations(Live) |-> StakeOf(id)], PoSValidations(Live))

\* The stakes kept, at what was paid in.
Deposits ==
  [id \in PoSValidations(Live) |-> [owner |-> posValidatorInfo[id].owner, value |-> stakeLocked[id]]]

StakeIsEscrow ==
  INSTANCE StakeEscrow WITH
    Unit <- WeightToValueFactor, deposits <- Deposits, returned <- stakeReturned, held <- stakeBalance

\* Each stake goes back once, to its owner, and only when the end is acknowledged, but for a
\* remainder below one unit of weight that the contract keeps (_lock, _unlock).  The stake of a
\* validation without an owner never goes back.
EscrowSpec == StakeIsEscrow!Escrow

\* What a validation has earned, minted or not.
EarnedBy(id) == AmountAt(redeemableValidatorRewards, id) + Total(MintedFor(id), Accounts)

\* A validation earns once, for no more than the capped duration and its time between start and end,
\* and only with 80% of that time as its uptime on record.
RewardsEarned ==
  \A id \in DOMAIN validationPeriods :
    LET v == validationPeriods[id]
    IN EarnedBy(id) > 0 =>
         /\ v.status \in {"PendingRemoved", "Completed"}
         /\ EarnedBy(id) <= (StakeOf(id) * (v.endedAt - v.startedAt)) \div RewardDivisor
         /\ EarnedBy(id) <= (StakeOf(id) * RewardCap) \div RewardDivisor
         /\ UptimeOf(id) * 100 >= RewardedTime(v.startedAt, v.endedAt) * 80

=============================================================================
