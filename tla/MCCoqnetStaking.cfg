CONSTANTS
  N1 = N1
  N2 = N2
  N3 = N3
  Genesis = Genesis
  Alice = Alice
  Bob = Bob
  Carol = Carol
  Treasury = Treasury
  NodeIDs = {N1, N2}
  InitialValidators <- MCInitialValidators
  MaximumChurnPercentage = 30
  ChurnPeriodSeconds = 1
  MaximumRegistrationExpiryLength = 4
  MaxUint64 = 400
  L1Churns = FALSE
  MaxTime = 4
  Accounts = {Alice, Bob, Treasury}
  Registrars = {Alice, Bob}
  Owners = {Alice, Bob, ZeroAddress}
  Recipients = {Treasury}
  MinimumStakeDuration = 1
  MinStakeDurations = {1}
  StakeAmounts <- MCStakes
  WeightToValueFactor = 2
  UptimeProofs = {2}
  NoProof = NoProof
  ZeroAddress = ZeroAddress
  RewardCap = 2
  RewardDivisor = 1
  MaxEpochValidators = 1
  EpochDuration = 2
  MaxRegistrations = 3
SYMMETRY MCSymmetry
SPECIFICATION Spec
INVARIANTS TypeOK OneValidationPerNode AgreesWithPChain TotalWeightAccounted
  StakeBacked RewardsEarned OnePlacePerOwner OnlyPlacesEarn
PROPERTIES EscrowSpec
CHECK_DEADLOCK FALSE
