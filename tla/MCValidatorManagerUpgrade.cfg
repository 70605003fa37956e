CONSTANTS
  N1 = N1
  Genesis1 = Genesis1
  Genesis2 = Genesis2
  Alice = Alice
  Bob = Bob
  NodeIDs = {N1}
  InitialValidators <- MCInitialValidators
  MaximumChurnPercentage = 30
  ChurnPeriodSeconds = 1
  MaximumRegistrationExpiryLength = 2
  MaxUint64 = 500
  L1Churns = TRUE
  MaxTime = 3
  Refusing = {Bob}
  Accounts = {Alice, Bob}
  Registrars = {Alice}
  Owners = {Alice, ZeroAddress}
  Recipients = {Alice}
  MinimumStakeDuration = 2
  MinStakeDurations = {2}
  StakeAmounts <- MCStakes
  WeightToValueFactor = 2
  UptimeProofs = {2}
  NoProof = NoProof
  ZeroAddress = ZeroAddress
  RewardCap = 3
  RewardDivisor = 1
  MaxEpochValidators = 2
  EpochDuration = 3
  MaxRegistrations = 2
  AuthorityWeights = {1}
  AuthorityValidations = 2
SPECIFICATION FairSpec
PROPERTIES EndEventuallyCompletes RegistrationSettles
CHECK_DEADLOCK FALSE
