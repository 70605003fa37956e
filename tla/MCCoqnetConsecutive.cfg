CONSTANTS
  N1 = N1
  N2 = N2
  N3 = N3
  Genesis = Genesis
  Alice = Alice
  Bob = Bob
  Carol = Carol
  Treasury = Treasury
  NodeIDs = {N1, N2}
  InitialValidators <- MCInitialValidators
  MaximumChurnPercentage = 30
  ChurnPeriodSeconds = 1
  MaximumRegistrationExpiryLength = 2
  MaxUint64 = 400
  L1Churns = FALSE
  MaxTime = 6
  Accounts = {Alice, Bob, Treasury}
  Registrars = {Alice, Bob}
  Owners = {Alice, Bob}
  Recipients = {Treasury}
  MinimumStakeDuration = 2
  MinStakeDurations = {2}
  StakeAmounts <- MCStakes
  WeightToValueFactor = 2
  UptimeProofs = {2}
  NoProof = NoProof
  ZeroAddress = ZeroAddress
  RewardCap = 2
  RewardDivisor = 1
  MaxEpochValidators = 1
  EpochDuration = 2
  MaxRegistrations = 3
SYMMETRY MCSymmetry
SPECIFICATION Spec
INVARIANT NoConsecutiveEpochs
CHECK_DEADLOCK FALSE
