CONSTANTS
  N1 = N1
  N2 = N2
  N3 = N3
  Genesis = Genesis
  Alice = Alice
  Bob = Bob
  Carol = Carol
  Treasury = Treasury
  NodeIDs = {N1, N2, N3}
  InitialValidators <- MCInitialValidators
  MaximumChurnPercentage = 30
  ChurnPeriodSeconds = 1
  MaximumRegistrationExpiryLength = 3
  MaxUint64 = 400
  L1Churns = FALSE
  MaxTime = 4
  Accounts = {Alice, Bob, Carol, Treasury}
  Registrars = {Alice, Bob, Carol}
  Owners = {Alice, Bob, Carol}
  Recipients = {}
  MinimumStakeDuration = 1
  MinStakeDurations = {1}
  StakeAmounts <- MCStakes
  WeightToValueFactor = 2
  UptimeProofs = {2}
  NoProof = NoProof
  ZeroAddress = ZeroAddress
  RewardCap = 3
  RewardDivisor = 1
  MaxEpochValidators = 2
  EpochDuration = 2
  MaxRegistrations = 3
SYMMETRY MCSymmetry
SPECIFICATION Spec
INVARIANTS EpochListsSound
PROPERTIES PlacesLostOnlyByInactive
CHECK_DEADLOCK FALSE
