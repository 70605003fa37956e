SPECIFICATION FairSpec
CONSTANTS
  A = A
  B = B
  R1 = R1
  Usdc = Usdc
  Chains = {A, B}
  Relayers = {R1}
  NoAddress = NoAddress
  Assets = {Usdc}
  NoAsset = NoAsset
  MaximumReceiptCount = 1
  HookingAssets = {}
  ForeignMessages = {}
  ChurningChains = {A, B}
  Routes <- MCRoutes
  FeeInfos <- MCLiveFees
  AllowedRelayerLists <- MCOnlyR1
  MaxNonce <- MCLiveNonce
  MaxFee = 0
  MaxSpecified = 1
PROPERTIES
  EventuallyReceived
  EventuallyAcknowledged
CHECK_DEADLOCK FALSE
