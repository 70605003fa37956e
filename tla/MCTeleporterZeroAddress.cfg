SPECIFICATION Spec
CONSTANTS
  A = A
  B = B
  R1 = R1
  Usdc = Usdc
  Chains = {A, B}
  Relayers = {R1}
  NoAddress = NoAddress
  Assets = {Usdc}
  NoAsset = NoAsset
  MaximumReceiptCount = 1
  HookingAssets = {}
  ForeignMessages <- MCForeign
  ChurningChains = {}
  Routes <- MCRoutes
  FeeInfos <- MCLiveFees
  AllowedRelayerLists <- MCAnyone
  MaxNonce <- MCMaxNonce
  MaxFee = 3
  MaxSpecified = 1
INVARIANT
  RewardAddressNotZero
CHECK_DEADLOCK FALSE
