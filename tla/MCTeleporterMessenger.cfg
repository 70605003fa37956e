SPECIFICATION Spec
CONSTANTS
  A = A
  B = B
  R1 = R1
  Usdc = Usdc
  Chains = {A, B}
  Relayers = {R1}
  NoAddress = NoAddress
  Assets = {Usdc}
  NoAsset = NoAsset
  MaximumReceiptCount = 1
  HookingAssets = {Usdc}
  ForeignMessages <- MCForeign
  ChurningChains = {}
  Routes <- MCRoutes
  FeeInfos <- MCFees
  AllowedRelayerLists <- MCAnyone
  MaxNonce <- MCMaxNonce
  MaxFee = 3
  MaxSpecified = 1
INVARIANTS
  TypeOK
  Solvent
  ExactlyOneOutcome
  AcknowledgedOnlyIfReceived
  RewardsMatchReceipts
  NoReceiptLost
  FeeTargetPending
PROPERTY ChannelSpec
CHECK_DEADLOCK FALSE
