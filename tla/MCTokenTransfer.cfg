CONSTANTS
  Native = Native
  Erc20 = Erc20
  Misled = Misled
  Foreign = Foreign
  Base = 2
  Remotes = {Native, Erc20, Misled, Foreign}
  NativeRemotes = {Native}
  ForeignRemotes = {Foreign}
  HomeDecimals = 1
  Decimals <- MCDecimals
  ClaimedHomeDecimals <- MCClaimed
  InitialReserve <- MCReserve
  ReportingRewardPercentage = 50
  Amounts = {0, 1, 2, 3}
  SecondaryFees = {0, 1}
  MaxHeld = 4
  MaxBurned = 3
  MaxInFlight = 2
SPECIFICATION Spec
INVARIANTS TypeOK FullyBacked Conserved CollateralKnown HomeAccepts
PROPERTIES BridgeSpec
CHECK_DEADLOCK FALSE
