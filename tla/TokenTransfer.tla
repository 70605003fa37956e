---------------------------- MODULE TokenTransfer ----------------------------
(***************************************************************************)
(* A token home and its remotes (contracts/ictt): tokens are locked at the *)
(* home and minted at a remote, burned at a remote and released at the     *)
(* home or passed on to another remote.  Balances of users are taken       *)
(* together: `circulating' is what the holders at a remote have.           *)
(*                                                                         *)
(* The messenger executes each message at most once, in any order, and     *)
(* one whose execution reverts may be executed later                       *)
(* (TeleporterMessenger, ExactlyOneOutcome): messages under way are a bag, *)
(* and a reverted execution leaves the message there.  A call to a         *)
(* recipient contract differs from a send in who holds the tokens after    *)
(* it, the contract or its fallback, so both are one action.  Fees for     *)
(* messages are paid by the sender on top of the amount, but for the       *)
(* secondary fee, which the home takes out of it.                          *)
(***************************************************************************)
EXTENDS TokenScaling, Sums, BagsExt

CONSTANTS
  Remotes,              \* the contracts that may register with the home
  NativeRemotes,        \* NativeTokenRemote contracts; the others are ERC20TokenRemote
  ForeignRemotes,       \* contracts of other code, which send what they like
  HomeDecimals,
  Decimals,             \* [remote -> decimals of its token]
  ClaimedHomeDecimals,  \* [remote -> the decimals it was told the home token has]
  InitialReserve,       \* [remote -> initialReserveImbalance]
  ReportingRewardPercentage,
  Amounts,              \* bound: the amounts that users send
  SecondaryFees,        \* bound: the fees of a second hop
  MaxHeld,              \* bound: the home tokens held by the home
  MaxBurned,            \* bound: the transaction fees burned at a remote
  MaxInFlight           \* bound: the messages under way

OurRemotes == Remotes \ ForeignRemotes

ASSUME RemoteAssumption ==
  /\ IsFiniteSet(Remotes) /\ NativeRemotes \subseteq Remotes /\ ForeignRemotes \subseteq Remotes
  /\ HomeDecimals \in 0..MAX_TOKEN_DECIMALS
  /\ Decimals \in [Remotes -> 0..MAX_TOKEN_DECIMALS]
  /\ ClaimedHomeDecimals \in [Remotes -> 0..MAX_TOKEN_DECIMALS]
  /\ InitialReserve \in [Remotes -> Nat]
  /\ \A r \in Remotes \ NativeRemotes : InitialReserve[r] = 0
  /\ ReportingRewardPercentage \in 0..99
  /\ Amounts \subseteq Nat /\ SecondaryFees \subseteq Nat

VARIABLES
  registered,         \* [remote -> BOOLEAN], at the home
  collateralNeeded,   \* [remote -> home tokens]
  transferredBalances,\* [remote -> remote tokens], what the home has sent and not got back
  homeBalance,        \* home tokens held by the home
  isRegistered,       \* [remote -> BOOLEAN], what the remote knows
  isCollateralized,   \* [remote -> BOOLEAN], likewise
  circulating,        \* [remote -> remote tokens of its holders]
  burnedTxFees,       \* [remote -> balance of BURNED_TX_FEES_ADDRESS]
  latestBurnedFeesReported,
  toHome,             \* bag of messages from remotes to the home
  toRemotes           \* bag of messages from the home to remotes

homeVars == <<registered, collateralNeeded, transferredBalances, homeBalance>>
remoteVars == <<isRegistered, isCollateralized, circulating, burnedTxFees,
                latestBurnedFeesReported>>
vars == <<homeVars, remoteVars, toHome, toRemotes>>

\* The messages: SINGLE_HOP is a SINGLE_HOP_SEND or SINGLE_HOP_CALL, MULTI_HOP likewise.
RegisterRemote(r) == [messageType |-> "REGISTER_REMOTE", from |-> r]
SingleHop(r, amount) == [messageType |-> "SINGLE_HOP", from |-> r, amount |-> amount]
MultiHop(r, amount, secondaryFee, destination) ==
  [messageType |-> "MULTI_HOP", from |-> r, amount |-> amount,
   secondaryFee |-> secondaryFee, destination |-> destination]
Payout(r, amount) == [to |-> r, amount |-> amount]

NoMessages == [m \in {} |-> 0]

Init ==
  /\ registered = [r \in Remotes |-> FALSE]
  /\ collateralNeeded = [r \in Remotes |-> 0]
  /\ transferredBalances = [r \in Remotes |-> 0]
  /\ homeBalance = 0
  /\ isRegistered = [r \in Remotes |-> FALSE]
  /\ isCollateralized = [r \in Remotes |-> InitialReserve[r] = 0]
  /\ circulating = InitialReserve
  /\ burnedTxFees = [r \in Remotes |-> 0]
  /\ latestBurnedFeesReported = [r \in Remotes |-> 0]
  /\ toHome = NoMessages
  /\ toRemotes = NoMessages

Sendable == Total(toHome, DOMAIN toHome) + Total(toRemotes, DOMAIN toRemotes) < MaxInFlight

-----------------------------------------------------------------------------
\* The home: registration and collateral.

\* The scale the home computes for a remote, and the one the remote computes for itself.
HomeScale(r) == deriveTokenMultiplierValues(HomeDecimals, Decimals[r])
OwnScale(r) == deriveTokenMultiplierValues(ClaimedHomeDecimals[r], Decimals[r])

\* The home tokens that back an amount of remote tokens, rounded up.
Backing(r, amount) ==
  removeTokenScale(HomeScale(r), amount)
    + IF HomeScale(r).multiplyOnRemote /\ amount % HomeScale(r).tokenMultiplier # 0
      THEN 1 ELSE 0

\* Mutant: a contract registers again while its first messages are under way.
MayRegisterAgain(r) == ClaimedHomeDecimals[r] = HomeDecimals

MayRegister(r) == ~registered[r] /\ ClaimedHomeDecimals[r] = HomeDecimals

ReceiveRegisterRemote(m) ==
  /\ m.messageType = "REGISTER_REMOTE"
  /\ MayRegister(m.from)
  /\ registered' = [registered EXCEPT ![m.from] = TRUE]
  /\ collateralNeeded' = [collateralNeeded EXCEPT ![m.from] = Backing(m.from, InitialReserve[m.from])]
  /\ toHome' = BagRemove(toHome, m)
  /\ UNCHANGED <<transferredBalances, homeBalance, remoteVars, toRemotes>>

\* `amount' is what the token credits; what exceeds the need goes back to the sender.
AddCollateral(r, amount) ==
  LET added == IF amount >= collateralNeeded[r] THEN collateralNeeded[r] ELSE amount
  IN  /\ registered[r] /\ collateralNeeded[r] > 0
      /\ collateralNeeded' = [collateralNeeded EXCEPT ![r] = @ - added]
      /\ homeBalance' = homeBalance + added
      /\ homeBalance' <= MaxHeld
      /\ UNCHANGED <<registered, transferredBalances, remoteVars, toHome, toRemotes>>

\* Mutant: transfers to a remote are open as soon as it is registered.
OpenWithoutCollateral(r) == registered[r]

Open(r) == registered[r] /\ collateralNeeded[r] = 0

\* The home pays out at a remote: it counts the remote tokens and sends the message.
PayAt(r, scaledAmount, balances) ==
  /\ transferredBalances' = [balances EXCEPT ![r] = @ + scaledAmount]
  /\ toRemotes' = BagAdd(toRemotes, Payout(r, scaledAmount))

HomeSend(r, amount) ==
  LET scaledAmount == applyTokenScale(HomeScale(r), amount)
  IN  /\ Sendable /\ homeBalance + amount <= MaxHeld
      /\ Open(r)
      /\ scaledAmount > 0
      /\ homeBalance' = homeBalance + amount
      /\ PayAt(r, scaledAmount, transferredBalances)
      /\ UNCHANGED <<registered, collateralNeeded, remoteVars, toHome>>
-----------------------------------------------------------------------------
\* The home: transfers from remotes.

HomeAmount(m) == removeTokenScale(HomeScale(m.from), m.amount)
HomeFee(m) == removeTokenScale(HomeScale(m.from), m.secondaryFee)

\* Mutant: the balance is taken down without looking whether it is that high.
AcceptsAnyAmount(m) == Open(m.from) /\ HomeAmount(m) > 0

\* _processReceivedTransfer.
AcceptsTransfer(m) ==
  /\ Open(m.from)
  /\ transferredBalances[m.from] >= m.amount
  /\ HomeAmount(m) > 0

\* Mutant: what the rounding took is left in the balance of the remote.
DeductScaled(m) ==
  [transferredBalances EXCEPT ![m.from] = @ - applyTokenScale(HomeScale(m.from), HomeAmount(m))]

Deduct(m) == [transferredBalances EXCEPT ![m.from] = @ - m.amount]

\* Tokens leave the home: a token transfer of more than it has reverts.
Withdraw(amount) == amount <= homeBalance /\ homeBalance' = homeBalance - amount

ReceiveSingleHop(m) ==
  /\ m.messageType = "SINGLE_HOP"
  /\ AcceptsTransfer(m)
  /\ transferredBalances' = Deduct(m)
  /\ Withdraw(HomeAmount(m))
  /\ toHome' = BagRemove(toHome, m)
  /\ UNCHANGED <<registered, collateralNeeded, remoteVars, toRemotes>>

\* Mutant: the fee is taken off after the amount is scaled for its destination.
RoutedWithFee(m) == applyTokenScale(HomeScale(m.destination), HomeAmount(m))

\* What a second hop carries once the fee is off: zero if it has to go to the fallback.
Routed(m) == applyTokenScale(HomeScale(m.destination), HomeAmount(m) - HomeFee(m))

CoversFee(m) == Open(m.destination) => HomeAmount(m) > HomeFee(m)

\* A second hop that cannot be made pays the whole amount to the fallback on the home chain.
ReceiveMultiHop(m) ==
  /\ m.messageType = "MULTI_HOP"
  /\ AcceptsTransfer(m)
  /\ CoversFee(m)
  /\ IF Open(m.destination) /\ Routed(m) > 0
     THEN /\ PayAt(m.destination, Routed(m), Deduct(m))
          /\ Withdraw(HomeFee(m))
     ELSE /\ transferredBalances' = Deduct(m)
          /\ Withdraw(HomeAmount(m))
          /\ UNCHANGED toRemotes
  /\ toHome' = BagRemove(toHome, m)
  /\ UNCHANGED <<registered, collateralNeeded, remoteVars>>
-----------------------------------------------------------------------------
\* The remotes.

RegisterWithHome(r) ==
  /\ Sendable
  /\ ~isRegistered[r]
  /\ toHome' = BagAdd(toHome, RegisterRemote(r))
  /\ UNCHANGED <<homeVars, remoteVars, toRemotes>>

\* Mutant: the secondary fee is compared before both are scaled.
CoversUnscaled(r, amount, secondaryFee) == amount > secondaryFee

CoversSecondaryFee(r, amount, secondaryFee) ==
  removeTokenScale(OwnScale(r), amount) > removeTokenScale(OwnScale(r), secondaryFee)

\* Common to every send: the tokens of the sender are burned.
PrepareSend(r, amount, secondaryFee) ==
  /\ Sendable
  /\ r \in NativeRemotes => isCollateralized[r]
  /\ amount <= circulating[r]
  /\ CoversSecondaryFee(r, amount, secondaryFee)
  /\ circulating' = [circulating EXCEPT ![r] = @ - amount]
  /\ UNCHANGED <<homeVars, isRegistered, isCollateralized, burnedTxFees,
                 latestBurnedFeesReported, toRemotes>>

Send(r, amount) ==
  /\ PrepareSend(r, amount, 0)
  /\ toHome' = BagAdd(toHome, SingleHop(r, amount))

SendMultiHop(r, amount, secondaryFee, destination) ==
  /\ destination # r
  /\ PrepareSend(r, amount, secondaryFee)
  /\ toHome' = BagAdd(toHome, MultiHop(r, amount, secondaryFee, destination))

\* A message of the home: tokens are minted, and the remote learns that it is registered.
ReceiveFromHome(m) ==
  /\ m.to \in OurRemotes
  /\ isRegistered' = [isRegistered EXCEPT ![m.to] = TRUE]
  /\ isCollateralized' = [isCollateralized EXCEPT ![m.to] = TRUE]
  /\ circulating' = [circulating EXCEPT ![m.to] = @ + m.amount]
  /\ toRemotes' = BagRemove(toRemotes, m)
  /\ UNCHANGED <<homeVars, burnedTxFees, latestBurnedFeesReported, toHome>>

\* The chain burns the fees of its transactions.
BurnTxFees(r, amount) ==
  /\ r \in NativeRemotes
  /\ amount \in 1..circulating[r] /\ burnedTxFees[r] + amount <= MaxBurned
  /\ circulating' = [circulating EXCEPT ![r] = @ - amount]
  /\ burnedTxFees' = [burnedTxFees EXCEPT ![r] = @ + amount]
  /\ UNCHANGED <<homeVars, isRegistered, isCollateralized, latestBurnedFeesReported, toHome,
                 toRemotes>>

Unreported(r) == burnedTxFees[r] - latestBurnedFeesReported[r]

ReportReward(r) == (Unreported(r) * ReportingRewardPercentage) \div 100
Reported(r) == Unreported(r) - ReportReward(r)

\* The home burns what backs the fees; a share is minted again for whoever relays the message.
ReportBurnedTxFees(r) ==
  /\ Sendable
  /\ r \in NativeRemotes
  /\ Unreported(r) > 0
  /\ removeTokenScale(OwnScale(r), Reported(r)) > 0
  /\ latestBurnedFeesReported' = [latestBurnedFeesReported EXCEPT ![r] = burnedTxFees[r]]
  /\ circulating' = [circulating EXCEPT ![r] = @ + ReportReward(r)]
  /\ toHome' = BagAdd(toHome, SingleHop(r, Reported(r)))
  /\ UNCHANGED <<homeVars, isRegistered, isCollateralized, burnedTxFees, toRemotes>>

\* What contracts of other code do with a message, nobody knows.
ForeignReceive(m) ==
  /\ m.to \in ForeignRemotes
  /\ toRemotes' = BagRemove(toRemotes, m)
  /\ UNCHANGED <<homeVars, remoteVars, toHome>>

\* They send any transfer, whatever they were paid.
ForeignSend(m) ==
  /\ Sendable
  /\ toHome' = BagAdd(toHome, m)
  /\ UNCHANGED <<homeVars, remoteVars, toRemotes>>
-----------------------------------------------------------------------------
RemoteStep(r) ==
  \/ RegisterWithHome(r)
  \/ ReportBurnedTxFees(r)
  \/ \E amount \in Amounts : Send(r, amount) \/ BurnTxFees(r, amount)
  \/ \E amount \in Amounts, fee \in SecondaryFees, destination \in Remotes :
       SendMultiHop(r, amount, fee, destination)

ForeignStep(r) ==
  \/ RegisterWithHome(r)
  \/ \E amount \in Amounts : ForeignSend(SingleHop(r, amount))
  \/ \E amount \in Amounts, fee \in SecondaryFees, destination \in Remotes :
       ForeignSend(MultiHop(r, amount, fee, destination))

HomeStep ==
  \/ \E r \in Remotes, amount \in Amounts : HomeSend(r, amount) \/ AddCollateral(r, amount)
  \/ \E m \in DOMAIN toHome :
       ReceiveRegisterRemote(m) \/ ReceiveSingleHop(m) \/ ReceiveMultiHop(m)

Next ==
  \/ HomeStep
  \/ \E r \in OurRemotes : RemoteStep(r)
  \/ \E r \in ForeignRemotes : ForeignStep(r)
  \/ \E m \in DOMAIN toRemotes : ReceiveFromHome(m) \/ ForeignReceive(m)

Spec == Init /\ [][Next]_vars
-----------------------------------------------------------------------------
\* Messages and the tokens under way in them.

TransfersFrom(rs) ==
  [messageType : {"SINGLE_HOP"}, from : rs, amount : Nat]
    \cup [messageType : {"MULTI_HOP"}, from : rs, amount : Nat, secondaryFee : Nat,
          destination : Remotes]
PayoutsTo(rs) == [to : rs, amount : Nat]
Registrations == [messageType : {"REGISTER_REMOTE"}, from : Remotes]

\* The sum of the amounts of the messages in a bag that are of a kind.
AmountIn(bag, kind) ==
  LET some == DOMAIN bag \cap kind
  IN  Total([m \in some |-> bag[m] * m.amount], some)

\* The tokens of a remote: with holders, burned but not reported, and under way.
Notes(r) ==
  circulating[r] + Unreported(r)
    + AmountIn(toHome, TransfersFrom({r})) + AmountIn(toRemotes, PayoutsTo({r}))

\* What the home has to hold for a remote: behind what it sent, and for the reserve.
Posted(r) ==
  IF registered[r] THEN Backing(r, InitialReserve[r]) - collateralNeeded[r] ELSE 0
HeldFor(r) == Backing(r, transferredBalances[r]) + Posted(r)
-----------------------------------------------------------------------------
\* Properties.

\* Every variable has its type; balances are never negative (checked subtractions in Solidity).
TypeOK ==
  /\ registered \in [Remotes -> BOOLEAN]
  /\ collateralNeeded \in [Remotes -> Nat]
  /\ transferredBalances \in [Remotes -> Nat]
  /\ homeBalance \in Nat
  /\ isRegistered \in [Remotes -> BOOLEAN]
  /\ isCollateralized \in [Remotes -> BOOLEAN]
  /\ circulating \in [Remotes -> Nat]
  /\ burnedTxFees \in [Remotes -> Nat]
  /\ latestBurnedFeesReported \in [Remotes -> Nat]
  /\ \A r \in Remotes : latestBurnedFeesReported[r] <= burnedTxFees[r]
  /\ toHome \in [DOMAIN toHome -> Nat \ {0}] /\ DOMAIN toHome \subseteq Registrations \cup TransfersFrom(Remotes)
  /\ toRemotes \in [DOMAIN toRemotes -> Nat \ {0}] /\ DOMAIN toRemotes \subseteq PayoutsTo(Remotes)

\* The home holds the tokens behind everything it has sent to remotes and behind their reserves,
\* whatever is rounded, hops further, falls back or is invented by contracts of other code
\* (_transferredBalances and collateralNeeded of TokenHome.sol against its token balance).
FullyBacked ==
  homeBalance >= Total([r \in Remotes |-> HeldFor(r)], Remotes)

\* The home's book on a remote is the remote's supply: what its holders have, what its chain burned
\* and did not report and what is under way either way is what the home sent plus the reserve.
Conserved ==
  \A r \in OurRemotes : Notes(r) = transferredBalances[r] + InitialReserve[r]

\* A remote that takes itself for collateralized, and so lets its holders send, is right: the home
\* has it registered and asks for no collateral (TokenRemote.sol, _receiveTeleporterMessage).
CollateralKnown ==
  \A r \in OurRemotes :
    isRegistered[r] \/ (isCollateralized[r] /\ InitialReserve[r] > 0)
      => registered[r] /\ collateralNeeded[r] = 0

\* No tokens get stuck: the home can execute, now, any transfer under way of a remote without a
\* reserve, and one of a remote with a reserve if it is for no more than the home sent there.
HomeAccepts ==
  \A m \in DOMAIN toHome :
    /\ m.from \in OurRemotes
    /\ m.messageType # "REGISTER_REMOTE"
    /\ InitialReserve[m.from] > 0 => Open(m.from) /\ m.amount <= transferredBalances[m.from]
    => /\ AcceptsTransfer(m)
       /\ HomeAmount(m) <= homeBalance
       /\ m.messageType = "MULTI_HOP" => CoversFee(m)

\* Together the contracts are a bridge: notes are issued, paid for and converted at the home only,
\* in one step, and sending, receiving and burning fees at a remote make and destroy none.  Of a
\* contract of other code only what the home's book says of it counts.
NotesOf(r) == IF r \in OurRemotes THEN Notes(r) ELSE transferredBalances[r] + InitialReserve[r]

Bridge ==
  INSTANCE TokenBridge WITH
    Careless <- ForeignRemotes,
    Reserve  <- InitialReserve,
    vault <- homeBalance,
    notes <- [r \in Remotes |-> NotesOf(r)],
    owed  <- collateralNeeded,
    known <- {r \in Remotes : registered[r]}
BridgeSpec == Bridge!Bridge

\* Once a remote is collateralized, tokens move in both directions: a transfer of its tokens under
\* way is covered by the home's book (ictt/README.md on native remotes).
MovesBothWays ==
  \A m \in DOMAIN toHome :
    m.messageType = "SINGLE_HOP" /\ m.from \in OurRemotes /\ Open(m.from)
      => m.amount <= transferredBalances[m.from]
=============================================================================
