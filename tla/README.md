# Verification of the ICM contracts and the Coqnet staking contract

TLA+ models of the contracts of this repository, model-checked with TLC, with proofs checked by
TLAPS. Paths are relative to `src/contracts` unless they start with `src/`.

## The system

| Component | State | Operations | Interacts with | Hard parts |
|---|---|---|---|---|
| `TeleporterMessenger` | nonce, info of unacknowledged messages, receipts to return, received and failed messages, rewards | send, retry send, add fee, receive, retry execution, send receipts, redeem | warp precompile, relayers, fee tokens, destination contracts | re-entrancy from tokens and destinations, at-most-once delivery, receipts, signatures lost to validator churn |
| `ReceiptQueue` | mapping with head and tail | enqueue, take a batch | `TeleporterMessenger` | indices |
| `ValidatorManager` | validations, registered nodes, pending messages, churn tracker | register, resend, complete, end | P-Chain, by messages in both directions | lost messages, expiry racing registration, churn limits, ID reuse |
| `PoAValidatorManager` | none of its own | register, end, complete, by the owner | the upgrade to the staking contract | registrations and ends under way at the upgrade |
| `PoSValidatorManager` | owners, uptimes, rewards, recipients | stake, uptime proof, end, claim | staked token, uptime messages | stake and reward paid once |
| `CoqnetERC20TokenStakingManager` | epochs with five places each, last validation of each owner | the above through epochs | registrars | eviction racing an end, ends across epochs |
| `RewardsCalculator` | none | reward of a validation | | caps and thresholds |
| Token home (`ictt/TokenHome`) | registered remotes, collateral they need, balances transferred to them | register, add collateral, send, route a second hop, pay out | `TeleporterMessenger` | backing of remote tokens, rounding, failed hops |
| Token remote (`ictt/TokenRemote`) | registration, collateralization, supply, burned fees | register, send, receive, report burned fees | `TeleporterMessenger` | messages out of order, reserve of native remotes, wrong settings |
| `TeleporterRegistry` | versions and messengers, each mapped to the other | add version | warp precompile | versions out of order, versions used up |
| `TeleporterRegistryApp` | least version, paused messengers | raise the least version, pause, unpause, send, receive | registry, its owner | upgrades with messages in flight |
| `ValidatorSetSig` | nonce per target | execute a signed call | any contract | calls late, again, failing |
| `ERC20TokenStakingManager`, `NativeTokenStakingManager` | settings written by `initialize` | stake and end by anybody, without epochs | the upgrade from authority; owners that are contracts | an owner who refuses its stake, transactions between upgrade and `initialize` |
| Go code (`src/cmd`, `src/utils`, `src/abi-bindings`) | none | decoding, bindings, deployment, tests | | |

What makes each correct: a messenger holds what it owes, delivers once and acknowledges only what
was delivered; a queue is a FIFO queue; a validator manager agrees with the P-Chain, returns every
stake once to its owner and pays a reward at most once, only to validations that kept their place;
an L1 gets through the conversion from authority to stake with what was under way; tokens at the
remotes are backed by the home and none is made or lost on the way; an app hears the answers to what
it sends, and allows what its validators decided. `PROJECT.json` lists every component with its
status, and the hazards each property is aimed at.

## Modules

`TeleporterMessenger.tla` models the contract on a set of chains. `ledger[c]` is the storage of chain
`c` (`sentMessageInfo`, `receiptQueues`, ... named as in the code) with the balances that fee tokens
keep for it. A blockchain runs one transaction at a time and its messages reach validators when the
block is accepted, so a transaction is a stack `tx` of open external calls. A function without an
external call is one step; one that calls a fee token or a destination contract is split there, and
whatever the callee may do (call any function of the messenger, return, revert) happens in between.
`redeemRelayerRewards` is split as well: the reward is zeroed before the token is called
(`RewardZeroed`) and counts as paid when the call returns, and no guard keeps the token out of it.
A frame keeps what the code has in memory and the storage to restore on a revert; re-entrancy guards
are read off the stack. Interleaving transactions of different chains is left out while one is open,
as chains share no state. `emitted` is the log of warp messages, `signable` those that still have
enough signatures: `ValidatorChurn` removes one and `RetrySendCrossChainMessage` restores it.
Hashes stand for what is hashed, payloads for whether there is one, gas for the choice of a call to
fail. Fee tokens credit anything from nothing to the amount asked for. A receipt in a batch is
processed with the others of its message at once; only the first for a message counts, as in the
loop of the code. `MessageChannel.tla` is the abstract promise to applications: a message is executed
at most once, after it was sent, and kept while its execution has failed. One of its steps is a whole
transaction: the refinement looks at the storage that the transaction in progress started from
(`Settled`), as all that follows may be reverted.

`ReceiptQueue.tla` models the library with its mapping and indices, `ReceiptFIFO.tla` is the
abstract queue it implements. `TeleporterMessenger` uses sequences, which that refinement justifies.

`ValidatorManager.tla`, `PoSValidatorManager.tla` and `CoqnetStakingManager.tla` extend each other
as the contracts inherit: an internal function is an operator over the variables of its module, an
overridden one takes what the override changes as an argument (`InitializeEndValidation(id,
endedAt)`). A transaction is a step, as entry points that call the token are `nonReentrant` and the
staked token calls nobody. A validation ID is the record of the hashed registration contents that
the models tell apart, so equal registrations share an ID, and a later one overwrites the entries of an
earlier one that is over. `history` counts the events that tell these apart: how often an ID was
registered and how often the registration was invalidated. The P-Chain is external: it registers an
ID once before its expiry, removes it on a weight message, and signs what it knows; a signed answer
stays usable. Time is a bounded clock. The amount of a reward is computed as in `RewardsCalculator`.
`StakeEscrow.tla` is the abstract promise about stakes: what was paid in is kept and goes back once,
to its owner, less a remainder below one unit of weight.

`PoAValidatorManager.tla` adds the entry points of the owner to `ValidatorManager`, and
`TokenStakingManager.tla` those of `NativeTokenStakingManager` to `PoSValidatorManager`: no epochs
and no registrars, and a stake that goes back by a call to its owner. The accounts of `Refusing` are
contracts that take no native tokens: `completeEndValidation` reverts for them, as a whole. Without
them the contract behaves as `ERC20TokenStakingManager`. `ValidatorManagerUpgrade.tla` composes
these with the Coqnet contract over the same storage: a proxy that runs the authority's
implementation and then one of two others, the Coqnet contract, initialized by the upgrade itself
(`coqnet/script/PoaToPos.s.sol`), or the one for native tokens, which is upgraded with empty data
and initialized later (`src/tests/flows/validator-manager/poa_to_pos.go:157`). In between it has no
settings, so nobody can stake, while what the authority began is completed. The authority and the
stakers may register the contents of an earlier registration again.

`TokenTransfer.tla` models a home and its remotes over the messenger. What the messenger promises
(`MessageChannel`: each message executed at most once, in any order, later if it failed) is a bag of
messages under way: an execution that reverts leaves its message there. Holders at a remote are
taken together, so a send and a call, a transfer and its fallback, a wrapped token and an unwrapped
one differ in nothing that is counted. Remotes are native ones with a reserve, ERC20 ones, ones that
were told wrong decimals of the home token, and registered contracts of other code, which send what
they like.
`TokenScaling.tla` is `TokenScalingUtils` with any base instead of ten. `TokenBridge.tla` is the
abstract promise: notes are issued only when tokens are locked for them and redeemed only for what
they are worth.

`TeleporterRegistry.tla` and `ValidatorSetSig.tla` model those contracts, and
`TeleporterRegistryApp.tla` composes them: apps that are owned by a `ValidatorSetSig`, so that their
least version and their pauses are set by signed calls, which anybody presents, late, again or out of
order, and of which some fail. Sending and receiving change nothing in an app; `CanSend` and
`Receives` say when they succeed.

`Sums.tla` defines the sum of a function over a finite set as the number of its units, a cardinality:
its laws (`SumProofs.tla`) then follow from those of finite sets, where a fold would need induction.

The modules whose names end in `Proofs` hold the theorems and extend the modules they are about;
those that start with `MC` give constants their values for TLC. Definitions that a comment marks as
"Mutant" are never used by the models: each is a plausible mistake that the property named in
`PROJECT.json` detects.

## Runs

| Run | What it shows | Bounds |
|---|---|---|
| `teleporter` | `Solvent`, `ExactlyOneOutcome`, `AcknowledgedOnlyIfReceived`, `RewardsMatchReceipts`, `NoReceiptLost`, `FeeTargetPending`, `ChannelSpec` | two chains, two messages one way with fees of 2 raised once, one back without a fee, batches of one receipt, one named receipt, a re-entrant token, a foreign warp message |
| `teleporter_liveness` | messages are received and acknowledged | one message each way without fees, churn on both chains |
| `teleporter_zero_address` | a divergence: the zero reward address is accepted | as `teleporter`, without fees and re-entrant token |
| `receipt_queue` | the queue implements a FIFO queue | batches of two, six receipts |
| `staking` | stakes go back once but for dust, rewards, weights, agreement with the P-Chain, places per owner, with IDs that are used again | three registrations, two nodes, two owners and the zero address, one place, epochs of two units, four units of time, minimum duration 1 and expiry up to 3 ahead |
| `staking_epochs` | epoch lists, evictions, with IDs that are used again | three nodes, three owners, two places, three registrations, four units of time, minimum duration 1 and expiry up to 2 ahead |
| `staking_epoch_end`, `staking_consecutive` | two divergences from `coqnet/doc/validatorManagerEpochs.md` | one place, epochs of two units, six units of time, no ID used again |
| `stake_upgrade` | registrations settle and ends complete although messages are lost, before, across and after the upgrade, to either contract | two initial validators (one larger than the churn of a period), two registrations in all, by the authority or by stakers (two, one of whom refuses native tokens, and the zero address), also of one ID, three units of time |
| `token_transfer` | backing, conservation, order of messages, the bridge | four remotes (native with a reserve, ERC20 with fewer decimals, misled, foreign), amounts to 3, four tokens at the home, two messages under way |
| `token_reserve` | a divergence from `ictt/README.md` | as `token_transfer`, two remotes |
| `governed_upgrade` | registry and apps agree, apps hear answers, decisions take effect once and in order | two messengers, four versions (increments of two), two apps, three decisions each |

Two messages one way are the fewest with which a receipt waits in the queue while another is sent;
one back carries receipts, and with it every nesting of send, delivery, retry, fee increase and
redemption on one chain occurs: the chain that pays the fees also receives and executes a message. Three registrations are the fewest with which an evicted owner returns, or with
which the list of two places overflows, and enough for one ID to be used three times or to pass from
one owner to another and back. Time bounds let a validation outlast its epoch. The stake of 3 at a
factor of 2 leaves dust. In `stake_upgrade` the authority may register a node, end it and register
the same contents again before the first registration expires, all before the upgrade or around it,
or a staker registers them. Two messages under way are the fewest that overtake each other (a registration, a payout, a report of
burned fees); a base of two makes one decimal a factor of two, so that amounts to 3 are rounded in
both directions and to zero; the reserve of the native remote is no multiple of it. Four versions
with increments of two let a version come in late, below the latest, and let a messenger be
registered again; three decisions are a pause between two others. Two apps show that nonces are kept
apart. Deadlock is not checked where a bound on messages, versions or time ends the behaviours.

The contract asks only that the minimum stake duration be no shorter than the churn period. The
deployment scripts set it to 61 seconds (`coqnet/script/PoaToPos.s.sol:28`,
`coqnet/script/mainnet/PoaToPos.s.sol:29`), much less than the two days that a registration may wait,
while the documentation's example is 20 days. `staking` and `staking_epochs` have it shorter than the
expiry, so that a validation can end and its contents be registered again before they expire; no
theorem assumes anything about the order of these durations.

## Fairness

`teleporter_liveness`: calls return (a transaction has finite gas: weak fairness of `CallReturns`);
relayers and senders submit transactions of their own until one is included, while those of other
chains come in between (strong fairness of a delivery and of a re-send at the top level, the latter
because churn may come again and again). `stake_upgrade`: blocks are made, anybody may submit the
P-Chain's answers and a resend, to any implementation (weak fairness), and the P-Chain takes a
removal that is again and again signed (strong fairness). An owner who refuses its stake keeps its
own validation from ending, so the properties leave it out: nothing obliges it to take the stake. No
fairness is assumed of ending a validation, of registering, of upgrading or initializing, of
redeeming or of executing a failed message.

## Proofs

All theorems hold for every value of the constants that satisfies the named assumptions of the
modules.

| Module | Theorems | Argument |
|---|---|---|
| `ReceiptQueueProofs` | `SlotsInUseInvariant`, `Refinement`: the queue implements `ReceiptFIFO` | the mapping holds a receipt exactly from head to tail, so a slot is never read before it is written nor after it is deleted |
| `TeleporterMessengerProofs` | `Invariance`, `TypeCorrect` (`TypeOK`), `Solvency` (`Solvent`), `OutcomeOnce` (`ExactlyOneOutcome`), `Acknowledgment` (`AcknowledgedOnlyIfReceived`), `RewardsExact` (`RewardsMatchReceipts`), `ReceiptsKept` (`NoReceiptLost`), `FeeTarget` (`FeeTargetPending`), `ChannelImplemented` (`ChannelSpec`) | `Inv`, and for the channel `Rising`, below |
| `ValidatorManagerProofs` | lemmas about whatever inherits from `PoSValidatorManager`, with a lemma for each operation: `StakingStepKeeps` (the invariant), `StakingStepKeepsManager` (`ManagerInv`), `NodesAreUnique`, `StakingStepIsEscrow`, `StakingStepKeepsBacked`, `StakingStepKeepsWeights`, `StakingStepKeepsEarnings` | `StakingInv`, `ManagerInv` and `StakingStep`, below |
| `CoqnetStakingProofs` | `Invariance`, `TypeCorrect` (`TypeOK`), `NodeUniqueness` (`OneValidationPerNode`), `AgreementWithPChain` (`AgreesWithPChain`), `StakesInEscrow` (`EscrowSpec`), `StakesBacked` (`StakeBacked`), `StakesPayable`, `WeightInvariance`, `TotalWeightExact` (`TotalWeightAccounted`), `EpochInvariance`, `ListsSound` (`EpochListsSound`), `OnePlace` (`OnePlacePerOwner`), `PlacesKept` (`PlacesLostOnlyByInactive`), `EarningsInvariance`, `EarnedOnce` (`RewardsEarned`), `PlacesEarn` (`OnlyPlacesEarn`) | `Inv`, that is `ManagerInv`, `StakingInv` and the types of epochs; `EpochInv`, `WeightsAccounted` and `EarningsInv` on top of it |
| `ValidatorManagerUpgradeProofs` | `UpgradeInvariance`, `UpgradeTypes`, `UpgradeKeepsNodesUnique` (`OneValidationPerNode`), `UpgradeKeepsEscrow` (`EscrowSpec`), `UpgradeKeepsStakesBacked` (`StakeBacked`), `UpgradeKeepsStakesPayable`, `UpgradeKeepsEarnings` (`RewardsEarned`), `UpgradeKeepsAgreement` (`AgreesWithPChain`), `UpgradeKeepsWeights`, `UpgradeKeepsTotalWeight` (`TotalWeightAccounted`), `UpgradeKeepsEndsCovered`, `NothingStakedBefore` | `UpgradeInv`, below |
| `SumProofs` | lemmas: a sum over a set with one member more or less, one value changed, sums compared | the units of a sum are a finite set |
| `TokenTransferProofs` | `Invariance`, `TypeCorrect` (`TypeOK`), `Backed` (`FullyBacked`), `Conservation` (`Conserved`), `CollateralKnowledge` (`CollateralKnown`), `AcceptedAtHome` (`HomeAccepts`), `Refinement` (`BridgeSpec`) | `Inv` and `HopsOn`, below |
| `TeleporterRegistryProofs` | `Invariance`, `TypeCorrect` (`TypeOK`), `Agreement` (`MappingsAgree`), `NotExhausted` (`VersionsNotExhausted`), `Heard` (`AnswersHeard`), `Decided` (`AsDecided`), `OldCutOff` (`CutOff`) | `Inv`, below |

`Inv` of the messenger speaks of every storage that a chain may have: that of each chain, and the
one that each open call would restore if it reverted, in the state in which that revert would leave
the stack. `Good` says what a sound storage is. Beyond the properties it has `Numbered` (a nonce is
used once, and each message sent has its info or its receipt), `Recorded` (a receipt, waiting or
carried, names the relayer that was recorded) and `FromLog` (what was received was sent). Three
parameters make it inductive in the middle of a transaction: `sending`, the messages that have a
nonce and receipts but no fee yet; `open`, the message being executed, which has no outcome in the
storage that its failure restores; and `Payable`, that a fee being transferred is measured from a
balance that still covers all that is owed (`before`). The last is what the guards are for: between
reading the balance and storing the difference a callee may redeem rewards, or deliver a message and
so turn fees into rewards, neither of which raises what is owed; a second send would. A redemption whose
transfer is under way stays owed until it returns (`BeingRedeemed`): a callback from it finds the
reward zeroed, and the balance still covers it and all else.
`FeeTargetPending` follows from `receiverNonReentrant` on `addFeeAmount`, as its message cannot be
acknowledged meanwhile. Each function has a lemma on its storage (`StoreSound`, `MarkSound`,
`ReceivedSound`, ...), one on the stack (`SendSound`, ..., `RedeemRewardsSound`), and `SettleSound`
is about the end of a call and of the transaction.

`ChannelImplemented` adds `Rising`: every storage that the transaction in progress may end in, that of
the chain and those that the open calls would restore, has received and executed what the one it
started from had (`Advances`). Each function is a `CallStep`: it leaves the stack alone, opens a call
on it or ends one. While calls are open nothing settles (`CallStepStays`); when the last ends, the
storage before and the one after have one outcome for each message (`OneOutcome`) and the later one
has received no less (`CallStepEnds`), so a message can only go from sent to executed or failed, and
from failed to executed (`OutcomeMoves`).

What a staking contract may do is `StakingStep`: a step of the manager, a registration with an owner
or without, an end of either kind, an acknowledgment, a proof of uptime, a change of the recipient or
a claim, with any arguments. The contracts differ in who may do it when and in the epochs, so the
lemmas of `ValidatorManagerProofs` are about `StakingStep` and `StakingInv`, and each contract only
has to show that its steps are such (`NextIsStaking`, `NativeIsStaking`, `AuthorityIsStaking`).
`StakingInv` holds with IDs that are used again: beside types it has `NodesRegistered` and
`NothingBefore` (below), `LocksSound` (a stake was divided down to the weight it is kept for) and
`OwnedEntries` (only validations with an owner have entries for rewards, and those not yet withdrawn
belong to a validation that is being ended). An ID is registered again only when it is over, and then
what was earned with it was paid, so that nothing is lost or counted twice.

`UpgradeInv` adds that `TakesNoStakes`, an authority or a contract without settings, leaves the
storage of the staking contracts as it was (`StorageUntouched`), so that all of the authority's
validations are without an owner when the upgrade comes and stay so, and an end of one that a staking
contract acknowledges returns nothing. `EscrowSpec` and the others follow from the lemmas about
`StakingStep`.

`ManagerInv` is inductive where `AgreesWithPChain` alone is not. Its parts: `NodesRegistered` (the
registered validation of a node has not ended, and a validation that has not ended is the registered
one of its node), `NothingBefore` (nothing is registered before the initial validators are read),
`MessagesSound` (a message speaks of a validation, a removal of one that is being ended) and
`StatusesSound` (what each status says of the P-Chain). The last two set apart the IDs that were
registered more than once: an ID is free for a second registration only when it ended before it
expired, the P-Chain has removed it by then and registers no ID twice (`RegisteredAgainWhenRemoved`),
so it stays removed whatever the manager makes of it.

`EpochInv` adds `LastPlaces` to `OnePlacePerOwner`: a validation with a place is the last one of its
owner, or its epoch is before the previous one. `_checkRegistrationEpoch` looks at the last
validation only, and this is why that is enough. Places are those of the epoch that a validation
counts for (`OwnedPlaces`): an ID that is registered again counts for the later epoch, and its
entries on earlier lists for nobody. `MakeRoomKeeps` is the lemma about
`_checkActiveValidationIDs`: the list it returns lacks nothing but the first inactive validation of
the list before.

`WeightsAccounted`: the total weight is the sum over the validations that are pending or active, and
over all registrations that were invalidated, once for each time (`Lost`, from `history`), as
`_completeEndValidation` leaves their weight in the total. Each step changes one summand and the total
alike (`StakingStepKeepsWeights`). So the end of an active validation never takes off more than there
is (`UpgradeKeepsEndsCovered`).
`StakeBacked` compares the sum of stakes with the balance; `StakesPayable` is what follows for a single stake: it can be paid back. `EarningsInv`: what was
earned is within its bounds, with the uptime on record that the calculator asks for, and only those
earned that kept their place; an earner has ended and so is not inactive any more, which keeps its
place for good (`EarnersKeepTheirPlace`), unless its ID is registered again, which forgets what it
earned (`RegistrationForgets`).

`Inv` of the token bridge adds to the properties: `InTransit` (finitely many messages are under
way), `HomeKnows` (only remotes with the right decimals are registered, only open ones have been
sent anything, and what a remote takes for true of itself is) and `FeesCovered` (a message under way
is worth more at the home than the fee of its second hop). `Conserved` holds for each remote; the
home's balance is compared with the sum of what backs each book entry. The rounding is the core
(`BackingMultiply` and the lemmas after it): what comes back is paid out rounded down and takes at
least as much off the backing, which is rounded up.

`Refinement` maps the notes of the bridge to supply, burned tokens and messages under way; by
`Conserved` these are what the home's book says (`NotesAreBooked`), so every step of a remote is a
stutter and only the home's steps issue, redeem or convert notes. A second hop converts notes of one
remote into notes of another. Sent by another contract it may lead back to where it came from
(`BackAgain`): no more comes back than was sent, and the fee is covered by the backing of the rest.
`HopsOn` says that a remote of this code asks for no such hop, so none of them gives up notes for
nothing.

`Inv` of the governed upgrade adds `MinReached` to the properties: the least version of an app is one
that the registry reached. `AnswersHeard` follows, as the latest messenger has at least the latest
version.

Assumptions (types, ranges and the finiteness of sets of parameters, each evaluated by TLC on the
runs' values): `ReceiptCountAssumption`, `AddressAssumption`, `BoundAssumption`, `RelayerAssumption`
(finitely many relayers earn rewards) and `ForeignAssumption` (a foreign message is not from a
messenger); `QueueAssumption`; `ChurnAssumption`, `ClockAssumption`, `WeightAssumption`,
`StakeAssumption` (the minimum stake duration is at least the churn period, as `initialize` checks),
`RewardAssumption`, `EpochAssumption`, `AuthorityAssumption`; `BaseAssumption` (powers of the base are positive naturals, as
the provers do not know exponents), `RemoteAssumption`; `RefusingAssumption`; `RegistryAssumption`,
`SigAssumption`, `CallAssumption`. With `IsFiniteSet` of the accounts and of the initial validators
the sums are over finite sets.

Every invariant and action property of the runs `teleporter`, `receipt_queue`, `staking`,
`staking_epochs`, `token_transfer` and `governed_upgrade` is proved, and so are the four
refinements: `FIFOSpec`, `ChannelSpec`, `BridgeSpec`, and `EscrowSpec` both for the Coqnet contract and for the
converted L1. Only model-checked: liveness (`teleporter_liveness`, `EndEventuallyCompletes`,
`RegistrationSettles`), which is out of the prover's reach.

## Findings

* `receiveCrossChainMessage` accepts the zero reward address that its comment excludes.
* Validations do not always end with their epoch, and an evicted owner may register in consecutive
  epochs, both unlike `coqnet/doc/validatorManagerEpochs.md`.
* A native remote that is collateralized cannot send home more than was sent to it, so its initial
  reserve stays away: `addCollateral` does not count it as transferred. In the run two notes are sent
  to the remote first; then three go back against a book of two, and the home refuses the message until
  more was sent, unlike `ictt/README.md:72`. The tokens are burned and the message waits.

Met while modelling, without a run of their own:

* A node that is registered again with the same contents before the first registration expires gets the
  same validation ID ("The information that uniquely identifies an L1 validation period",
  `validator-manager/ValidatorMessages.sol:14`). With the 61 seconds of the deployment scripts a
  stake can be over in time for this, and under an authority, which has no minimum duration, any
  validation. The P-Chain, which registers an ID once, is done with it by then, but its earlier
  "registered" activates the new validation in the manager, and its earlier "removed" completes or
  invalidates it at once. No stake is lost or paid twice (`StakesInEscrow`, `UpgradeKeepsEscrow`); the
  new validation can be active, and be rewarded for its uptime proofs, without validating
  (`AgreesWithPChain` says so), and its ID stays on the list of the earlier epoch too
  (`EpochListsSound`). An invalidated ID leaves its weight in the total each time.
* A stake that is registered on behalf of the zero address
  (`coqnet/CoqnetERC20TokenStakingManager.sol:195-215` does not look at it; the tests at lines 268 and
  304 of `coqnet/test/CoqnetERC20TokenStakingManager.t.sol` do it) never goes back: its validation
  counts as one without an owner (`validator-manager/PoSValidatorManager.sol:609-614`), which the
  Coqnet contract lets nobody end, and when its registration expires `completeEndValidation` returns
  before the stake. The check for consecutive epochs does not see it either
  (`coqnet/CoqnetERC20TokenStakingManager.sol:228`). `StakeEscrow` calls such a stake forfeit.
* Of a stake that is not a multiple of the factor the remainder stays in the contract, as
  `validator-manager/README.md:71` says.
* A messenger that an app has cut off by its least version is heard again when the registry lists it
  again under a new version; `teleporter/registry/README.md:147` says that its messages "will never
  be able to be received". `CutOff` states the exact rule.
* The weight of a registration that expired stays in the churn tracker's total for ever
  (`_completeEndValidation` does not take it off); `TotalWeightAccounted` states it.
* A validation of the authority may be ended by anybody once the contract for ERC20 or native tokens
  runs (`EndUnownedValidation`): `validator-manager/PoSValidatorManager.sol:323` returns before it looks
  at the owner. The Coqnet contract refuses such ends altogether. The comment at
  `src/tests/flows/validator-manager/poa_to_pos.go:36` says "Attempt to delist previous PoA validator
  with wrong owner and check that it fails".

## Plan

The order of the work was: the messenger and the queue, staking with epochs, the token bridge, the
governed upgrade of messengers, the conversion from authority to stake, and the proofs along with
each, up to the conversion. All contracts with a protocol state are modelled.

## Not modelled

* Delegation, whose functions are empty in this repository.
* `ValidatorMessages` (byte packing), `ExampleRewardCalculator`, `WCOQ` (an ERC20), the generated Go
  bindings, the command line tool, deployment scripts and end-to-end tests: no protocol state of their
  own. All program logic of the repository is in the Solidity contracts, so the map names Solidity
  sources only: the Go files call contracts and keep nothing.
* `_maxValidators` and `_maxNodesPerValidator` are written and never read. `initializeBlockchainID` is
  a cache. A change of the churn settings by the upgrade is left out.
* The churn hazard without a property: that a validator larger than the churn of a period cannot be
  removed is what the limit is for.
* Gas, signatures and hashes are abstracted as described.
