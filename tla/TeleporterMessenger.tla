------------------------ MODULE TeleporterMessenger ------------------------
(***************************************************************************)
(* The TeleporterMessenger contracts of a set of chains, the warp messages *)
(* they exchange and the calls they make to contracts that may call back   *)
(* (contracts/teleporter/TeleporterMessenger.sol).                         *)
(*                                                                         *)
(* A blockchain runs one transaction at a time, and a transaction has no   *)
(* effect on another chain before it ends: it is a stack of open calls, tx.*)
(* A contract function without an external call is one step.  A function   *)
(* that calls a fee token or a destination contract is split at that call: *)
(* the frame it leaves on tx holds what the code keeps in memory, and what *)
(* the callee does before it returns are steps of their own.  A call that  *)
(* reverts restores the storage its frame saved.                           *)
(***************************************************************************)
EXTENDS Integers, Sequences, FiniteSets, Functions, FiniteSetsExt, Sums

CONSTANTS
  Chains,              \* blockchain IDs
  Relayers,            \* accounts that deliver messages and earn rewards
  NoAddress,           \* address(0)
  Assets,              \* ERC20 contracts that fees are paid in
  NoAsset,             \* address(0) as a fee token
  MaximumReceiptCount, \* ReceiptQueue._MAXIMUM_RECEIPT_COUNT
  HookingAssets,       \* the assets whose transfers call back other contracts
  ForeignMessages,     \* warp messages signed for contracts other than a TeleporterMessenger
  ChurningChains,      \* chains whose validator set changes
  Routes,              \* bound: the <<source, destination>> pairs of the applications
  FeeInfos,            \* bound: the fee infos that the callers of each chain offer
  AllowedRelayerLists, \* bound: the allowedRelayerAddresses that callers choose
  MaxNonce,            \* bound: the number of messages each chain sends
  MaxFee,              \* bound: the largest fee of a message
  MaxSpecified         \* bound: the receipts named in one sendSpecifiedReceipts

ASSUME ReceiptCountAssumption == MaximumReceiptCount \in Nat \ {0}
ASSUME AddressAssumption == NoAddress \notin Relayers /\ NoAsset \notin Assets
ASSUME BoundAssumption ==
  /\ MaxNonce \in [Chains -> Nat] /\ MaxFee \in Nat /\ MaxSpecified \in Nat
  /\ Routes \subseteq Chains \X Chains
  /\ AllowedRelayerLists \subseteq SUBSET Relayers
  /\ FeeInfos \in [Chains -> SUBSET [asset : Assets \cup {NoAsset}, amount : Nat]]
ASSUME RelayerAssumption == IsFiniteSet(Relayers)
ASSUME ForeignAssumption == \A w \in ForeignMessages : w.teleporter = FALSE

VARIABLES
  ledger,   \* [Chains -> what each chain stores, see EmptyLedger]
  tx,       \* the open external calls of the transaction in progress, innermost last
  emitted,  \* the warp messages in the logs of the chains
  signable  \* those that the validators of their source sign

vars == <<ledger, tx, emitted, signable>>

RewardAddresses == Relayers \cup {NoAddress}

\* The event log and the contract storage hold messages by ID and by hash: an ID stands for its
\* preimage, a hash for the message.
MessageID(source, destination, nonce) == <<source, destination, nonce>>

IDOf(source, msg) == MessageID(source, msg.destination, msg.nonce)

NoEntries == [id \in {} |-> id]

Put(f, id, value) == [x \in DOMAIN f \cup {id} |-> IF x = id THEN value ELSE f[x]]

Drop(f, ids) == Restrict(f, DOMAIN f \ ids)

\* The sum of the amounts that info records for some messages.
Fees(info, ids) == Total([id \in DOMAIN info |-> info[id].amount], ids)

(***************************************************************************)
(* The storage of one chain.  `balance' and `redeemed' are what the fee    *)
(* tokens record for the TeleporterMessenger and for the relayers,         *)
(* `executed' the calls of receiveTeleporterMessage that destination       *)
(* contracts have taken, `receiptsReceived' the ReceiptReceived events and *)
(* `outbox' the SendCrossChainMessage events of the current transaction.   *)
(***************************************************************************)
EmptyLedger ==
  [messageNonce |-> 0,
   receiptQueues |-> [s \in Chains |-> <<>>],
   sentMessageInfo |-> NoEntries,             \* ID -> [msg, asset, amount]
   receivedFailedMessageHashes |-> NoEntries, \* ID -> msg
   received |-> NoEntries,                    \* ID -> relayer reward address
   relayerRewardAmounts |-> [r \in RewardAddresses |-> [a \in Assets |-> 0]],
   balance |-> [a \in Assets |-> 0],
   redeemed |-> [r \in Relayers |-> [a \in Assets |-> 0]],
   executed |-> NoEntries,                    \* ID -> how often
   receiptsReceived |-> NoEntries,            \* ID -> [relayer, asset, amount]
   outbox |-> {}]

Init ==
  /\ ledger = [c \in Chains |-> EmptyLedger]
  /\ tx = <<>>
  /\ emitted = ForeignMessages
  /\ signable = ForeignMessages

----------------------------------------------------------------------------
(* Transactions, calls and reverts *)

Top == tx[Len(tx)]

Caller == SubSeq(tx, 1, Len(tx) - 1)

\* A call reaches the TeleporterMessenger of c from an account, or from the contract that the
\* open transaction is calling.
CanCall(c) ==
  tx # <<>> =>
    /\ Top.chain = c
    /\ Top.op \in {"send", "addFee", "redeem"} => Top.fee.asset \in HookingAssets

\* Mutant: receiverNonReentrant left out of addFeeAmount.
ReceiveEnteredByDeliveryOnly == \E i \in DOMAIN tx : tx[i].op \in {"execute", "retry"}

\* ReentrancyGuards: the flag that senderNonReentrant sets for the length of the call.
SendEntered == \E i \in DOMAIN tx : tx[i].op \in {"send", "addFee"}

\* ReentrancyGuards: the flag that receiverNonReentrant sets.
ReceiveEntered == \E i \in DOMAIN tx : tx[i].op \in {"execute", "retry", "addFee"}

\* The call ends with storage l of chain c and leaves the calls of stack open.  The messages of a
\* transaction reach the validators when its block is accepted.
Settle(c, l, stack) ==
  /\ tx' = stack
  /\ IF stack = <<>>
     THEN LET new == {[source |-> c, teleporter |-> TRUE, msg |-> m] : m \in l.outbox}
          IN /\ ledger' = [ledger EXCEPT ![c] = [l EXCEPT !.outbox = {}]]
             /\ emitted' = emitted \cup new
             /\ signable' = signable \cup new
     ELSE /\ ledger' = [ledger EXCEPT ![c] = l]
          /\ UNCHANGED <<emitted, signable>>

----------------------------------------------------------------------------
(* Sending *)

\* The state change that ends _sendTeleporterMessage: fee and hash are stored, the message logged.
StoreSent(l, c, msg, asset, amount) ==
  [l EXCEPT !.sentMessageInfo =
              Put(@, IDOf(c, msg), [msg |-> msg, asset |-> asset, amount |-> amount]),
            !.outbox = @ \cup {msg}]

\* _sendTeleporterMessage up to the transfer of the fee, from storage l.
SendTeleporterMessage(c, l, destination, payload, allowed, fee, receipts) ==
  LET msg == [nonce |-> l.messageNonce + 1, destination |-> destination, payload |-> payload,
              allowed |-> allowed, receipts |-> receipts]
      numbered == [l EXCEPT !.messageNonce = @ + 1]
  IN /\ msg.nonce <= MaxNonce[c]
     /\ IF fee.amount = 0
        THEN Settle(c, StoreSent(numbered, c, msg, fee.asset, 0), tx)
        ELSE /\ fee.asset \in Assets
             /\ Settle(c, numbered,
                       Append(tx, [op |-> "send", chain |-> c, saved |-> ledger[c], msg |-> msg,
                                   id |-> IDOf(c, msg), fee |-> fee,
                                   before |-> l.balance[fee.asset]]))

\* Mutant: a batch is always full, empty slots read as zero.
OutstandingWithEmptySlots(queue) ==
  [batch |-> [i \in 1 .. MaximumReceiptCount |->
                IF i \in DOMAIN queue THEN queue[i] ELSE [nonce |-> 0, relayer |-> NoAddress]],
   rest |-> [i \in 1 .. Len(queue) - MaximumReceiptCount |-> queue[i + MaximumReceiptCount]]]

\* Mutant: the batch loses the receipt after its last.
OutstandingDroppingOne(queue) ==
  LET size == IF Len(queue) < MaximumReceiptCount THEN Len(queue) ELSE MaximumReceiptCount
  IN [batch |-> SubSeq(queue, 1, size), rest |-> SubSeq(queue, size + 2, Len(queue))]

\* ReceiptQueue.getOutstandingReceiptsToSend: the receipts to send and the queue that remains.
OutstandingReceipts(queue) ==
  LET size == IF Len(queue) < MaximumReceiptCount THEN Len(queue) ELSE MaximumReceiptCount
  IN [batch |-> SubSeq(queue, 1, size), rest |-> SubSeq(queue, size + 1, Len(queue))]

SendCrossChainMessage(c, destination, payload, allowed, fee) ==
  LET out == OutstandingReceipts(ledger[c].receiptQueues[destination])
      l == [ledger[c] EXCEPT !.receiptQueues[destination] = out.rest]
  IN /\ CanCall(c)
     /\ ~SendEntered
     /\ SendTeleporterMessage(c, l, destination, payload, allowed, fee, out.batch)

\* sendSpecifiedReceipts: the receipts stay in the queue as well.
SendSpecifiedReceipts(c, source, ids, allowed, fee) ==
  LET l == ledger[c]
  IN /\ CanCall(c)
     /\ ~SendEntered
     /\ \A i \in DOMAIN ids : ids[i][1] = source
     /\ SendTeleporterMessage(c, l, source, FALSE, allowed, fee,
          [i \in DOMAIN ids |-> [nonce |-> ids[i][3], relayer |-> l.received[ids[i]]]])

\* Mutant: the event is logged, the warp precompile is not called.
RetrySendWithoutWarp(c, id) ==
  /\ CanCall(c)
  /\ ~SendEntered
  /\ id \in DOMAIN ledger[c].sentMessageInfo
  /\ Settle(c, ledger[c], tx)

\* retrySendCrossChainMessage: the validators are asked again for a message still unacknowledged.
RetrySendCrossChainMessage(c, id) ==
  /\ CanCall(c)
  /\ ~SendEntered
  /\ id \in DOMAIN ledger[c].sentMessageInfo
  /\ Settle(c, [ledger[c] EXCEPT !.outbox = @ \cup {ledger[c].sentMessageInfo[id].msg}], tx)

\* addFeeAmount up to the transfer of the fee.
AddFeeAmount(c, id, fee) ==
  LET l == ledger[c]
  IN /\ CanCall(c)
     /\ ~SendEntered
     /\ ~ReceiveEntered
     /\ fee.amount > 0
     /\ fee.asset \in Assets
     /\ id \in DOMAIN l.sentMessageInfo
     /\ l.sentMessageInfo[id].asset = fee.asset
     /\ l.sentMessageInfo[id].amount + fee.amount <= MaxFee
     /\ Settle(c, l, Append(tx, [op |-> "addFee", chain |-> c, saved |-> l, id |-> id, fee |-> fee,
                                 before |-> l.balance[fee.asset]]))

\* The token's transferFrom returns, with at most the amount credited (a token may keep a fee), and
\* the function that called it completes.
TransferReturns(c) ==
  /\ tx # <<>> /\ Top.chain = c
  /\ Top.op \in {"send", "addFee"}
  /\ \E credited \in 0 .. Top.fee.amount :
       LET asset == Top.fee.asset
           l == [ledger[c] EXCEPT !.balance[asset] = @ + credited]
           adjusted == l.balance[asset] - Top.before
       IN /\ adjusted > 0
          /\ Settle(c,
                    IF Top.op = "send"
                    THEN StoreSent(l, c, Top.msg, asset, adjusted)
                    ELSE [l EXCEPT !.sentMessageInfo[Top.id].amount = @ + adjusted],
                    Caller)

\* The token's transferFrom or transfer reverts, or a fee did not increase the balance: so does the
\* function that called it.
TransferReverts(c) ==
  /\ tx # <<>> /\ Top.chain = c
  /\ Top.op \in {"send", "addFee", "redeem"}
  /\ Settle(c, Top.saved, Caller)

----------------------------------------------------------------------------
(* Receiving *)

\* Mutant: the message ID is computed with source and destination swapped.
AcknowledgedSwapped(l, c, source, receipts) ==
  {id \in DOMAIN l.sentMessageInfo :
     \E i \in DOMAIN receipts : id = MessageID(source, c, receipts[i].nonce)}

\* The messages sent from c to source that the receipts acknowledge and c still holds.  A receipt
\* for a message that is not held is skipped, so of two receipts for one message the first counts.
Acknowledged(l, c, source, receipts) ==
  {id \in DOMAIN l.sentMessageInfo :
     \E i \in DOMAIN receipts : id = MessageID(c, source, receipts[i].nonce)}

CreditedRelayer(id, receipts) ==
  receipts[Min({i \in DOMAIN receipts : receipts[i].nonce = id[3]})].relayer

\* Mutant: the info of the message stays, and a second receipt pays its fee again.
MarkReceiptsKeepingInfo(l, c, source, receipts) ==
  LET ids == Acknowledged(l, c, source, receipts)
      Earned(r, a) == {id \in ids : /\ CreditedRelayer(id, receipts) = r
                                    /\ l.sentMessageInfo[id].asset = a}
  IN [l EXCEPT !.relayerRewardAmounts =
        [r \in RewardAddresses |-> [a \in Assets |->
           @[r][a] + Fees(l.sentMessageInfo, Earned(r, a))]]]

\* _markReceipt for each receipt of a message received on c from source.
MarkReceipts(l, c, source, receipts) ==
  LET ids == Acknowledged(l, c, source, receipts)
      info == l.sentMessageInfo
      Earned(r, a) == {id \in ids : CreditedRelayer(id, receipts) = r /\ info[id].asset = a}
  IN [l EXCEPT
        !.sentMessageInfo = Drop(@, ids),
        !.relayerRewardAmounts =
           [r \in RewardAddresses |-> [a \in Assets |->
              @[r][a] + Fees(info, Earned(r, a))]],
        !.receiptsReceived =
           [id \in DOMAIN @ \cup ids |->
              IF id \in ids
              THEN [relayer |-> CreditedRelayer(id, receipts), asset |-> info[id].asset,
                    amount |-> info[id].amount]
              ELSE @[id]]]

\* Mutant: a message counts as received once it has a reward address.
MarkReceivedIfRewarded(l, source, msg, id, deliverer, rewardAddress) ==
  [l EXCEPT !.received = IF rewardAddress = NoAddress THEN @ ELSE Put(@, id, rewardAddress),
            !.receiptQueues[source] = Append(@, [nonce |-> msg.nonce, relayer |-> rewardAddress])]

\* _markMessageReceived, the relayer's reward address and the receipt to be returned.
MarkReceived(l, source, msg, id, deliverer, rewardAddress) ==
  [l EXCEPT !.received = Put(@, id, rewardAddress),
            !.receiptQueues[source] = Append(@, [nonce |-> msg.nonce, relayer |-> rewardAddress])]

\* Mutant: a message is taken from any contract of the source chain.
VerifiedFromAnySender(c, w) == w \in signable /\ w.msg.destination = c

\* getVerifiedWarpMessage succeeds, the sender is a TeleporterMessenger and the message is for c.
Verified(c, w) == w \in signable /\ w.teleporter /\ w.msg.destination = c

IsAllowedRelayer(deliverer, allowed) == allowed = {} \/ deliverer \in allowed

\* _storeFailedMessageExecution
StoreFailed(l, id, msg) ==
  [l EXCEPT !.receivedFailedMessageHashes = Put(@, id, msg)]

\* How often a destination contract has taken a message.
Runs(l, id) == IF id \in DOMAIN l.executed THEN l.executed[id] ELSE 0

\* The destination contract's receiveTeleporterMessage is called, l is the storage at the call.
Execute(c, op, l, saved, id, msg) ==
  Settle(c, [l EXCEPT !.executed = Put(@, id, Runs(l, id) + 1)],
         Append(tx, [op |-> op, chain |-> c, saved |-> saved, id |-> id, msg |-> msg]))

\* receiveCrossChainMessage.  A destination without code fails at once; one with code is called.
ReceiveCrossChainMessage(c, w, deliverer, rewardAddress) ==
  LET id == IDOf(w.source, w.msg)
      marked == MarkReceipts(ledger[c], c, w.source, w.msg.receipts)
      l == MarkReceived(marked, w.source, w.msg, id, deliverer, rewardAddress)
  IN /\ CanCall(c)
     /\ ~ReceiveEntered
     /\ Verified(c, w)
     /\ id \notin DOMAIN ledger[c].received
     /\ IsAllowedRelayer(deliverer, w.msg.allowed)
     /\ w.msg.nonce # 0
     /\ IF w.msg.payload
        THEN \/ Settle(c, StoreFailed(l, id, w.msg), tx)
             \/ Execute(c, "execute", l, l, id, w.msg)
        ELSE Settle(c, l, tx)

\* Mutant: the failed hash is cleared after the call only.
ClearFailedTooLate(l, id) == l

\* retryMessageExecution clears the failed message before it calls the destination.
ClearFailed(l, id) ==
  [l EXCEPT !.receivedFailedMessageHashes = Drop(@, {id})]

RetryMessageExecution(c, id) ==
  LET l == ledger[c]
  IN /\ CanCall(c)
     /\ ~ReceiveEntered
     /\ id \in DOMAIN l.receivedFailedMessageHashes
     /\ Execute(c, "retry", ClearFailed(l, id), l, id, l.receivedFailedMessageHashes[id])

\* The destination contract returns.
ExecutionSucceeds(c) ==
  /\ tx # <<>> /\ Top.chain = c
  /\ Top.op \in {"execute", "retry"}
  /\ Settle(c, ledger[c], Caller)

\* The destination contract reverts or runs out of gas: the initial delivery stores the failure, a
\* retry reverts as a whole.
ExecutionFails(c) ==
  /\ tx # <<>> /\ Top.chain = c
  /\ Top.op \in {"execute", "retry"}
  /\ Settle(c,
            IF Top.op = "execute" THEN StoreFailed(Top.saved, Top.id, Top.msg) ELSE Top.saved,
            Caller)

\* Mutant: the reward is still there while the token is called.
RewardStillThere(l, relayer, asset) == l

\* redeemRelayerRewards zeroes the reward before it calls the token.
RewardZeroed(l, relayer, asset) == [l EXCEPT !.relayerRewardAmounts[relayer][asset] = 0]

\* redeemRelayerRewards up to the transfer of the reward.  No reentrancy guard: a fee token or a
\* destination contract may call it, also while another redemption is open.
RedeemRelayerRewards(c, relayer, asset) ==
  LET l == ledger[c]
      reward == l.relayerRewardAmounts[relayer][asset]
  IN /\ CanCall(c)
     /\ reward > 0
     /\ Settle(c, RewardZeroed(l, relayer, asset),
               Append(tx, [op |-> "redeem", chain |-> c, saved |-> l, relayer |-> relayer,
                           fee |-> [asset |-> asset, amount |-> reward]]))

\* The token's transfer returns, with the reward paid (what the relayer is credited, the messenger
\* does not ask).  A token may move its balances before it calls others or after: their calls only
\* compare balances that they read themselves, so it makes no difference to them.
RedeemReturns(c) ==
  /\ tx # <<>> /\ Top.chain = c
  /\ Top.op = "redeem"
  /\ LET asset == Top.fee.asset
     IN /\ ledger[c].balance[asset] >= Top.fee.amount
        /\ Settle(c, [ledger[c] EXCEPT !.balance[asset] = @ - Top.fee.amount,
                                       !.redeemed[Top.relayer][asset] = @ + Top.fee.amount],
                  Caller)

\* The validator set of the source changes: the weight behind a signed message no longer suffices.
ValidatorChurn(w) ==
  /\ tx = <<>>
  /\ w \in signable
  /\ w.source \in ChurningChains
  /\ signable' = signable \ {w}
  /\ UNCHANGED <<ledger, tx, emitted>>

----------------------------------------------------------------------------

Sends(c) ==
  \E d \in Chains, payload \in BOOLEAN, allowed \in AllowedRelayerLists, fee \in FeeInfos[c] :
    /\ <<c, d>> \in Routes
    /\ SendCrossChainMessage(c, d, payload, allowed, fee)

SendsReceipts(c) ==
  \E s \in Chains, n \in 0 .. MaxSpecified, allowed \in AllowedRelayerLists, fee \in FeeInfos[c] :
    \E ids \in [1 .. n -> DOMAIN ledger[c].received] :
      SendSpecifiedReceipts(c, s, ids, allowed, fee)

Receives(c, source, nonce) ==
  \E w \in signable, deliverer \in Relayers, rewardAddress \in RewardAddresses :
    /\ w.source = source
    /\ w.msg.nonce = nonce
    /\ ReceiveCrossChainMessage(c, w, deliverer, rewardAddress)

CallReturns(c) ==
  \/ TransferReturns(c)
  \/ RedeemReturns(c)
  \/ TransferReverts(c)
  \/ ExecutionSucceeds(c)
  \/ ExecutionFails(c)

Next ==
  \/ \E c \in Chains :
       \/ Sends(c)
       \/ SendsReceipts(c)
       \/ \E id \in DOMAIN ledger[c].sentMessageInfo : RetrySendCrossChainMessage(c, id)
       \/ \E id \in DOMAIN ledger[c].sentMessageInfo, fee \in FeeInfos[c] : AddFeeAmount(c, id, fee)
       \/ \E s \in Chains : \E n \in 1 .. MaxNonce[s] : Receives(c, s, n)
       \/ \E id \in DOMAIN ledger[c].receivedFailedMessageHashes : RetryMessageExecution(c, id)
       \/ \E r \in Relayers, a \in Assets : RedeemRelayerRewards(c, r, a)
       \/ CallReturns(c)
  \/ \E w \in signable : ValidatorChurn(w)

Spec == Init /\ [][Next]_vars

\* Transactions end, relayers deliver what the validators sign, and senders ask again for what they
\* no longer sign.  Both submit transactions of their own (a call inside the transaction of a
\* contract may be reverted with it), again and again until one is included in a block: strong
\* fairness, as the transactions of other chains come in between.
Fairness ==
  /\ \A c \in Chains : WF_vars(CallReturns(c))
  /\ \A s, d \in Chains : \A n \in 1 .. MaxNonce[s] :
       /\ SF_vars(tx = <<>> /\ Receives(d, s, n))
       /\ SF_vars(tx = <<>> /\ RetrySendCrossChainMessage(s, MessageID(s, d, n)))

FairSpec == Spec /\ Fairness

----------------------------------------------------------------------------
(* Properties *)

Nonces == Nat \ {0}

Receipts == Seq([nonce : Nonces, relayer : RewardAddresses])

Messages == [nonce : Nonces, destination : Chains, payload : BOOLEAN, allowed : SUBSET Relayers,
             receipts : Receipts]

\* The record l has the fields of a ledger, with values of their types.
IsLedger(l) ==
  /\ l = [messageNonce |-> l.messageNonce, receiptQueues |-> l.receiptQueues,
          sentMessageInfo |-> l.sentMessageInfo,
          receivedFailedMessageHashes |-> l.receivedFailedMessageHashes,
          received |-> l.received, relayerRewardAmounts |-> l.relayerRewardAmounts,
          balance |-> l.balance, redeemed |-> l.redeemed, executed |-> l.executed,
          receiptsReceived |-> l.receiptsReceived, outbox |-> l.outbox]
  /\ l.messageNonce \in Nat
  /\ l.receiptQueues \in [Chains -> Receipts]
  /\ l.sentMessageInfo \in [DOMAIN l.sentMessageInfo ->
                             [msg : Messages, asset : Assets \cup {NoAsset}, amount : Nat]]
  /\ l.receivedFailedMessageHashes \in [DOMAIN l.receivedFailedMessageHashes -> Messages]
  /\ l.received \in [DOMAIN l.received -> RewardAddresses]
  /\ l.relayerRewardAmounts \in [RewardAddresses -> [Assets -> Nat]]
  /\ l.balance \in [Assets -> Nat]
  /\ l.redeemed \in [Relayers -> [Assets -> Nat]]
  /\ l.executed \in [DOMAIN l.executed -> Nat]
  /\ l.receiptsReceived \in [DOMAIN l.receiptsReceived ->
                              [relayer : RewardAddresses, asset : Assets \cup {NoAsset}, amount : Nat]]
  /\ l.outbox \subseteq Messages

\* Types of the storage of each chain, the storage saved for reverts included.
TypeOK ==
  /\ \A c \in Chains : IsLedger(ledger[c])
  /\ \A i \in DOMAIN tx : tx[i].chain \in Chains /\ IsLedger(tx[i].saved)
  /\ signable \subseteq emitted

FeesHeld(l, a) ==
  Fees(l.sentMessageInfo, {id \in DOMAIN l.sentMessageInfo : l.sentMessageInfo[id].asset = a})

RewardsHeld(l, a) ==
  Total([r \in RewardAddresses |-> l.relayerRewardAmounts[r][a]], RewardAddresses)

\* The open transfers of redeemed rewards, and what they are to pay.
Redemptions(t, c) == {i \in DOMAIN t : t[i].op = "redeem" /\ t[i].chain = c}

Redeeming(t, ids) == Total([i \in DOMAIN t |-> IF t[i].op = "redeem" THEN t[i].fee.amount ELSE 0], ids)

BeingRedeemed(t, c, a) == Redeeming(t, {i \in Redemptions(t, c) : t[i].fee.asset = a})

BeingRedeemedBy(t, c, r, a) ==
  Redeeming(t, {i \in Redemptions(t, c) : t[i].relayer = r /\ t[i].fee.asset = a})

\* The contract holds the fees of the messages not yet acknowledged, the rewards not yet redeemed
\* and those that the token is being asked to pay, whatever a fee token or a destination contract
\* calls while it is being called: a callback that redeems again finds the reward gone.
Solvent ==
  \A c \in Chains, a \in Assets :
    ledger[c].balance[a]
      >= FeesHeld(ledger[c], a) + RewardsHeld(ledger[c], a) + BeingRedeemed(tx, c, a)

\* A message with a payload that was received has either failed and can be retried, or has been
\* executed once; no other message is executed or retried.  (Replay protection of
\* receiveCrossChainMessage and retryMessageExecution.)
ExactlyOneOutcome ==
  \A w \in emitted : w.teleporter =>
    LET id == IDOf(w.source, w.msg)
        l == ledger[w.msg.destination]
        failures == IF id \in DOMAIN l.receivedFailedMessageHashes THEN 1 ELSE 0
    IN Runs(l, id) + failures = IF w.msg.payload /\ id \in DOMAIN l.received THEN 1 ELSE 0

\* A message stops being retryable on its source (its info is deleted) only when it has been
\* received on its destination, and the relayer paid is the one the destination recorded.
AcknowledgedOnlyIfReceived ==
  \A w \in emitted : w.teleporter =>
    LET id == IDOf(w.source, w.msg)
        source == ledger[w.source]
        destination == ledger[w.msg.destination]
    IN \/ id \in DOMAIN source.sentMessageInfo
       \/ /\ id \in DOMAIN destination.received
          /\ id \in DOMAIN source.receiptsReceived
          /\ source.receiptsReceived[id].relayer = destination.received[id]

\* What a relayer has been paid, is being paid and may still redeem is the sum of the fees of the
\* messages whose receipts name it, also inside a call of the token that pays it.
RewardsMatchReceipts ==
  \A c \in Chains, r \in Relayers, a \in Assets :
    LET events == ledger[c].receiptsReceived
        earned == {id \in DOMAIN events : events[id].relayer = r /\ events[id].asset = a}
    IN ledger[c].relayerRewardAmounts[r][a] + ledger[c].redeemed[r][a] + BeingRedeemedBy(tx, c, r, a)
         = Fees(events, earned)

\* The receipt of a received message waits in the queue or is in a message to its source: neither a
\* failed send nor a failed execution loses it.
NoReceiptLost ==
  \A w \in emitted : w.teleporter =>
    LET d == w.msg.destination
        id == IDOf(w.source, w.msg)
        l == ledger[d]
        sending == {tx[i].msg : i \in {j \in DOMAIN tx : tx[j].op = "send" /\ tx[j].chain = d}}
        sent == {v.msg : v \in {u \in emitted : u.teleporter /\ u.source = d}}
        carried == {m \in sent \cup l.outbox \cup sending : m.destination = w.source}
        receipt == [nonce |-> w.msg.nonce, relayer |-> l.received[id]]
    IN id \in DOMAIN l.received =>
         \/ receipt \in Range(l.receiptQueues[w.source])
         \/ \E m \in carried : receipt \in Range(m.receipts)

\* While the token transfer of addFeeAmount runs, the message it pays for is not acknowledged: the
\* added fee always goes to a relayer.
FeeTargetPending ==
  \A i \in DOMAIN tx :
    tx[i].op = "addFee" => tx[i].id \in DOMAIN ledger[tx[i].chain].sentMessageInfo

\* What the other chains and the next transactions will know of chain c: the effects of the
\* transaction in progress may still be reverted.
Settled(c) == IF tx # <<>> /\ tx[1].chain = c THEN tx[1].saved ELSE ledger[c]

SentIDs == {IDOf(w.source, w.msg) : w \in {u \in emitted : u.teleporter}}

Channels == INSTANCE MessageChannel WITH
  executions <- [id \in SentIDs |-> Runs(Settled(id[2]), id)],
  failed <- {id \in SentIDs : id \in DOMAIN Settled(id[2]).receivedFailedMessageHashes}

\* The messengers keep what they promise to applications: a message is executed at most once, only
\* after it was sent, and one whose execution failed stays until it has been executed, whatever
\* calls nest in a transaction and whichever of them revert.
ChannelSpec == Channels!Channel

\* The comment on receiveCrossChainMessage (line 239): the reward address is not the zero address.
RewardAddressNotZero ==
  \A c \in Chains : NoAddress \notin Range(ledger[c].received)

\* Every message is eventually received, whatever validator churn and failed calls come first.
EventuallyReceived ==
  \A s, d \in Chains : \A n \in 1 .. MaxNonce[s] :
    LET id == MessageID(s, d, n)
    IN (\E w \in emitted : w.teleporter /\ w.source = s /\ IDOf(s, w.msg) = id)
         ~> (id \in DOMAIN ledger[d].received)

\* Once a message that carries the receipt for another is sent, the other is acknowledged.
EventuallyAcknowledged ==
  \A s, d \in Chains : \A n \in 1 .. MaxNonce[s] :
    (\E w \in emitted : /\ w.teleporter /\ w.source = d /\ w.msg.destination = s
                        /\ n \in {receipt.nonce : receipt \in Range(w.msg.receipts)})
      ~> (MessageID(s, d, n) \notin DOMAIN ledger[s].sentMessageInfo)

=============================================================================
