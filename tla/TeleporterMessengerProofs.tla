---------------------- MODULE TeleporterMessengerProofs ----------------------
(***************************************************************************)
(* Theorems about TeleporterMessenger, for any chains, relayers, fee       *)
(* tokens, batch size and messages.                                        *)
(***************************************************************************)
EXTENDS TeleporterMessenger, SumProofs, SequenceTheorems, WellFoundedInduction

(***************************************************************************)
(* The invariant.  It speaks of every storage that the messenger may have: *)
(* those of the chains, and those that a revert of an open call would      *)
(* restore.  `log' are the warp messages, l is a storage of chain c,       *)
(* `sending' are the messages whose fees are being transferred, and `open' *)
(* holds the message that is being executed when its failure would restore *)
(* l.                                                                      *)
(***************************************************************************)
Warp(c, m) == [source |-> c, teleporter |-> TRUE, msg |-> m]

LogSound(log) ==
  \A w \in log : w.teleporter = FALSE \/ \E s \in Chains, m \in Messages : w = Warp(s, m)

Logged(log, c, l, m) == Warp(c, m) \in log \/ m \in l.outbox

\* Each message has a nonce of its own, and is either unacknowledged or has a receipt.
Numbered(log, c, l, sending) ==
  LET sent == DOMAIN l.sentMessageInfo
      done == DOMAIN l.receiptsReceived
  IN /\ IsFiniteSet(sent) /\ IsFiniteSet(done)
     /\ \A id \in sent : /\ id \notin done
                         /\ id = IDOf(c, l.sentMessageInfo[id].msg)
                         /\ Logged(log, c, l, l.sentMessageInfo[id].msg)
     /\ \A id \in done : id = MessageID(c, id[2], id[3]) /\ id[3] \in 1 .. l.messageNonce
     /\ \A m \in Messages : Logged(log, c, l, m) =>
          /\ m.nonce <= l.messageNonce
          /\ IDOf(c, m) \in sent \cup done
          /\ \A n \in Messages : Logged(log, c, l, n) /\ IDOf(c, n) = IDOf(c, m) => n = m
     /\ \A m \in sending : /\ m \in Messages
                           /\ m.nonce <= l.messageNonce
                           /\ IDOf(c, m) \notin sent \cup done

Owes(l, a) == FeesHeld(l, a) + RewardsHeld(l, a)

\* What the open redemptions are to pay, per fee token and per relayer.
IsDue(due) == due.all \in [Assets -> Nat] /\ due.by \in [Relayers -> [Assets -> Nat]]

Covered(l, due) == \A a \in Assets : l.balance[a] >= Owes(l, a) + due.all[a]

PaidOut(l, due) ==
  \A r \in Relayers, a \in Assets :
    l.relayerRewardAmounts[r][a] + l.redeemed[r][a] + due.by[r][a]
      = Fees(l.receiptsReceived, {id \in DOMAIN l.receiptsReceived :
                                    /\ l.receiptsReceived[id].relayer = r
                                    /\ l.receiptsReceived[id].asset = a})

\* A receipt is for a message that was received, and names the relayer that was recorded.
Records(l, c, source, receipt) ==
  /\ MessageID(source, c, receipt.nonce) \in DOMAIN l.received
  /\ l.received[MessageID(source, c, receipt.nonce)] = receipt.relayer

Carries(log, c, l, sending, m) == Logged(log, c, l, m) \/ m \in sending

Recorded(log, c, l, sending) ==
  /\ \A s \in Chains : \A i \in DOMAIN l.receiptQueues[s] : Records(l, c, s, l.receiptQueues[s][i])
  /\ \A m \in Messages : Carries(log, c, l, sending, m) =>
       \A i \in DOMAIN m.receipts : Records(l, c, m.destination, m.receipts[i])

\* What was received was sent, and what was executed or failed was received.
FromLog(log, c, l) ==
  /\ \A id \in DOMAIN l.received :
       \E s \in Chains, m \in Messages :
         Warp(s, m) \in log /\ m.destination = c /\ id = IDOf(s, m)
  /\ DOMAIN l.executed \subseteq DOMAIN l.received
  /\ DOMAIN l.receivedFailedMessageHashes \subseteq DOMAIN l.received

Failures(l, id) == IF id \in DOMAIN l.receivedFailedMessageHashes THEN 1 ELSE 0

OneOutcome(log, c, l, open) ==
  \A s \in Chains, m \in Messages : Warp(s, m) \in log /\ m.destination = c =>
    Runs(l, IDOf(s, m)) + Failures(l, IDOf(s, m))
      = IF m.payload /\ IDOf(s, m) \in DOMAIN l.received \ open THEN 1 ELSE 0

ReceiptFor(l, id) == [nonce |-> id[3], relayer |-> l.received[id]]

\* No receipt is lost: it waits or is carried.
Kept(log, c, l, sending) ==
  \A id \in DOMAIN l.received :
    \/ \E i \in DOMAIN l.receiptQueues[id[1]] : l.receiptQueues[id[1]][i] = ReceiptFor(l, id)
    \/ \E m \in Messages : /\ Carries(log, c, l, sending, m)
                           /\ m.destination = id[1]
                           /\ \E i \in DOMAIN m.receipts : m.receipts[i] = ReceiptFor(l, id)

\* A message is acknowledged by a receipt in a message from its destination.
Receipted(log, c, l) ==
  \A id \in DOMAIN l.receiptsReceived :
    \E m \in Messages :
      /\ Warp(id[2], m) \in log
      /\ m.destination = c
      /\ \E i \in DOMAIN m.receipts :
           /\ m.receipts[i].nonce = id[3]
           /\ m.receipts[i].relayer = l.receiptsReceived[id].relayer

Good(log, c, l, open, sending, due) ==
  /\ IsLedger(l)
  /\ IsDue(due)
  /\ Numbered(log, c, l, sending)
  /\ Covered(l, due)
  /\ PaidOut(l, due)
  /\ Recorded(log, c, l, sending)
  /\ FromLog(log, c, l)
  /\ OneOutcome(log, c, l, open)
  /\ Kept(log, c, l, sending)
  /\ Receipted(log, c, l)

(***************************************************************************)
(* Stacks of open calls.  A call for a fee knows what the messenger owed   *)
(* at least; calls that are made meanwhile do not change that.             *)
(***************************************************************************)
IsStack(t) == Len(t) \in Nat /\ t = [i \in 1 .. Len(t) |-> t[i]]

IsFee(f) == f.op \in {"send", "addFee"}

SendingOf(t, c) == {t[i].msg : i \in {j \in DOMAIN t : t[j].op = "send" /\ t[j].chain = c}}

\* What the calls of t are to pay to relayers on chain c.
DueOf(t, c) ==
  [all |-> [a \in Assets |-> BeingRedeemed(t, c, a)],
   by |-> [r \in Relayers |-> [a \in Assets |-> BeingRedeemedBy(t, c, r, a)]]]

Payable(l, f, due) ==
  /\ Owes(l, f.fee.asset) + due.all[f.fee.asset] <= f.before
  /\ f.op = "addFee" => /\ f.id \in DOMAIN l.sentMessageInfo
                        /\ l.sentMessageInfo[f.id].asset = f.fee.asset

StateOK(log, c, l, open, t) ==
  /\ Good(log, c, l, open, SendingOf(t, c), DueOf(t, c))
  /\ \A i \in DOMAIN t : IsFee(t[i]) /\ t[i].chain = c => Payable(l, t[i], DueOf(t, c))

OpenIDs(f) == IF f.op = "execute" THEN {f.id} ELSE {}

FrameOK(log, f) ==
  /\ f.chain \in Chains
  /\ f.op \in {"send", "addFee", "execute", "retry", "redeem"}
  /\ IsFee(f) => f.fee.asset \in Assets /\ f.fee.amount \in Nat /\ f.before \in Nat
  /\ f.op = "redeem" => f.relayer \in Relayers /\ f.fee.asset \in Assets /\ f.fee.amount \in Nat
  /\ f.op = "send" => f.msg \in Messages /\ f.id = IDOf(f.chain, f.msg)
  /\ f.op = "execute" => /\ f.msg \in Messages /\ f.msg.payload
                         /\ f.msg.destination = f.chain
                         /\ f.id[1] \in Chains
                         /\ Warp(f.id[1], f.msg) \in log
                         /\ f.id = IDOf(f.id[1], f.msg)
                         /\ f.id \in DOMAIN f.saved.received

StackOK(log, t) ==
  /\ IsStack(t)
  /\ \A i, j \in DOMAIN t : /\ t[i].chain = t[j].chain
                            /\ IsFee(t[i]) /\ IsFee(t[j]) => i = j
  /\ \A i \in DOMAIN t :
       /\ FrameOK(log, t[i])
       /\ StateOK(log, t[i].chain, t[i].saved, OpenIDs(t[i]), SubSeq(t, 1, i - 1))

Inv ==
  /\ LogSound(emitted)
  /\ signable \subseteq emitted
  /\ StackOK(emitted, tx)
  /\ \A c \in Chains : StateOK(emitted, c, ledger[c], {}, tx)
  /\ DOMAIN ledger = Chains

----------------------------------------------------------------------------
\* Sums of fees.

HeldIn(info, a) == {id \in DOMAIN info : info[id].asset = a}

Amounts(info) == IsFiniteSet(DOMAIN info) /\ \A id \in DOMAIN info : info[id].amount \in Nat

\* The fees of messages are naturals.
LEMMA FeesType ==
  ASSUME NEW info, Amounts(info), NEW ids \in SUBSET DOMAIN info
  PROVE  IsFiniteSet(ids) /\ Fees(info, ids) \in Nat
<1>1. IsFiniteSet(ids)
  BY FS_Subset DEF Amounts
<1> DEFINE f == [id \in DOMAIN info |-> info[id].amount]
<1>2. \A id \in ids : f[id] \in Nat
  BY DEF Amounts
<1>3. Total(f, ids) \in Nat
  <2> HIDE DEF f
  <2> QED BY <1>1, <1>2, TotalType
<1> QED BY <1>1, <1>3 DEF Fees

\* The fees of the same messages are the same.
LEMMA FeesSame ==
  ASSUME NEW info, NEW other, NEW ids, ids \subseteq DOMAIN info, ids \subseteq DOMAIN other,
         \A id \in ids : info[id].amount = other[id].amount
  PROVE  Fees(info, ids) = Fees(other, ids)
<1> DEFINE f == [id \in DOMAIN info |-> info[id].amount]
           g == [id \in DOMAIN other |-> other[id].amount]
<1>1. \A id \in ids : f[id] = g[id]
  OBVIOUS
<1>2. Total(f, ids) = Total(g, ids)
  <2> HIDE DEF f, g
  <2> QED BY <1>1, TotalSame
<1> QED BY <1>2 DEF Fees

\* The fees of two sets of messages without a common one are the sum of both.
LEMMA FeesUnion ==
  ASSUME NEW info, Amounts(info), NEW ids \in SUBSET DOMAIN info, NEW others \in SUBSET DOMAIN info,
         ids \cap others = {}
  PROVE  Fees(info, ids \cup others) = Fees(info, ids) + Fees(info, others)
<1> DEFINE f == [id \in DOMAIN info |-> info[id].amount]
<1>1. IsFiniteSet(ids) /\ IsFiniteSet(others)
  BY FeesType
<1>2. \A id \in ids \cup others : f[id] \in Nat
  BY DEF Amounts
<1>3. Total(f, ids \cup others) = Total(f, ids) + Total(f, others)
  <2> HIDE DEF f
  <2> QED BY <1>1, <1>2, TotalUnion
<1> QED BY <1>3 DEF Fees

\* The fee of one message is its amount.
LEMMA FeesOne ==
  ASSUME NEW info, NEW id \in DOMAIN info, info[id].amount \in Nat
  PROVE  Fees(info, {id}) = info[id].amount
<1> DEFINE f == [x \in DOMAIN info |-> info[x].amount]
<1>1. f[id] = info[id].amount
  OBVIOUS
<1>2. IsFiniteSet({id}) /\ {id} \ {id} = {}
  BY FS_Singleton
<1>3. Total(f, {id}) = Total(f, {}) + f[id]
  <2>1. \A y \in {id} : f[y] \in Nat
    BY <1>1
  <2> HIDE DEF f
  <2> QED BY <1>2, <2>1, TotalSplit
<1>4. Total(f, {}) = 0
  BY TotalEmpty
<1> QED BY <1>1, <1>3, <1>4 DEF Fees

\* A new entry adds its amount to the fees held in its asset (_sendTeleporterMessage).
LEMMA FeesPut ==
  ASSUME NEW info, Amounts(info), NEW id, id \notin DOMAIN info,
         NEW entry, entry.amount \in Nat, NEW a
  PROVE  LET more == Put(info, id, entry)
         IN  /\ Amounts(more)
             /\ Fees(more, HeldIn(more, a))
                  = Fees(info, HeldIn(info, a)) + IF entry.asset = a THEN entry.amount ELSE 0
<1> DEFINE more == Put(info, id, entry)
           old == HeldIn(info, a)
<1>1. /\ DOMAIN more = DOMAIN info \cup {id} /\ more[id] = entry
      /\ \A x \in DOMAIN info : more[x] = info[x]
  BY DEF Put
<1> HIDE DEF more
<1>2. Amounts(more)
  <2>1. IsFiniteSet(DOMAIN info \cup {id})
    BY FS_AddElement DEF Amounts
  <2> QED BY <1>1, <2>1 DEF Amounts
<1>3. old \subseteq DOMAIN info /\ id \notin old
  BY DEF HeldIn
<1>4. Fees(more, old) = Fees(info, old) /\ Fees(info, old) \in Nat
  BY <1>1, <1>3, FeesSame, FeesType
<1>5. CASE entry.asset = a
  <2>1. HeldIn(more, a) = old \cup {id}
    BY <1>1, <1>5 DEF HeldIn
  <2>2. Fees(more, old \cup {id}) = Fees(more, old) + Fees(more, {id})
    BY <1>1, <1>2, <1>3, FeesUnion
  <2>3. Fees(more, {id}) = entry.amount
    BY <1>1, FeesOne
  <2> HIDE DEF old
  <2> QED BY <1>2, <1>4, <1>5, <2>1, <2>2, <2>3 DEF more, old
<1>6. CASE entry.asset # a
  <2>1. HeldIn(more, a) = old
    BY <1>1, <1>6 DEF HeldIn
  <2> QED BY <1>2, <1>4, <1>6, <2>1 DEF more
<1> QED BY <1>5, <1>6

\* An entry that is raised raises the fees held in its asset by as much (addFeeAmount).
LEMMA FeesRaised ==
  ASSUME NEW info, Amounts(info), NEW id \in DOMAIN info, NEW more, DOMAIN more = DOMAIN info,
         NEW x \in Nat, more[id].asset = info[id].asset, more[id].amount = info[id].amount + x,
         \A y \in DOMAIN info : y # id => more[y] = info[y], NEW a
  PROVE  /\ Amounts(more)
         /\ Fees(more, HeldIn(more, a))
              = Fees(info, HeldIn(info, a)) + IF info[id].asset = a THEN x ELSE 0
<1> DEFINE rest == HeldIn(info, a) \ {id}
<1>1. Amounts(more)
  BY DEF Amounts
<1>2. HeldIn(more, a) = HeldIn(info, a)
  BY DEF HeldIn
<1>3. rest \subseteq DOMAIN info /\ id \notin rest
  BY DEF HeldIn
<1>4. Fees(more, rest) = Fees(info, rest) /\ Fees(info, rest) \in Nat
  BY <1>3, FeesSame, FeesType
<1>5. CASE info[id].asset = a
  <2>1. HeldIn(info, a) = rest \cup {id}
    BY <1>5 DEF HeldIn
  <2>2. /\ Fees(info, rest \cup {id}) = Fees(info, rest) + Fees(info, {id})
        /\ Fees(more, rest \cup {id}) = Fees(more, rest) + Fees(more, {id})
    BY <1>1, <1>3, FeesUnion
  <2>3. Fees(info, {id}) = info[id].amount /\ Fees(more, {id}) = info[id].amount + x
    BY FeesOne DEF Amounts
  <2>4. info[id].amount \in Nat
    BY DEF Amounts
  <2> HIDE DEF rest
  <2> QED BY <1>1, <1>2, <1>4, <1>5, <2>1, <2>2, <2>3, <2>4
<1>6. CASE info[id].asset # a
  <2>1. HeldIn(info, a) = rest
    BY <1>6 DEF HeldIn
  <2> HIDE DEF rest
  <2> QED BY <1>1, <1>2, <1>4, <1>6, <2>1
<1> QED BY <1>5, <1>6

OfAsset(info, ids, a) == {id \in ids : info[id].asset = a}

\* Entries that are dropped take their amounts off the fees held (_markReceipt).
LEMMA FeesDropped ==
  ASSUME NEW info, Amounts(info), NEW ids \in SUBSET DOMAIN info, NEW a
  PROVE  /\ Amounts(Drop(info, ids))
         /\ Fees(Drop(info, ids), HeldIn(Drop(info, ids), a)) \in Nat
         /\ Fees(info, OfAsset(info, ids, a)) \in Nat
         /\ Fees(info, HeldIn(info, a)) = Fees(Drop(info, ids), HeldIn(Drop(info, ids), a))
                                             + Fees(info, OfAsset(info, ids, a))
<1> DEFINE less == Drop(info, ids)
           gone == OfAsset(info, ids, a)
           rest == HeldIn(less, a)
<1>1. /\ DOMAIN less = DOMAIN info \ ids
      /\ \A x \in DOMAIN info \ ids : less[x] = info[x]
  BY DEF Drop, Restrict
<1> HIDE DEF less
<1>2. Amounts(less)
  BY <1>1, FS_Subset DEF Amounts
<1>3. /\ HeldIn(info, a) = rest \cup gone /\ rest \cap gone = {}
      /\ rest \subseteq DOMAIN info /\ rest \subseteq DOMAIN less /\ gone \subseteq DOMAIN info
      /\ \A x \in rest : less[x].amount = info[x].amount
  BY <1>1 DEF HeldIn, OfAsset
<1>4. Fees(info, rest \cup gone) = Fees(info, rest) + Fees(info, gone)
  BY <1>3, FeesUnion
<1>5. Fees(less, rest) = Fees(info, rest)
  BY <1>3, FeesSame
<1>6. Fees(info, rest) \in Nat /\ Fees(info, gone) \in Nat
  BY <1>3, FeesType
<1> HIDE DEF rest, gone
<1> QED BY <1>2, <1>3, <1>4, <1>5, <1>6 DEF rest, gone, less

\* Relayers and the zero address are finitely many.
LEMMA FiniteAddresses == IsFiniteSet(RewardAddresses)
BY RelayerAssumption, FS_AddElement DEF RewardAddresses

\* Rewards are owed in naturals.
LEMMA RewardsType ==
  ASSUME NEW rewards \in [RewardAddresses -> [Assets -> Nat]], NEW a \in Assets
  PROVE  Total([r \in RewardAddresses |-> rewards[r][a]], RewardAddresses) \in Nat
<1> DEFINE f == [r \in RewardAddresses |-> rewards[r][a]]
<1>1. \A r \in RewardAddresses : f[r] \in Nat
  OBVIOUS
<1> HIDE DEF f
<1> QED BY <1>1, FiniteAddresses, TotalType

CreditOf(info, ids, who, r, a) == {id \in ids : who[id] = r /\ info[id].asset = a}

\* The fees of messages in an asset are the sum of what each address gets of them.
LEMMA FeesByRelayer ==
  ASSUME NEW info, Amounts(info), NEW ids \in SUBSET DOMAIN info, NEW who \in [ids -> RewardAddresses],
         NEW a, NEW more, \A r \in RewardAddresses : more[r] = Fees(info, CreditOf(info, ids, who, r, a))
  PROVE  Total(more, RewardAddresses) = Fees(info, OfAsset(info, ids, a))
<1> DEFINE S == OfAsset(info, ids, a)
           part == [r \in RewardAddresses |-> CreditOf(info, ids, who, r, a)]
           f == [id \in DOMAIN info |-> info[id].amount]
<1>1. S \in SUBSET DOMAIN info /\ \A r \in RewardAddresses : part[r] \in SUBSET S
  BY DEF OfAsset, CreditOf
<1>2. \A r \in RewardAddresses : IsFiniteSet(part[r])
  <2> HIDE DEF part, S
  <2> QED BY <1>1, FeesType
<1>3. \A id \in S : \E r \in RewardAddresses : id \in part[r]
  BY DEF OfAsset, CreditOf
<1>4. \A r, q \in RewardAddresses : r # q => part[r] \cap part[q] = {}
  BY DEF CreditOf
<1>5. IsPartition(part, RewardAddresses, S)
  <2>1. part \in [RewardAddresses -> SUBSET S]
    BY <1>1
  <2> HIDE DEF part, S
  <2> QED BY <1>2, <1>3, <1>4, <2>1 DEF IsPartition
<1>6. \A id \in S : f[id] \in Nat
  BY <1>1 DEF Amounts
<1>7. \A r \in RewardAddresses : more[r] = Total(f, part[r])
  BY DEF Fees
<1>8. Total(more, RewardAddresses) = Total(f, S)
  <2> HIDE DEF f, part, S
  <2> QED BY <1>5, <1>6, <1>7, FiniteAddresses, TotalPartition
<1> QED BY <1>8 DEF Fees

\* What is credited for messages comes on top of the rewards of each address.
IsCredited(old, new, info, ids, who, a) ==
  /\ Amounts(info) /\ ids \subseteq DOMAIN info /\ who \in [ids -> RewardAddresses]
  /\ old \in [RewardAddresses -> [Assets -> Nat]] /\ new \in [RewardAddresses -> [Assets -> Nat]]
  /\ \A r \in RewardAddresses :
       new[r][a] = old[r][a] + Fees(info, CreditOf(info, ids, who, r, a))

\* Fees that are credited to relayers raise the rewards by as much, whoever gets them (_markReceipt).
LEMMA RewardsCredited ==
  ASSUME NEW old, NEW new, NEW info, NEW ids, NEW who, NEW a \in Assets,
         IsCredited(old, new, info, ids, who, a)
  PROVE  Total([r \in RewardAddresses |-> new[r][a]], RewardAddresses)
           = Total([r \in RewardAddresses |-> old[r][a]], RewardAddresses)
               + Fees(info, OfAsset(info, ids, a))
<1> DEFINE R == RewardAddresses
           more == [r \in R |-> Fees(info, CreditOf(info, ids, who, r, a))]
           before == [r \in R |-> old[r][a]]
           after == [r \in R |-> new[r][a]]
<1>1. /\ Amounts(info) /\ ids \in SUBSET DOMAIN info /\ who \in [ids -> RewardAddresses]
      /\ old \in [RewardAddresses -> [Assets -> Nat]] /\ new \in [RewardAddresses -> [Assets -> Nat]]
  BY DEF IsCredited
<1>2. \A r \in R : before[r] = old[r][a] /\ after[r] = new[r][a] /\ after[r] = before[r] + more[r]
  BY DEF IsCredited
<1>3. ASSUME NEW r \in R PROVE more[r] \in Nat
  <2>1. CreditOf(info, ids, who, r, a) \in SUBSET DOMAIN info
    BY <1>1 DEF CreditOf
  <2>2. Fees(info, CreditOf(info, ids, who, r, a)) \in Nat
    BY <1>1, <2>1, FeesType
  <2> QED BY <2>2
<1>4. \A r \in R : before[r] \in Nat
  BY <1>1
<1>5. IsFiniteSet(R)
  BY FiniteAddresses
<1>6. Total(after, R) = Total(before, R) + Total(more, R)
  <2> HIDE DEF before, after, more, R
  <2> QED BY <1>2, <1>3, <1>4, <1>5, TotalPlus
<1>7. Total(more, R) = Fees(info, OfAsset(info, ids, a))
  <2>1. \A r \in RewardAddresses : more[r] = Fees(info, CreditOf(info, ids, who, r, a))
    OBVIOUS
  <2> HIDE DEF more
  <2> QED BY <1>1, <2>1, FeesByRelayer
<1> QED BY <1>6, <1>7

\* A reward that is redeemed lowers the rewards by as much (redeemRelayerRewards).
LEMMA RewardsRedeemed ==
  ASSUME NEW old \in [RewardAddresses -> [Assets -> Nat]],
         NEW new \in [RewardAddresses -> [Assets -> Nat]],
         NEW a \in Assets, NEW relayer \in RewardAddresses, new[relayer][a] = 0,
         \A r \in RewardAddresses : r # relayer => new[r][a] = old[r][a]
  PROVE  /\ Total([r \in RewardAddresses |-> new[r][a]], RewardAddresses)
              = Total([r \in RewardAddresses |-> old[r][a]], RewardAddresses) - old[relayer][a]
         /\ old[relayer][a] <= Total([r \in RewardAddresses |-> old[r][a]], RewardAddresses)
<1> DEFINE R == RewardAddresses
           before == [r \in R |-> old[r][a]]
           after == [r \in R |-> new[r][a]]
<1>1. /\ \A r \in R : before[r] \in Nat /\ after[r] \in Nat
      /\ \A r \in R \ {relayer} : after[r] = before[r]
      /\ before[relayer] = old[relayer][a] /\ after[relayer] = 0
  OBVIOUS
<1>2. /\ Total(after, R) = Total(before, R) - before[relayer] + after[relayer]
      /\ before[relayer] <= Total(before, R)
      /\ Total(before, R) \in Nat
  <2> HIDE DEF before, after, R
  <2> QED BY <1>1, FiniteAddresses, TotalChange DEF R
<1> HIDE DEF before, after
<1> QED BY <1>1, <1>2 DEF before, after, R

EarnedIn(events, r, a) == {id \in DOMAIN events : events[id].relayer = r /\ events[id].asset = a}

\* The events `more' are those of `events' and one for each of the messages ids.
AddsEvents(events, more, info, ids, who) ==
  /\ Amounts(info) /\ ids \subseteq DOMAIN info /\ Amounts(events)
  /\ DOMAIN events \cap ids = {} /\ DOMAIN more = DOMAIN events \cup ids
  /\ \A id \in DOMAIN events : more[id] = events[id]
  /\ \A id \in ids : /\ more[id].relayer = who[id] /\ more[id].asset = info[id].asset
                     /\ more[id].amount = info[id].amount

\* What a relayer earned grows by the fees of the messages whose receipts name it.
LEMMA EarningsAdded ==
  ASSUME NEW events, NEW more, NEW info, NEW ids, NEW who, AddsEvents(events, more, info, ids, who),
         NEW r, NEW a
  PROVE  Fees(more, EarnedIn(more, r, a))
           = Fees(events, EarnedIn(events, r, a)) + Fees(info, CreditOf(info, ids, who, r, a))
<1> DEFINE old == EarnedIn(events, r, a)
           new == CreditOf(info, ids, who, r, a)
<1>1. IsFiniteSet(ids)
  BY FeesType DEF AddsEvents
<1>2. Amounts(more)
  <2>1. IsFiniteSet(DOMAIN events \cup ids)
    BY <1>1, FS_Union DEF AddsEvents, Amounts
  <2> QED BY <2>1 DEF AddsEvents, Amounts
<1>3. /\ EarnedIn(more, r, a) = old \cup new
      /\ old \cap new = {} /\ old \subseteq DOMAIN events /\ new \subseteq DOMAIN info
      /\ old \subseteq DOMAIN more /\ new \subseteq DOMAIN more
      /\ \A id \in old : more[id].amount = events[id].amount
      /\ \A id \in new : more[id].amount = info[id].amount
  BY DEF EarnedIn, CreditOf, AddsEvents
<1> HIDE DEF old, new
<1>4. Fees(more, old \cup new) = Fees(more, old) + Fees(more, new)
  BY <1>2, <1>3, FeesUnion
<1>5. Fees(more, old) = Fees(events, old) /\ Fees(more, new) = Fees(info, new)
  BY <1>3, FeesSame
<1> QED BY <1>3, <1>4, <1>5 DEF old, new

-----------------------------------------------------------------------------
\* What each function does to a storage.

\* Fees and rewards are summed over finitely many messages.
LEMMA FiniteFees ==
  ASSUME NEW log, NEW c, NEW l, NEW sending, IsLedger(l), Numbered(log, c, l, sending)
  PROVE  Amounts(l.sentMessageInfo) /\ Amounts(l.receiptsReceived)
BY DEF IsLedger, Numbered, Amounts

\* What a chain owes is a natural.
LEMMA OwesType ==
  ASSUME NEW l, IsLedger(l), Amounts(l.sentMessageInfo), NEW a \in Assets
  PROVE  FeesHeld(l, a) \in Nat /\ RewardsHeld(l, a) \in Nat /\ Owes(l, a) \in Nat
<1>1. HeldIn(l.sentMessageInfo, a) \in SUBSET DOMAIN l.sentMessageInfo
  BY DEF HeldIn
<1>2. FeesHeld(l, a) \in Nat
  BY <1>1, FeesType DEF FeesHeld, HeldIn
<1>3. RewardsHeld(l, a) \in Nat
  BY RewardsType DEF IsLedger, RewardsHeld
<1> QED BY <1>2, <1>3 DEF Owes

\* A message has an ID that names its source, its destination and its nonce.
LEMMA IDParts ==
  ASSUME NEW c, NEW m
  PROVE  /\ IDOf(c, m)[1] = c /\ IDOf(c, m)[2] = m.destination /\ IDOf(c, m)[3] = m.nonce
         /\ IDOf(c, m) = MessageID(c, m.destination, m.nonce)
BY DEF IDOf, MessageID

\* Where the receipts of a message come from: those that leave the queue are in the message.
IsBatch(c, l, destination, queues, receipts) ==
  /\ queues \in [Chains -> Receipts] /\ receipts \in Receipts
  /\ \A s \in Chains : \A i \in DOMAIN queues[s] :
       \E j \in DOMAIN l.receiptQueues[s] : queues[s][i] = l.receiptQueues[s][j]
  /\ \A s \in Chains : \A j \in DOMAIN l.receiptQueues[s] :
       \/ \E i \in DOMAIN queues[s] : queues[s][i] = l.receiptQueues[s][j]
       \/ /\ s = destination
          /\ \E i \in DOMAIN receipts : receipts[i] = l.receiptQueues[s][j]
  /\ \A i \in DOMAIN receipts : Records(l, c, destination, receipts[i])

\* The storage after a message took its number and its receipts.
WithNumber(l, queues) == [[l EXCEPT !.receiptQueues = queues] EXCEPT !.messageNonce = @ + 1]

\* A message gets the next nonce and the receipts of a batch, before its fee is transferred
\* (_sendTeleporterMessage).
LEMMA NumberSound ==
  ASSUME NEW log, NEW c \in Chains, NEW l, NEW due, Good(log, c, l, {}, {}, due),
         NEW msg \in Messages, msg.nonce = l.messageNonce + 1,
         NEW queues, IsBatch(c, l, msg.destination, queues, msg.receipts),
         NEW k, k = WithNumber(l, queues)
  PROVE  Good(log, c, k, {}, {msg}, due) /\ \A a \in Assets : Owes(k, a) = Owes(l, a)
<1>1. /\ k.messageNonce = l.messageNonce + 1
      /\ k.receiptQueues = queues
      /\ k.sentMessageInfo = l.sentMessageInfo
      /\ k.receivedFailedMessageHashes = l.receivedFailedMessageHashes
      /\ k.received = l.received
      /\ k.relayerRewardAmounts = l.relayerRewardAmounts
      /\ k.balance = l.balance
      /\ k.redeemed = l.redeemed
      /\ k.executed = l.executed
      /\ k.receiptsReceived = l.receiptsReceived
      /\ k.outbox = l.outbox
  BY DEF Good, IsLedger, WithNumber
<1>2. IsLedger(k)
  <2>1. k = [messageNonce |-> k.messageNonce, receiptQueues |-> k.receiptQueues,
             sentMessageInfo |-> k.sentMessageInfo,
             receivedFailedMessageHashes |-> k.receivedFailedMessageHashes,
             received |-> k.received, relayerRewardAmounts |-> k.relayerRewardAmounts,
             balance |-> k.balance, redeemed |-> k.redeemed, executed |-> k.executed,
             receiptsReceived |-> k.receiptsReceived, outbox |-> k.outbox]
    BY DEF Good, IsLedger, WithNumber
  <2>2. k.receiptQueues \in [Chains -> Receipts]
    BY <1>1 DEF IsBatch
  <2> QED BY <1>1, <2>1, <2>2 DEF Good, IsLedger
<1>3. l.messageNonce \in Nat
  BY DEF Good, IsLedger
<1>4. Numbered(log, c, k, {msg})
  <2>1. Numbered(log, c, l, {})
    BY DEF Good
  <2>2. /\ \A m : Logged(log, c, k, m) <=> Logged(log, c, l, m)
        /\ \A m \in Messages : m.nonce <= l.messageNonce => m.nonce <= k.messageNonce
    BY <1>1, <1>3 DEF Logged, Messages, Nonces
  <2>3. \A id \in DOMAIN k.receiptsReceived :
          id = MessageID(c, id[2], id[3]) /\ id[3] \in 1 .. k.messageNonce
    BY <1>1, <1>3, <2>1 DEF Numbered
  <2>4. IDOf(c, msg) \notin DOMAIN k.sentMessageInfo
    <3>1. SUFFICES ASSUME IDOf(c, msg) \in DOMAIN k.sentMessageInfo PROVE FALSE
      OBVIOUS
    <3>2. PICK m \in Messages : Logged(log, c, l, m) /\ IDOf(c, m) = IDOf(c, msg)
      <4>1. l.sentMessageInfo[IDOf(c, msg)].msg \in Messages
        BY <1>1, <3>1 DEF Good, IsLedger
      <4> QED BY <1>1, <2>1, <3>1, <4>1 DEF Numbered
    <3>3. m.nonce <= l.messageNonce /\ m.nonce = msg.nonce
      BY <2>1, <3>2, IDParts DEF Numbered
    <3> QED BY <1>3, <3>3
  <2>5. IDOf(c, msg) \notin DOMAIN k.receiptsReceived
    BY <1>1, <1>3, <2>1, IDParts DEF Numbered
  <2> QED BY <1>1, <1>3, <2>1, <2>2, <2>3, <2>4, <2>5 DEF Numbered
<1>5. Covered(k, due) /\ PaidOut(k, due) /\ \A a \in Assets : Owes(k, a) = Owes(l, a)
  BY <1>1 DEF Good, Covered, PaidOut, Owes, FeesHeld, RewardsHeld
<1>6. Recorded(log, c, k, {msg})
  <2>1. Recorded(log, c, l, {})
    BY DEF Good
  <2>2. \A s, receipt : Records(k, c, s, receipt) <=> Records(l, c, s, receipt)
    BY <1>1 DEF Records
  <2>3. \A m : Carries(log, c, k, {msg}, m) <=> Carries(log, c, l, {}, m) \/ m = msg
    BY <1>1 DEF Carries, Logged
  <2>4. \A s \in Chains : \A i \in DOMAIN queues[s] : Records(l, c, s, queues[s][i])
    BY <2>1 DEF Recorded, IsBatch
  <2>5. \A i \in DOMAIN msg.receipts : Records(l, c, msg.destination, msg.receipts[i])
    BY DEF IsBatch
  <2> QED BY <1>1, <2>1, <2>2, <2>3, <2>4, <2>5 DEF Recorded
<1>7. FromLog(log, c, k) /\ OneOutcome(log, c, k, {}) /\ Receipted(log, c, k)
  BY <1>1 DEF Good, FromLog, OneOutcome, Receipted, Runs, Failures
<1>8. Kept(log, c, k, {msg})
  <2> SUFFICES ASSUME NEW id \in DOMAIN l.received
      PROVE  \/ \E i \in DOMAIN k.receiptQueues[id[1]] : k.receiptQueues[id[1]][i] = ReceiptFor(k, id)
             \/ \E m \in Messages : /\ Carries(log, c, k, {msg}, m)
                                    /\ m.destination = id[1]
                                    /\ \E i \in DOMAIN m.receipts : m.receipts[i] = ReceiptFor(k, id)
    BY <1>1 DEF Kept
  <2>1. ReceiptFor(k, id) = ReceiptFor(l, id)
    BY <1>1 DEF ReceiptFor
  <2>2. id[1] \in Chains
    BY IDParts DEF Good, FromLog
  <2>3. CASE \E j \in DOMAIN l.receiptQueues[id[1]] : l.receiptQueues[id[1]][j] = ReceiptFor(l, id)
    BY <1>1, <2>1, <2>2, <2>3 DEF Carries, IsBatch
  <2>4. CASE \E m \in Messages : /\ Carries(log, c, l, {}, m)
                                 /\ m.destination = id[1]
                                 /\ \E i \in DOMAIN m.receipts : m.receipts[i] = ReceiptFor(l, id)
    BY <1>1, <2>1, <2>4 DEF Carries, Logged
  <2> QED BY <2>3, <2>4 DEF Good, Kept
<1> QED BY <1>2, <1>4, <1>5, <1>6, <1>7, <1>8 DEF Good

\* The fee is there: hash and fee are stored and the message is logged.
LEMMA StoreSound ==
  ASSUME NEW log, NEW c \in Chains, NEW l, NEW msg \in Messages, NEW due,
         Good(log, c, l, {}, {msg}, due),
         NEW asset \in Assets \cup {NoAsset}, NEW amount \in Nat, NEW balance \in [Assets -> Nat],
         \A a \in Assets :
           balance[a] >= Owes(l, a) + due.all[a] + IF asset = a THEN amount ELSE 0,
         NEW k, k = StoreSent([l EXCEPT !.balance = balance], c, msg, asset, amount)
  PROVE  Good(log, c, k, {}, {}, due)
<1> DEFINE id == IDOf(c, msg)
           entry == [msg |-> msg, asset |-> asset, amount |-> amount]
<1>1. /\ k.messageNonce = l.messageNonce
      /\ k.receiptQueues = l.receiptQueues
      /\ k.sentMessageInfo = Put(l.sentMessageInfo, id, entry)
      /\ k.receivedFailedMessageHashes = l.receivedFailedMessageHashes
      /\ k.received = l.received
      /\ k.relayerRewardAmounts = l.relayerRewardAmounts
      /\ k.balance = balance
      /\ k.redeemed = l.redeemed
      /\ k.executed = l.executed
      /\ k.receiptsReceived = l.receiptsReceived
      /\ k.outbox = l.outbox \cup {msg}
  BY DEF Good, IsLedger, StoreSent
<1>2. /\ DOMAIN k.sentMessageInfo = DOMAIN l.sentMessageInfo \cup {id}
      /\ k.sentMessageInfo[id] = entry
      /\ \A x \in DOMAIN l.sentMessageInfo : x # id => k.sentMessageInfo[x] = l.sentMessageInfo[x]
  BY <1>1 DEF Put
<1>3. IsLedger(k)
  <2>1. k = [messageNonce |-> k.messageNonce, receiptQueues |-> k.receiptQueues,
             sentMessageInfo |-> k.sentMessageInfo,
             receivedFailedMessageHashes |-> k.receivedFailedMessageHashes,
             received |-> k.received, relayerRewardAmounts |-> k.relayerRewardAmounts,
             balance |-> k.balance, redeemed |-> k.redeemed, executed |-> k.executed,
             receiptsReceived |-> k.receiptsReceived, outbox |-> k.outbox]
    BY DEF Good, IsLedger, StoreSent
  <2>2. k.sentMessageInfo \in [DOMAIN k.sentMessageInfo ->
                                [msg : Messages, asset : Assets \cup {NoAsset}, amount : Nat]]
    <3>1. entry \in [msg : Messages, asset : Assets \cup {NoAsset}, amount : Nat]
      OBVIOUS
    <3>2. \A x \in DOMAIN l.sentMessageInfo :
            l.sentMessageInfo[x] \in [msg : Messages, asset : Assets \cup {NoAsset}, amount : Nat]
      BY DEF Good, IsLedger
    <3> HIDE DEF entry, id
    <3> QED BY <1>1, <1>2, <3>1, <3>2 DEF Put
  <2> HIDE DEF entry, id
  <2> QED BY <1>1, <2>1, <2>2 DEF Good, IsLedger
<1>4. /\ \A m : Logged(log, c, k, m) <=> Logged(log, c, l, m) \/ m = msg
      /\ \A m : Carries(log, c, k, {}, m) <=> Carries(log, c, l, {msg}, m)
  BY <1>1 DEF Carries, Logged
<1>5. Numbered(log, c, k, {})
  <2>1. Numbered(log, c, l, {msg})
    BY DEF Good
  <2>2. /\ id \notin DOMAIN l.sentMessageInfo /\ id \notin DOMAIN l.receiptsReceived
        /\ msg.nonce <= l.messageNonce
    BY <2>1 DEF Numbered
  <2>3. IsFiniteSet(DOMAIN k.sentMessageInfo)
    BY <1>2, <2>1, FS_AddElement DEF Numbered
  <2>4. \A m \in Messages : Logged(log, c, l, m) =>
          /\ m.nonce <= l.messageNonce
          /\ IDOf(c, m) \in DOMAIN l.sentMessageInfo \cup DOMAIN l.receiptsReceived
          /\ \A n \in Messages : Logged(log, c, l, n) /\ IDOf(c, n) = IDOf(c, m) => n = m
    BY <2>1 DEF Numbered
  <2>5. \A m \in Messages : Logged(log, c, k, m) =>
          /\ m.nonce <= k.messageNonce
          /\ IDOf(c, m) \in DOMAIN k.sentMessageInfo \cup DOMAIN k.receiptsReceived
          /\ \A n \in Messages : Logged(log, c, k, n) /\ IDOf(c, n) = IDOf(c, m) => n = m
    <3> HIDE DEF entry
    <3> QED BY <1>1, <1>2, <1>4, <2>2, <2>4
  <2>6. \A x \in DOMAIN k.sentMessageInfo : /\ x \notin DOMAIN k.receiptsReceived
                                            /\ x = IDOf(c, k.sentMessageInfo[x].msg)
                                            /\ Logged(log, c, k, k.sentMessageInfo[x].msg)
    <3>1. entry.msg = msg
      OBVIOUS
    <3>2. \A x \in DOMAIN l.sentMessageInfo : /\ x \notin DOMAIN l.receiptsReceived
                                              /\ x = IDOf(c, l.sentMessageInfo[x].msg)
                                              /\ Logged(log, c, l, l.sentMessageInfo[x].msg)
      BY <2>1 DEF Numbered
    <3> HIDE DEF entry
    <3> QED BY <1>1, <1>2, <1>4, <2>2, <3>1, <3>2
  <2> HIDE DEF entry, id
  <2> QED BY <1>1, <2>1, <2>3, <2>5, <2>6 DEF Numbered
<1>6. Covered(k, due)
  <2> SUFFICES ASSUME NEW a \in Assets PROVE k.balance[a] >= Owes(k, a) + due.all[a]
    BY DEF Covered
  <2>0. due.all[a] \in Nat
    BY DEF Good, IsDue
  <2>1. Amounts(l.sentMessageInfo) /\ id \notin DOMAIN l.sentMessageInfo
    <3>1. id \notin DOMAIN l.sentMessageInfo
      BY DEF Good, Numbered
    <3> QED BY <3>1, FiniteFees DEF Good
  <2>2. Fees(k.sentMessageInfo, HeldIn(k.sentMessageInfo, a))
          = Fees(l.sentMessageInfo, HeldIn(l.sentMessageInfo, a))
              + IF asset = a THEN amount ELSE 0
    <3>1. entry.amount = amount /\ entry.asset = asset
      OBVIOUS
    <3> HIDE DEF entry, id
    <3> QED BY <1>1, <2>1, <3>1, FeesPut
  <2>3. FeesHeld(l, a) \in Nat /\ RewardsHeld(l, a) \in Nat
    BY <2>1, OwesType DEF Good
  <2>4. RewardsHeld(k, a) = RewardsHeld(l, a)
    BY <1>1 DEF RewardsHeld
  <2> HIDE DEF entry, id
  <2> QED BY <1>1, <2>0, <2>2, <2>3, <2>4 DEF Owes, FeesHeld, HeldIn
<1> HIDE DEF entry, id
<1>7. PaidOut(k, due)
  BY <1>1 DEF Good, PaidOut
<1>8. Recorded(log, c, k, {}) /\ Kept(log, c, k, {})
  <2>1. /\ \A s, receipt : Records(k, c, s, receipt) <=> Records(l, c, s, receipt)
        /\ \A x : ReceiptFor(k, x) = ReceiptFor(l, x)
    BY <1>1 DEF Records, ReceiptFor
  <2>2. Recorded(log, c, k, {})
    BY <1>1, <1>4, <2>1 DEF Good, Recorded
  <2>3. Kept(log, c, k, {})
    <3>1. Kept(log, c, l, {msg})
      BY DEF Good
    <3>2. k.received = l.received /\ k.receiptQueues = l.receiptQueues
      BY <1>1
    <3> SUFFICES ASSUME NEW x \in DOMAIN l.received
        PROVE  \/ \E i \in DOMAIN l.receiptQueues[x[1]] : l.receiptQueues[x[1]][i] = ReceiptFor(l, x)
               \/ \E m \in Messages : /\ Carries(log, c, k, {}, m)
                                      /\ m.destination = x[1]
                                      /\ \E i \in DOMAIN m.receipts : m.receipts[i] = ReceiptFor(l, x)
      BY <2>1, <3>2 DEF Kept
    <3>3. \/ \E i \in DOMAIN l.receiptQueues[x[1]] : l.receiptQueues[x[1]][i] = ReceiptFor(l, x)
          \/ \E m \in Messages : /\ Carries(log, c, l, {msg}, m)
                                 /\ m.destination = x[1]
                                 /\ \E i \in DOMAIN m.receipts : m.receipts[i] = ReceiptFor(l, x)
      BY <3>1 DEF Kept
    <3> QED BY <1>4, <3>3
  <2> QED BY <2>2, <2>3
<1>9. FromLog(log, c, k) /\ OneOutcome(log, c, k, {}) /\ Receipted(log, c, k)
  BY <1>1 DEF Good, FromLog, OneOutcome, Receipted, Runs, Failures
<1> QED BY <1>3, <1>5, <1>6, <1>7, <1>8, <1>9 DEF Good

\* A storage that differs in balances and rewards only keeps what is said of messages.
LEMMA MessagesKept ==
  ASSUME NEW log, NEW c \in Chains, NEW l, NEW open, NEW sending, NEW due,
         Good(log, c, l, open, sending, due),
         NEW k, IsLedger(k), NEW now, IsDue(now), Covered(k, now), PaidOut(k, now),
         k.messageNonce = l.messageNonce, k.receiptQueues = l.receiptQueues,
         k.receivedFailedMessageHashes = l.receivedFailedMessageHashes,
         k.received = l.received, k.executed = l.executed, k.receiptsReceived = l.receiptsReceived,
         DOMAIN k.sentMessageInfo = DOMAIN l.sentMessageInfo,
         \A id \in DOMAIN l.sentMessageInfo : k.sentMessageInfo[id].msg = l.sentMessageInfo[id].msg,
         \A m : Logged(log, c, k, m) <=> Logged(log, c, l, m)
  PROVE  Good(log, c, k, open, sending, now)
<1>1. Numbered(log, c, k, sending)
  BY DEF Good, Numbered
<1>2. /\ \A s, receipt : Records(k, c, s, receipt) <=> Records(l, c, s, receipt)
      /\ \A x : ReceiptFor(k, x) = ReceiptFor(l, x)
      /\ \A m : Carries(log, c, k, sending, m) <=> Carries(log, c, l, sending, m)
  BY DEF Records, ReceiptFor, Carries
<1>3. Recorded(log, c, k, sending)
  BY <1>2 DEF Good, Recorded
<1>4. Kept(log, c, k, sending)
  BY <1>2 DEF Good, Kept
<1>5. FromLog(log, c, k) /\ OneOutcome(log, c, k, open) /\ Receipted(log, c, k)
  BY DEF Good, FromLog, OneOutcome, Receipted, Runs, Failures
<1> QED BY <1>1, <1>3, <1>4, <1>5 DEF Good

\* In particular when as much as before is under way.
LEMMA SameMessages ==
  ASSUME NEW log, NEW c \in Chains, NEW l, NEW open, NEW sending, NEW due,
         Good(log, c, l, open, sending, due),
         NEW k, IsLedger(k), Covered(k, due), PaidOut(k, due),
         k.messageNonce = l.messageNonce, k.receiptQueues = l.receiptQueues,
         k.receivedFailedMessageHashes = l.receivedFailedMessageHashes,
         k.received = l.received, k.executed = l.executed, k.receiptsReceived = l.receiptsReceived,
         DOMAIN k.sentMessageInfo = DOMAIN l.sentMessageInfo,
         \A id \in DOMAIN l.sentMessageInfo : k.sentMessageInfo[id].msg = l.sentMessageInfo[id].msg,
         \A m : Logged(log, c, k, m) <=> Logged(log, c, l, m)
  PROVE  Good(log, c, k, open, sending, due)
<1>1. IsDue(due)
  BY DEF Good
<1> QED BY <1>1, MessagesKept

\* A message is logged again (retrySendCrossChainMessage).
LEMMA LogAgainSound ==
  ASSUME NEW log, NEW c \in Chains, NEW l, NEW due, Good(log, c, l, {}, {}, due),
         NEW id \in DOMAIN l.sentMessageInfo, NEW k,
         k = [l EXCEPT !.outbox = @ \cup {l.sentMessageInfo[id].msg}]
  PROVE  Good(log, c, k, {}, {}, due)
<1> DEFINE msg == l.sentMessageInfo[id].msg
<1>1. /\ k.messageNonce = l.messageNonce
      /\ k.receiptQueues = l.receiptQueues
      /\ k.sentMessageInfo = l.sentMessageInfo
      /\ k.receivedFailedMessageHashes = l.receivedFailedMessageHashes
      /\ k.received = l.received
      /\ k.relayerRewardAmounts = l.relayerRewardAmounts
      /\ k.balance = l.balance
      /\ k.redeemed = l.redeemed
      /\ k.executed = l.executed
      /\ k.receiptsReceived = l.receiptsReceived
      /\ k.outbox = l.outbox \cup {msg}
  BY DEF Good, IsLedger
<1>2. msg \in Messages /\ Logged(log, c, l, msg)
  BY DEF Good, Numbered, IsLedger
<1>3. IsLedger(k)
  <2>1. k = [messageNonce |-> k.messageNonce, receiptQueues |-> k.receiptQueues,
             sentMessageInfo |-> k.sentMessageInfo,
             receivedFailedMessageHashes |-> k.receivedFailedMessageHashes,
             received |-> k.received, relayerRewardAmounts |-> k.relayerRewardAmounts,
             balance |-> k.balance, redeemed |-> k.redeemed, executed |-> k.executed,
             receiptsReceived |-> k.receiptsReceived, outbox |-> k.outbox]
    BY DEF Good, IsLedger
  <2> HIDE DEF msg
  <2> QED BY <1>1, <1>2, <2>1 DEF Good, IsLedger
<1>4. \A m : Logged(log, c, k, m) <=> Logged(log, c, l, m)
  <2> HIDE DEF msg
  <2> QED BY <1>1, <1>2 DEF Logged
<1>5. Covered(k, due) /\ PaidOut(k, due)
  BY <1>1 DEF Good, Covered, PaidOut, Owes, FeesHeld, RewardsHeld
<1> HIDE DEF msg
<1> QED BY <1>1, <1>3, <1>4, <1>5, SameMessages

\* A fee is raised by what the token credited (addFeeAmount).
LEMMA RaiseSound ==
  ASSUME NEW log, NEW c \in Chains, NEW l, NEW due, Good(log, c, l, {}, {}, due),
         NEW id \in DOMAIN l.sentMessageInfo, NEW amount \in Nat, NEW balance \in [Assets -> Nat],
         \A a \in Assets :
           balance[a] >= Owes(l, a) + due.all[a]
                           + IF l.sentMessageInfo[id].asset = a THEN amount ELSE 0,
         NEW k, k = [[l EXCEPT !.balance = balance]
                       EXCEPT !.sentMessageInfo[id].amount = @ + amount]
  PROVE  Good(log, c, k, {}, {}, due)
<1> DEFINE entry == [l.sentMessageInfo[id] EXCEPT !.amount = @ + amount]
<1>1. /\ k.messageNonce = l.messageNonce
      /\ k.receiptQueues = l.receiptQueues
      /\ k.sentMessageInfo = [l.sentMessageInfo EXCEPT ![id] = entry]
      /\ k.receivedFailedMessageHashes = l.receivedFailedMessageHashes
      /\ k.received = l.received
      /\ k.relayerRewardAmounts = l.relayerRewardAmounts
      /\ k.balance = balance
      /\ k.redeemed = l.redeemed
      /\ k.executed = l.executed
      /\ k.receiptsReceived = l.receiptsReceived
      /\ k.outbox = l.outbox
  BY DEF Good, IsLedger
<1>2. \A x \in DOMAIN l.sentMessageInfo :
        l.sentMessageInfo[x] \in [msg : Messages, asset : Assets \cup {NoAsset}, amount : Nat]
  BY DEF Good, IsLedger
<1>3. /\ entry \in [msg : Messages, asset : Assets \cup {NoAsset}, amount : Nat]
      /\ entry.msg = l.sentMessageInfo[id].msg /\ entry.asset = l.sentMessageInfo[id].asset
      /\ entry.amount = l.sentMessageInfo[id].amount + amount
  BY <1>2
<1> HIDE DEF entry
<1>4. /\ DOMAIN k.sentMessageInfo = DOMAIN l.sentMessageInfo
      /\ k.sentMessageInfo[id] = entry
      /\ \A x \in DOMAIN l.sentMessageInfo : x # id => k.sentMessageInfo[x] = l.sentMessageInfo[x]
  BY <1>1
<1>5. IsLedger(k)
  <2>1. k = [messageNonce |-> k.messageNonce, receiptQueues |-> k.receiptQueues,
             sentMessageInfo |-> k.sentMessageInfo,
             receivedFailedMessageHashes |-> k.receivedFailedMessageHashes,
             received |-> k.received, relayerRewardAmounts |-> k.relayerRewardAmounts,
             balance |-> k.balance, redeemed |-> k.redeemed, executed |-> k.executed,
             receiptsReceived |-> k.receiptsReceived, outbox |-> k.outbox]
    BY DEF Good, IsLedger
  <2>2. k.sentMessageInfo \in [DOMAIN k.sentMessageInfo ->
                                [msg : Messages, asset : Assets \cup {NoAsset}, amount : Nat]]
    BY <1>1, <1>2, <1>3, <1>4
  <2> QED BY <1>1, <2>1, <2>2 DEF Good, IsLedger
<1>6. Covered(k, due)
  <2> SUFFICES ASSUME NEW a \in Assets PROVE k.balance[a] >= Owes(k, a) + due.all[a]
    BY DEF Covered
  <2>0. due.all[a] \in Nat
    BY DEF Good, IsDue
  <2>1. Amounts(l.sentMessageInfo)
    BY FiniteFees DEF Good
  <2>2. Fees(k.sentMessageInfo, HeldIn(k.sentMessageInfo, a))
          = Fees(l.sentMessageInfo, HeldIn(l.sentMessageInfo, a))
              + IF l.sentMessageInfo[id].asset = a THEN amount ELSE 0
    BY <1>3, <1>4, <2>1, FeesRaised
  <2>3. FeesHeld(l, a) \in Nat /\ RewardsHeld(l, a) \in Nat
    BY <2>1, OwesType DEF Good
  <2>4. RewardsHeld(k, a) = RewardsHeld(l, a)
    BY <1>1 DEF RewardsHeld
  <2> QED BY <1>1, <2>0, <2>2, <2>3, <2>4 DEF Owes, FeesHeld, HeldIn
<1>7. PaidOut(k, due)
  BY <1>1 DEF Good, PaidOut
<1>8. /\ \A m : Logged(log, c, k, m) <=> Logged(log, c, l, m)
      /\ \A x \in DOMAIN l.sentMessageInfo : k.sentMessageInfo[x].msg = l.sentMessageInfo[x].msg
  BY <1>1, <1>3, <1>4 DEF Logged
<1>9. /\ k.messageNonce = l.messageNonce /\ k.receiptQueues = l.receiptQueues
      /\ k.receivedFailedMessageHashes = l.receivedFailedMessageHashes
      /\ k.received = l.received /\ k.executed = l.executed /\ k.receiptsReceived = l.receiptsReceived
      /\ DOMAIN k.sentMessageInfo = DOMAIN l.sentMessageInfo
  BY <1>1, <1>4
<1> QED BY <1>5, <1>6, <1>7, <1>8, <1>9, SameMessages

\* The redemption of a reward is under way, on top of those of due.
More(due, relayer, asset, reward) ==
  [all |-> [due.all EXCEPT ![asset] = @ + reward],
   by |-> [due.by EXCEPT ![relayer][asset] = @ + reward]]

IsMore(due, more, relayer, asset, reward) ==
  /\ IsDue(more)
  /\ \A a \in Assets : more.all[a] = due.all[a] + IF a = asset THEN reward ELSE 0
  /\ \A r \in Relayers, a \in Assets :
       more.by[r][a] = due.by[r][a] + IF r = relayer /\ a = asset THEN reward ELSE 0

LEMMA MoreParts ==
  ASSUME NEW due, IsDue(due), NEW relayer \in Relayers, NEW asset \in Assets, NEW reward \in Nat
  PROVE  IsMore(due, More(due, relayer, asset, reward), relayer, asset, reward)
<1> DEFINE m == More(due, relayer, asset, reward)
<1>1. /\ m.all = [due.all EXCEPT ![asset] = @ + reward]
      /\ m.by = [due.by EXCEPT ![relayer][asset] = @ + reward]
  BY DEF More
<1>2. due.all \in [Assets -> Nat] /\ due.by \in [Relayers -> [Assets -> Nat]]
  BY DEF IsDue
<1> HIDE DEF m
<1>3. m.all \in [Assets -> Nat] /\ m.by \in [Relayers -> [Assets -> Nat]]
  BY <1>1, <1>2
<1>4. /\ \A a \in Assets : m.all[a] = due.all[a] + IF a = asset THEN reward ELSE 0
      /\ \A r \in Relayers, a \in Assets :
           m.by[r][a] = due.by[r][a] + IF r = relayer /\ a = asset THEN reward ELSE 0
  BY <1>1, <1>2
<1> QED BY <1>3, <1>4 DEF m, IsDue, IsMore

\* A relayer asks for its reward (redeemRelayerRewards up to the transfer), also while other fee
\* tokens are being called: what was a reward is now under way.
LEMMA RedeemSound ==
  ASSUME NEW log, NEW c \in Chains, NEW l, NEW sending, NEW due, Good(log, c, l, {}, sending, due),
         NEW relayer \in Relayers, NEW asset \in Assets, NEW k, k = RewardZeroed(l, relayer, asset),
         NEW reward, reward = l.relayerRewardAmounts[relayer][asset],
         NEW more, more = More(due, relayer, asset, reward)
  PROVE  /\ Good(log, c, k, {}, sending, more)
         /\ \A a \in Assets : Owes(k, a) + more.all[a] = Owes(l, a) + due.all[a]
         /\ k.sentMessageInfo = l.sentMessageInfo
<1>1. /\ k.messageNonce = l.messageNonce
      /\ k.receiptQueues = l.receiptQueues
      /\ k.sentMessageInfo = l.sentMessageInfo
      /\ k.receivedFailedMessageHashes = l.receivedFailedMessageHashes
      /\ k.received = l.received
      /\ k.relayerRewardAmounts = [l.relayerRewardAmounts EXCEPT ![relayer][asset] = 0]
      /\ k.balance = l.balance
      /\ k.redeemed = l.redeemed
      /\ k.executed = l.executed
      /\ k.receiptsReceived = l.receiptsReceived
      /\ k.outbox = l.outbox
  BY DEF Good, IsLedger, RewardZeroed
<1>2. /\ l.relayerRewardAmounts \in [RewardAddresses -> [Assets -> Nat]]
      /\ l.balance \in [Assets -> Nat] /\ l.redeemed \in [Relayers -> [Assets -> Nat]]
      /\ relayer \in RewardAddresses /\ reward \in Nat
  BY DEF Good, IsLedger, RewardAddresses
<1>3. /\ k.relayerRewardAmounts \in [RewardAddresses -> [Assets -> Nat]]
      /\ \A r \in RewardAddresses : r # relayer =>
           k.relayerRewardAmounts[r] = l.relayerRewardAmounts[r]
      /\ \A a \in Assets : k.relayerRewardAmounts[relayer][a]
           = IF a = asset THEN 0 ELSE l.relayerRewardAmounts[relayer][a]
  BY <1>1, <1>2
<1>4. IsDue(due)
  BY DEF Good
<1>5. /\ IsDue(more)
      /\ \A a \in Assets : more.all[a] = due.all[a] + IF a = asset THEN reward ELSE 0
      /\ \A r \in Relayers, a \in Assets :
           more.by[r][a] = due.by[r][a] + IF r = relayer /\ a = asset THEN reward ELSE 0
  <2>1. IsMore(due, more, relayer, asset, reward)
    BY <1>2, <1>4, MoreParts
  <2> QED BY <2>1 DEF IsMore
<1>6. IsLedger(k)
  <2>1. k = [messageNonce |-> k.messageNonce, receiptQueues |-> k.receiptQueues,
             sentMessageInfo |-> k.sentMessageInfo,
             receivedFailedMessageHashes |-> k.receivedFailedMessageHashes,
             received |-> k.received, relayerRewardAmounts |-> k.relayerRewardAmounts,
             balance |-> k.balance, redeemed |-> k.redeemed, executed |-> k.executed,
             receiptsReceived |-> k.receiptsReceived, outbox |-> k.outbox]
    BY DEF Good, IsLedger, RewardZeroed
  <2>2. /\ k.messageNonce \in Nat /\ k.receiptQueues \in [Chains -> Receipts]
        /\ k.sentMessageInfo \in [DOMAIN k.sentMessageInfo ->
                                   [msg : Messages, asset : Assets \cup {NoAsset}, amount : Nat]]
        /\ k.receivedFailedMessageHashes \in [DOMAIN k.receivedFailedMessageHashes -> Messages]
        /\ k.received \in [DOMAIN k.received -> RewardAddresses]
        /\ k.executed \in [DOMAIN k.executed -> Nat]
        /\ k.receiptsReceived \in [DOMAIN k.receiptsReceived ->
              [relayer : RewardAddresses, asset : Assets \cup {NoAsset}, amount : Nat]]
        /\ k.outbox \subseteq Messages
        /\ k.balance \in [Assets -> Nat] /\ k.redeemed \in [Relayers -> [Assets -> Nat]]
    BY <1>1 DEF Good, IsLedger
  <2> QED BY <2>1, <2>2, <1>3 DEF IsLedger
<1>7. ASSUME NEW a \in Assets
      PROVE  /\ Owes(k, a) = Owes(l, a) - IF a = asset THEN reward ELSE 0
             /\ Owes(l, a) \in Nat
  <2>1. Amounts(l.sentMessageInfo)
    BY FiniteFees DEF Good
  <2>2. FeesHeld(l, a) \in Nat /\ RewardsHeld(l, a) \in Nat /\ Owes(l, a) \in Nat
    BY <2>1, OwesType DEF Good
  <2>3. FeesHeld(k, a) = FeesHeld(l, a)
    BY <1>1 DEF FeesHeld
  <2>4. RewardsHeld(k, a) = RewardsHeld(l, a) - IF a = asset THEN reward ELSE 0
    <3>1. CASE a = asset
      <4>1. /\ k.relayerRewardAmounts[relayer][a] = 0
            /\ \A r \in RewardAddresses : r # relayer =>
                 k.relayerRewardAmounts[r][a] = l.relayerRewardAmounts[r][a]
        BY <1>3, <3>1
      <4>2. RewardsHeld(k, a) = RewardsHeld(l, a) - l.relayerRewardAmounts[relayer][a]
        <5> DEFINE old == l.relayerRewardAmounts
                   new == k.relayerRewardAmounts
        <5>1. /\ old \in [RewardAddresses -> [Assets -> Nat]]
              /\ new \in [RewardAddresses -> [Assets -> Nat]]
              /\ relayer \in RewardAddresses
              /\ new[relayer][a] = 0
              /\ \A r \in RewardAddresses : r # relayer => new[r][a] = old[r][a]
          BY <1>2, <1>3, <4>1
        <5> HIDE DEF old, new
        <5>2. Total([r \in RewardAddresses |-> new[r][a]], RewardAddresses)
                = Total([r \in RewardAddresses |-> old[r][a]], RewardAddresses) - old[relayer][a]
          BY <5>1, RewardsRedeemed
        <5> QED BY <5>2 DEF RewardsHeld, old, new
      <4> QED BY <3>1, <4>2
    <3>2. CASE a # asset
      <4>1. \A r \in RewardAddresses : k.relayerRewardAmounts[r][a] = l.relayerRewardAmounts[r][a]
        BY <1>3, <3>2
      <4>2. RewardsHeld(k, a) = RewardsHeld(l, a)
        BY <4>1 DEF RewardsHeld
      <4> QED BY <2>2, <3>2, <4>2
    <3> QED BY <3>1, <3>2
  <2> QED BY <1>2, <2>2, <2>3, <2>4 DEF Owes
<1>8. \A a \in Assets : Owes(k, a) + more.all[a] = Owes(l, a) + due.all[a]
  <2> SUFFICES ASSUME NEW a \in Assets PROVE Owes(k, a) + more.all[a] = Owes(l, a) + due.all[a]
    OBVIOUS
  <2>1. /\ due.all[a] \in Nat /\ Owes(l, a) \in Nat /\ reward \in Nat
        /\ Owes(k, a) = Owes(l, a) - IF a = asset THEN reward ELSE 0
        /\ more.all[a] = due.all[a] + IF a = asset THEN reward ELSE 0
    BY <1>2, <1>4, <1>5, <1>7 DEF IsDue
  <2> DEFINE owed == Owes(l, a)
             left == Owes(k, a)
             way == due.all[a]
             now == more.all[a]
  <2> HIDE DEF owed, left, way, now
  <2>2. /\ way \in Nat /\ owed \in Nat /\ reward \in Nat
        /\ left = owed - IF a = asset THEN reward ELSE 0
        /\ now = way + IF a = asset THEN reward ELSE 0
    BY <2>1 DEF owed, left, way, now
  <2>3. left + now = owed + way
    BY <2>2
  <2> QED BY <2>3 DEF owed, left, way, now
<1>9. Covered(k, more)
  <2> SUFFICES ASSUME NEW a \in Assets PROVE k.balance[a] >= Owes(k, a) + more.all[a]
    BY DEF Covered
  <2>1. l.balance[a] >= Owes(l, a) + due.all[a]
    BY DEF Good, Covered
  <2> QED BY <1>1, <1>8, <2>1
<1>10. PaidOut(k, more)
  <2> SUFFICES ASSUME NEW r \in Relayers, NEW a \in Assets
      PROVE  k.relayerRewardAmounts[r][a] + k.redeemed[r][a] + more.by[r][a]
               = l.relayerRewardAmounts[r][a] + l.redeemed[r][a] + due.by[r][a]
    BY <1>1 DEF Good, PaidOut
  <2>1. /\ r \in RewardAddresses /\ l.relayerRewardAmounts[r][a] \in Nat
        /\ l.redeemed[r][a] \in Nat /\ due.by[r][a] \in Nat
    BY <1>2, <1>4 DEF RewardAddresses, IsDue
  <2>2. k.relayerRewardAmounts[r][a]
          = l.relayerRewardAmounts[r][a] - IF r = relayer /\ a = asset THEN reward ELSE 0
    BY <1>2, <1>3, <2>1
  <2>3. k.redeemed[r][a] = l.redeemed[r][a]
    BY <1>1
  <2>4. more.by[r][a] = due.by[r][a] + IF r = relayer /\ a = asset THEN reward ELSE 0
    BY <1>5
  <2> DEFINE reward1 == l.relayerRewardAmounts[r][a]
             reward2 == k.relayerRewardAmounts[r][a]
             way1 == due.by[r][a]
             way2 == more.by[r][a]
  <2>5. /\ reward1 \in Nat /\ way1 \in Nat /\ reward \in Nat /\ l.redeemed[r][a] \in Nat
        /\ reward2 = reward1 - IF r = relayer /\ a = asset THEN reward ELSE 0
        /\ way2 = way1 + IF r = relayer /\ a = asset THEN reward ELSE 0
    BY <1>2, <2>1, <2>2, <2>4
  <2> HIDE DEF reward1, reward2, way1, way2
  <2>6. reward2 + l.redeemed[r][a] + way2 = reward1 + l.redeemed[r][a] + way1
    BY <2>5
  <2> QED BY <2>3, <2>6 DEF reward1, reward2, way1, way2
<1>11. \A m : Logged(log, c, k, m) <=> Logged(log, c, l, m)
  BY <1>1 DEF Logged
<1>12. Good(log, c, k, {}, sending, more)
  BY <1>1, <1>5, <1>6, <1>9, <1>10, <1>11, MessagesKept
<1> QED BY <1>1, <1>8, <1>12

Paid(l, relayer, asset, reward) ==
  [l EXCEPT !.balance[asset] = @ - reward, !.redeemed[relayer][asset] = @ + reward]

\* What else of the storage l differs in k, when less is to be paid.
PaysLess(l, k, due, more) ==
  /\ \A a \in Assets : /\ Owes(k, a) = Owes(l, a) /\ Owes(l, a) \in Nat
                        /\ due.all[a] <= more.all[a]
  /\ k.sentMessageInfo = l.sentMessageInfo

\* The token has paid a reward that was under way.
LEMMA PaidSound ==
  ASSUME NEW log, NEW c \in Chains, NEW l, NEW sending, NEW due, IsDue(due),
         NEW relayer \in Relayers, NEW asset \in Assets, NEW reward \in Nat,
         NEW more, more = More(due, relayer, asset, reward), Good(log, c, l, {}, sending, more),
         NEW k, k = Paid(l, relayer, asset, reward)
  PROVE  /\ Good(log, c, k, {}, sending, due)
         /\ PaysLess(l, k, due, more)
<1>1. /\ k.messageNonce = l.messageNonce
      /\ k.receiptQueues = l.receiptQueues
      /\ k.sentMessageInfo = l.sentMessageInfo
      /\ k.receivedFailedMessageHashes = l.receivedFailedMessageHashes
      /\ k.received = l.received
      /\ k.relayerRewardAmounts = l.relayerRewardAmounts
      /\ k.balance = [l.balance EXCEPT ![asset] = @ - reward]
      /\ k.redeemed = [l.redeemed EXCEPT ![relayer][asset] = @ + reward]
      /\ k.executed = l.executed
      /\ k.receiptsReceived = l.receiptsReceived
      /\ k.outbox = l.outbox
  BY DEF Good, IsLedger, Paid
<1>2. /\ l.relayerRewardAmounts \in [RewardAddresses -> [Assets -> Nat]]
      /\ l.balance \in [Assets -> Nat] /\ l.redeemed \in [Relayers -> [Assets -> Nat]]
      /\ due.all \in [Assets -> Nat] /\ due.by \in [Relayers -> [Assets -> Nat]]
  BY DEF Good, IsLedger, IsDue
<1>3. /\ \A a \in Assets : more.all[a] = due.all[a] + IF a = asset THEN reward ELSE 0
      /\ \A r \in Relayers, a \in Assets :
           more.by[r][a] = due.by[r][a] + IF r = relayer /\ a = asset THEN reward ELSE 0
  BY MoreParts DEF IsMore
<1>4. \A a \in Assets : /\ Owes(k, a) = Owes(l, a) /\ Owes(l, a) \in Nat
                        /\ l.balance[a] >= Owes(l, a) + more.all[a]
  <2> SUFFICES ASSUME NEW a \in Assets
      PROVE  /\ Owes(k, a) = Owes(l, a) /\ Owes(l, a) \in Nat
             /\ l.balance[a] >= Owes(l, a) + more.all[a]
    OBVIOUS
  <2>1. Amounts(l.sentMessageInfo)
    BY FiniteFees DEF Good
  <2>2. Owes(l, a) \in Nat
    BY <2>1, OwesType DEF Good
  <2>3. Owes(k, a) = Owes(l, a)
    BY <1>1 DEF Owes, FeesHeld, RewardsHeld
  <2> QED BY <2>2, <2>3 DEF Good, Covered
<1>5. /\ k.balance \in [Assets -> Nat]
      /\ \A a \in Assets : k.balance[a] = l.balance[a] - IF a = asset THEN reward ELSE 0
  <2>1. l.balance[asset] >= reward
    <3>1. /\ l.balance[asset] \in Nat /\ due.all[asset] \in Nat /\ Owes(l, asset) \in Nat
          /\ more.all[asset] = due.all[asset] + reward
          /\ l.balance[asset] >= Owes(l, asset) + more.all[asset]
      BY <1>2, <1>3, <1>4
    <3> QED BY <3>1
  <2> QED BY <1>1, <1>2, <2>1
<1>6. /\ k.redeemed \in [Relayers -> [Assets -> Nat]]
      /\ \A r \in Relayers, a \in Assets :
           k.redeemed[r][a] = l.redeemed[r][a] + IF r = relayer /\ a = asset THEN reward ELSE 0
  BY <1>1, <1>2
<1>7. IsLedger(k)
  <2>1. k = [messageNonce |-> k.messageNonce, receiptQueues |-> k.receiptQueues,
             sentMessageInfo |-> k.sentMessageInfo,
             receivedFailedMessageHashes |-> k.receivedFailedMessageHashes,
             received |-> k.received, relayerRewardAmounts |-> k.relayerRewardAmounts,
             balance |-> k.balance, redeemed |-> k.redeemed, executed |-> k.executed,
             receiptsReceived |-> k.receiptsReceived, outbox |-> k.outbox]
    BY DEF Good, IsLedger, Paid
  <2>2. /\ k.messageNonce \in Nat /\ k.receiptQueues \in [Chains -> Receipts]
        /\ k.sentMessageInfo \in [DOMAIN k.sentMessageInfo ->
                                   [msg : Messages, asset : Assets \cup {NoAsset}, amount : Nat]]
        /\ k.receivedFailedMessageHashes \in [DOMAIN k.receivedFailedMessageHashes -> Messages]
        /\ k.received \in [DOMAIN k.received -> RewardAddresses]
        /\ k.relayerRewardAmounts \in [RewardAddresses -> [Assets -> Nat]]
        /\ k.executed \in [DOMAIN k.executed -> Nat]
        /\ k.receiptsReceived \in [DOMAIN k.receiptsReceived ->
              [relayer : RewardAddresses, asset : Assets \cup {NoAsset}, amount : Nat]]
        /\ k.outbox \subseteq Messages
    BY <1>1 DEF Good, IsLedger
  <2> QED BY <2>1, <2>2, <1>5, <1>6 DEF IsLedger
<1>8. Covered(k, due)
  <2> SUFFICES ASSUME NEW a \in Assets PROVE k.balance[a] >= Owes(k, a) + due.all[a]
    BY DEF Covered
  <2>1. l.balance[a] \in Nat /\ due.all[a] \in Nat
    BY <1>2
  <2> QED BY <1>3, <1>4, <1>5, <2>1
<1>9. PaidOut(k, due)
  <2> SUFFICES ASSUME NEW r \in Relayers, NEW a \in Assets
      PROVE  k.relayerRewardAmounts[r][a] + k.redeemed[r][a] + due.by[r][a]
               = l.relayerRewardAmounts[r][a] + l.redeemed[r][a] + more.by[r][a]
    BY <1>1 DEF Good, PaidOut
  <2>1. /\ r \in RewardAddresses /\ l.relayerRewardAmounts[r][a] \in Nat
        /\ l.redeemed[r][a] \in Nat /\ due.by[r][a] \in Nat
    BY <1>2 DEF RewardAddresses
  <2> QED BY <1>1, <1>3, <1>6, <2>1
<1>10. \A m : Logged(log, c, k, m) <=> Logged(log, c, l, m)
  BY <1>1 DEF Logged
<1>11. Good(log, c, k, {}, sending, due)
  BY <1>1, <1>7, <1>8, <1>9, <1>10, MessagesKept
<1>12. \A a \in Assets : due.all[a] <= more.all[a]
  BY <1>2, <1>3
<1> QED BY <1>1, <1>4, <1>11, <1>12 DEF PaysLess

\* The first index of a non-empty set is in the set.
LEMMA FirstIndex ==
  ASSUME NEW S \in SUBSET Nat, S # {}
  PROVE  Min(S) \in S
<1> DEFINE less == {pair \in Nat \X Nat : pair[1] < pair[2]}
<1>1. IsWellFoundedOn(less, Nat)
  BY NatLessThanWellFounded DEF OpToRel
<1>2. S \subseteq Nat
  OBVIOUS
<1>3. \A y \in S, x \in S : y < x => <<y, x>> \in less
  OBVIOUS
<1> HIDE DEF less
<1>4. PICK x \in S : \A y \in S : ~(<<y, x>> \in less)
  BY <1>1, <1>2, WFMin
<1>5. \A y \in S : x <= y
  <2> SUFFICES ASSUME NEW y \in S
               PROVE  x <= y
    OBVIOUS
  <2>1. ~(y < x)
    BY <1>3, <1>4
  <2>2. x \in Nat /\ y \in Nat
    BY <1>2
  <2> QED BY <2>1, <2>2
<1> QED BY <1>5 DEF Min

\* An acknowledged message is credited to a relayer that a receipt for it names (_markReceipt).
LEMMA CreditedSound ==
  ASSUME NEW l, NEW c, NEW source, NEW receipts \in Receipts,
         NEW id \in Acknowledged(l, c, source, receipts)
  PROVE  /\ id \in DOMAIN l.sentMessageInfo
         /\ id = MessageID(c, source, id[3])
         /\ \E i \in DOMAIN receipts : /\ receipts[i].nonce = id[3]
                                       /\ receipts[i].relayer = CreditedRelayer(id, receipts)
         /\ CreditedRelayer(id, receipts) \in RewardAddresses
<1> DEFINE S == {i \in DOMAIN receipts : receipts[i].nonce = id[3]}
<1>1. PICK i \in DOMAIN receipts : id = MessageID(c, source, receipts[i].nonce)
  BY DEF Acknowledged
<1>2. id[3] = receipts[i].nonce /\ id = MessageID(c, source, id[3])
  BY <1>1 DEF MessageID
<1>3. S \in SUBSET Nat /\ S # {}
  BY <1>1, <1>2 DEF Receipts
<1>4. Min(S) \in S
  <2> HIDE DEF S
  <2> QED BY <1>3, FirstIndex
<1>5. CreditedRelayer(id, receipts) = receipts[Min(S)].relayer
  BY DEF CreditedRelayer
<1>6. receipts[Min(S)] \in [nonce : Nonces, relayer : RewardAddresses]
  <2> DEFINE Receipt == [nonce : Nonces, relayer : RewardAddresses]
  <2>1. receipts \in Seq(Receipt) /\ Min(S) \in DOMAIN receipts
    BY <1>4 DEF Receipts
  <2> HIDE DEF Receipt, S
  <2>2. receipts[Min(S)] \in Receipt
    BY <2>1
  <2> QED BY <2>2 DEF Receipt
<1> QED BY <1>2, <1>4, <1>5, <1>6 DEF Acknowledged

\* The receipts of a delivered message move fees from the messages to the relayers (_markReceipt).
LEMMA MarkSound ==
  ASSUME NEW log, NEW c \in Chains, NEW l, NEW sending, NEW due, Good(log, c, l, {}, sending, due),
         NEW source \in Chains, NEW msg \in Messages, Warp(source, msg) \in log,
         msg.destination = c,
         NEW k, k = MarkReceipts(l, c, source, msg.receipts)
  PROVE  /\ Good(log, c, k, {}, sending, due)
         /\ \A a \in Assets : Owes(k, a) = Owes(l, a)
         /\ k.received = l.received
<1> DEFINE ids == Acknowledged(l, c, source, msg.receipts)
           info == l.sentMessageInfo
           who == [id \in ids |-> CreditedRelayer(id, msg.receipts)]
<1>1. /\ k.messageNonce = l.messageNonce
      /\ k.receiptQueues = l.receiptQueues
      /\ k.sentMessageInfo = Drop(info, ids)
      /\ k.receivedFailedMessageHashes = l.receivedFailedMessageHashes
      /\ k.received = l.received
      /\ k.relayerRewardAmounts = [r \in RewardAddresses |-> [a \in Assets |->
                                    l.relayerRewardAmounts[r][a]
                                      + Fees(info, CreditOf(info, ids, who, r, a))]]
      /\ k.balance = l.balance
      /\ k.redeemed = l.redeemed
      /\ k.executed = l.executed
      /\ k.receiptsReceived =
           [id \in DOMAIN l.receiptsReceived \cup ids |->
              IF id \in ids
              THEN [relayer |-> CreditedRelayer(id, msg.receipts), asset |-> info[id].asset,
                    amount |-> info[id].amount]
              ELSE l.receiptsReceived[id]]
      /\ k.outbox = l.outbox
  <2>1. \A r \in RewardAddresses, a \in Assets :
          {id \in ids : CreditedRelayer(id, msg.receipts) = r /\ info[id].asset = a}
            = CreditOf(info, ids, who, r, a)
    BY DEF CreditOf
  <2> QED BY <2>1 DEF Good, IsLedger, MarkReceipts
<1>2. k = [messageNonce |-> k.messageNonce, receiptQueues |-> k.receiptQueues,
           sentMessageInfo |-> k.sentMessageInfo,
           receivedFailedMessageHashes |-> k.receivedFailedMessageHashes,
           received |-> k.received, relayerRewardAmounts |-> k.relayerRewardAmounts,
           balance |-> k.balance, redeemed |-> k.redeemed, executed |-> k.executed,
           receiptsReceived |-> k.receiptsReceived, outbox |-> k.outbox]
  BY DEF Good, IsLedger, MarkReceipts
<1>3. msg.receipts \in Receipts
  BY DEF Messages
<1>4. /\ Amounts(info) /\ Amounts(l.receiptsReceived)
      /\ \A id \in DOMAIN info : info[id] \in [msg : Messages, asset : Assets \cup {NoAsset}, amount : Nat]
      /\ l.relayerRewardAmounts \in [RewardAddresses -> [Assets -> Nat]]
  BY FiniteFees DEF Good, IsLedger
<1>5. \A id \in ids :
        /\ id \in DOMAIN info
        /\ id = MessageID(c, source, id[3])
        /\ \E i \in DOMAIN msg.receipts : /\ msg.receipts[i].nonce = id[3]
                                          /\ msg.receipts[i].relayer = who[id]
        /\ who[id] \in RewardAddresses
  BY <1>3, CreditedSound
<1>6. /\ ids \in SUBSET DOMAIN info /\ who \in [ids -> RewardAddresses]
      /\ \A id \in ids : who[id] = CreditedRelayer(id, msg.receipts)
  BY <1>5
<1> HIDE DEF who, ids, info
<1>8. ids \cap DOMAIN l.receiptsReceived = {}
  BY <1>6 DEF Good, Numbered, info
<1>9. /\ DOMAIN k.sentMessageInfo = DOMAIN info \ ids
      /\ \A id \in DOMAIN info \ ids : k.sentMessageInfo[id] = info[id]
  BY <1>1 DEF Drop, Restrict
<1>10. /\ DOMAIN k.receiptsReceived = DOMAIN l.receiptsReceived \cup ids
       /\ \A id \in DOMAIN l.receiptsReceived : k.receiptsReceived[id] = l.receiptsReceived[id]
       /\ \A id \in ids : /\ k.receiptsReceived[id] = [relayer |-> who[id], asset |-> info[id].asset,
                                                       amount |-> info[id].amount]
                          /\ k.receiptsReceived[id].relayer = who[id]
                          /\ k.receiptsReceived[id].asset = info[id].asset
                          /\ k.receiptsReceived[id].amount = info[id].amount
  <2>1. ASSUME NEW id \in ids
        PROVE  k.receiptsReceived[id] = [relayer |-> who[id], asset |-> info[id].asset,
                                         amount |-> info[id].amount]
    BY <1>1, <1>6
  <2> QED BY <1>1, <1>8, <2>1
<1>11. \A r, a : Fees(info, CreditOf(info, ids, who, r, a)) \in Nat
  <2> SUFFICES ASSUME NEW r, NEW a PROVE Fees(info, CreditOf(info, ids, who, r, a)) \in Nat
    OBVIOUS
  <2>1. CreditOf(info, ids, who, r, a) \in SUBSET DOMAIN info
    BY <1>6 DEF CreditOf
  <2> QED BY <1>4, <2>1, FeesType
<1>12. k.relayerRewardAmounts \in [RewardAddresses -> [Assets -> Nat]]
  <2>1. ASSUME NEW r \in RewardAddresses, NEW a \in Assets
        PROVE  l.relayerRewardAmounts[r][a] + Fees(info, CreditOf(info, ids, who, r, a)) \in Nat
    <3>1. Fees(info, CreditOf(info, ids, who, r, a)) \in Nat
      BY <1>11
    <3> QED BY <1>4, <3>1
  <2> QED BY <1>1, <2>1
<1>13. IsLedger(k)
  <2>1. /\ k.messageNonce \in Nat /\ k.receiptQueues \in [Chains -> Receipts]
        /\ k.receivedFailedMessageHashes \in [DOMAIN k.receivedFailedMessageHashes -> Messages]
        /\ k.received \in [DOMAIN k.received -> RewardAddresses]
        /\ k.balance \in [Assets -> Nat]
        /\ k.redeemed \in [Relayers -> [Assets -> Nat]]
        /\ k.executed \in [DOMAIN k.executed -> Nat]
        /\ k.outbox \subseteq Messages
    BY <1>1 DEF Good, IsLedger
  <2>2. k.sentMessageInfo \in [DOMAIN k.sentMessageInfo ->
                                [msg : Messages, asset : Assets \cup {NoAsset}, amount : Nat]]
    <3>1. k.sentMessageInfo = [id \in DOMAIN k.sentMessageInfo |-> k.sentMessageInfo[id]]
      BY <1>1 DEF Drop, Restrict
    <3> QED BY <1>4, <1>9, <3>1
  <2>3. k.receiptsReceived \in [DOMAIN k.receiptsReceived ->
              [relayer : RewardAddresses, asset : Assets \cup {NoAsset}, amount : Nat]]
    <3>1. k.receiptsReceived = [id \in DOMAIN k.receiptsReceived |-> k.receiptsReceived[id]]
      BY <1>1
    <3>2. \A id \in DOMAIN l.receiptsReceived : l.receiptsReceived[id] \in
              [relayer : RewardAddresses, asset : Assets \cup {NoAsset}, amount : Nat]
      BY DEF Good, IsLedger
    <3>3. \A id \in ids : k.receiptsReceived[id] \in
              [relayer : RewardAddresses, asset : Assets \cup {NoAsset}, amount : Nat]
      <4> SUFFICES ASSUME NEW id \in ids
                   PROVE  k.receiptsReceived[id] \in
                            [relayer : RewardAddresses, asset : Assets \cup {NoAsset}, amount : Nat]
        OBVIOUS
      <4>1. /\ who[id] \in RewardAddresses
            /\ info[id].asset \in Assets \cup {NoAsset} /\ info[id].amount \in Nat
        BY <1>4, <1>6
      <4>2. k.receiptsReceived[id] = [relayer |-> who[id], asset |-> info[id].asset,
                                      amount |-> info[id].amount]
        BY <1>10
      <4> QED BY <4>1, <4>2
    <3> QED BY <1>10, <3>1, <3>2, <3>3
  <2> QED BY <1>2, <1>12, <2>1, <2>2, <2>3 DEF IsLedger
<1>14. Numbered(log, c, k, sending)
  <2>1. Numbered(log, c, l, sending)
    BY DEF Good
  <2>2. IsFiniteSet(DOMAIN k.sentMessageInfo) /\ IsFiniteSet(DOMAIN k.receiptsReceived)
    <3>1. IsFiniteSet(ids) /\ IsFiniteSet(DOMAIN info \ ids)
      BY <1>4, <1>6, FS_Subset DEF Amounts
    <3>2. IsFiniteSet(DOMAIN l.receiptsReceived \cup ids)
      BY <1>4, <3>1, FS_Union DEF Amounts
    <3> QED BY <1>9, <1>10, <3>1, <3>2
  <2>3. \A m : Logged(log, c, k, m) <=> Logged(log, c, l, m)
    BY <1>1 DEF Logged
  <2>4. DOMAIN k.sentMessageInfo \cup DOMAIN k.receiptsReceived
          = DOMAIN l.sentMessageInfo \cup DOMAIN l.receiptsReceived
    BY <1>6, <1>9, <1>10 DEF info
  <2>5. \A id \in DOMAIN k.sentMessageInfo : /\ id \notin DOMAIN k.receiptsReceived
                                             /\ id = IDOf(c, k.sentMessageInfo[id].msg)
                                             /\ Logged(log, c, k, k.sentMessageInfo[id].msg)
    BY <1>9, <1>10, <2>1, <2>3 DEF info, Numbered
  <2>6. \A id \in ids : id = MessageID(c, id[2], id[3]) /\ id[3] \in 1 .. l.messageNonce
    <3> SUFFICES ASSUME NEW id \in ids
                 PROVE  id = MessageID(c, id[2], id[3]) /\ id[3] \in 1 .. l.messageNonce
      OBVIOUS
    <3>1. /\ info[id].msg \in Messages /\ id = IDOf(c, info[id].msg)
          /\ info[id].msg.nonce <= l.messageNonce
      BY <1>4, <1>6, <2>1 DEF Numbered, info
    <3>2. id[3] = info[id].msg.nonce /\ id = MessageID(c, id[2], id[3])
      BY <3>1 DEF IDOf, MessageID
    <3>3. info[id].msg.nonce \in Nonces /\ l.messageNonce \in Nat
      BY <3>1 DEF Messages, Good, IsLedger
    <3> QED BY <3>1, <3>2, <3>3 DEF Nonces
  <2>7. \A id \in DOMAIN k.receiptsReceived :
          id = MessageID(c, id[2], id[3]) /\ id[3] \in 1 .. k.messageNonce
    BY <1>1, <1>10, <2>1, <2>6 DEF Numbered
  <2>8. \A m \in Messages : Logged(log, c, k, m) =>
          /\ m.nonce <= k.messageNonce
          /\ IDOf(c, m) \in DOMAIN k.sentMessageInfo \cup DOMAIN k.receiptsReceived
          /\ \A n \in Messages : Logged(log, c, k, n) /\ IDOf(c, n) = IDOf(c, m) => n = m
    BY <1>1, <2>1, <2>3, <2>4 DEF Numbered
  <2>9. \A m \in sending : /\ m \in Messages
                           /\ m.nonce <= k.messageNonce
                           /\ IDOf(c, m) \notin DOMAIN k.sentMessageInfo \cup DOMAIN k.receiptsReceived
    BY <1>1, <2>1, <2>4 DEF Numbered
  <2> QED BY <2>2, <2>5, <2>7, <2>8, <2>9 DEF Numbered
<1>15. ASSUME NEW a \in Assets PROVE Owes(k, a) = Owes(l, a)
  <2>1. /\ Fees(k.sentMessageInfo, HeldIn(k.sentMessageInfo, a)) \in Nat
        /\ Fees(info, OfAsset(info, ids, a)) \in Nat
        /\ Fees(info, HeldIn(info, a)) = Fees(k.sentMessageInfo, HeldIn(k.sentMessageInfo, a))
                                            + Fees(info, OfAsset(info, ids, a))
    BY <1>1, <1>4, <1>6, FeesDropped
  <2>2. \A r \in RewardAddresses :
          k.relayerRewardAmounts[r][a]
            = l.relayerRewardAmounts[r][a] + Fees(info, CreditOf(info, ids, who, r, a))
    BY <1>1
  <2>3. IsCredited(l.relayerRewardAmounts, k.relayerRewardAmounts, info, ids, who, a)
    BY <1>4, <1>6, <1>12, <2>2 DEF IsCredited
  <2>4. RewardsHeld(k, a) = RewardsHeld(l, a) + Fees(info, OfAsset(info, ids, a))
    BY <2>3, RewardsCredited DEF RewardsHeld
  <2>5. RewardsHeld(l, a) \in Nat
    BY <1>4, OwesType DEF Good, info
  <2> QED BY <2>1, <2>4, <2>5 DEF Owes, FeesHeld, HeldIn, info
<1>16. Covered(k, due)
  BY <1>1, <1>15 DEF Good, Covered
<1>17. PaidOut(k, due)
  <2> SUFFICES ASSUME NEW r \in Relayers, NEW a \in Assets
      PROVE  k.relayerRewardAmounts[r][a] + k.redeemed[r][a] + due.by[r][a]
               = Fees(k.receiptsReceived, EarnedIn(k.receiptsReceived, r, a))
    BY DEF PaidOut, EarnedIn
  <2>1. r \in RewardAddresses
    BY DEF RewardAddresses
  <2>2. /\ l.relayerRewardAmounts[r][a] \in Nat /\ l.redeemed[r][a] \in Nat
        /\ due.by[r][a] \in Nat
    BY <2>1 DEF Good, IsLedger, IsDue
  <2>3. l.relayerRewardAmounts[r][a] + l.redeemed[r][a] + due.by[r][a]
          = Fees(l.receiptsReceived, EarnedIn(l.receiptsReceived, r, a))
    BY DEF Good, PaidOut, EarnedIn
  <2>4. k.relayerRewardAmounts[r][a]
          = l.relayerRewardAmounts[r][a] + Fees(info, CreditOf(info, ids, who, r, a))
    BY <1>1, <2>1
  <2>5. AddsEvents(l.receiptsReceived, k.receiptsReceived, info, ids, who)
    BY <1>4, <1>6, <1>8, <1>10 DEF AddsEvents
  <2>6. Fees(k.receiptsReceived, EarnedIn(k.receiptsReceived, r, a))
          = Fees(l.receiptsReceived, EarnedIn(l.receiptsReceived, r, a))
              + Fees(info, CreditOf(info, ids, who, r, a))
    BY <2>5, EarningsAdded
  <2>7. Fees(info, CreditOf(info, ids, who, r, a)) \in Nat
    BY <1>11
  <2> QED BY <1>1, <2>2, <2>3, <2>4, <2>6, <2>7
<1>18. Recorded(log, c, k, sending) /\ Kept(log, c, k, sending)
  <2>1. /\ \A s, receipt : Records(k, c, s, receipt) <=> Records(l, c, s, receipt)
        /\ \A x : ReceiptFor(k, x) = ReceiptFor(l, x)
        /\ \A m : Carries(log, c, k, sending, m) <=> Carries(log, c, l, sending, m)
    BY <1>1 DEF Records, ReceiptFor, Carries, Logged
  <2>2. Recorded(log, c, k, sending)
    BY <1>1, <2>1 DEF Good, Recorded
  <2>3. Kept(log, c, k, sending)
    BY <1>1, <2>1 DEF Good, Kept
  <2> QED BY <2>2, <2>3
<1>19. FromLog(log, c, k) /\ OneOutcome(log, c, k, {})
  BY <1>1 DEF Good, FromLog, OneOutcome, Runs, Failures
<1>20. Receipted(log, c, k)
  <2> SUFFICES ASSUME NEW id \in DOMAIN k.receiptsReceived
      PROVE  \E m \in Messages :
               /\ Warp(id[2], m) \in log
               /\ m.destination = c
               /\ \E i \in DOMAIN m.receipts :
                    /\ m.receipts[i].nonce = id[3]
                    /\ m.receipts[i].relayer = k.receiptsReceived[id].relayer
    BY DEF Receipted
  <2>1. CASE id \in DOMAIN l.receiptsReceived
    BY <1>10, <2>1 DEF Good, Receipted
  <2>2. CASE id \in ids
    <3>1. id[2] = source
      BY <1>5, <2>2 DEF MessageID
    <3>2. k.receiptsReceived[id].relayer = who[id]
      BY <1>10, <2>2
    <3> QED BY <1>5, <2>2, <3>1, <3>2
  <2> QED BY <1>10, <2>1, <2>2
<1> QED BY <1>1, <1>13, <1>14, <1>15, <1>16, <1>17, <1>18, <1>19, <1>20 DEF Good

\* No two messages of the log have the same ID.
UniqueIDs(log) ==
  \A s \in Chains : \A m, n \in Messages :
    Warp(s, m) \in log /\ Warp(s, n) \in log /\ IDOf(s, m) = IDOf(s, n) => m = n

\* A logged message for chain c and its ID.
IsDelivery(log, c, source, msg, id) ==
  /\ source \in Chains /\ msg \in Messages /\ Warp(source, msg) \in log
  /\ msg.destination = c /\ id = IDOf(source, msg)

\* k is l with the message marked as received.
IsReceived(l, k, source, msg, id, deliverer, rewardAddress) ==
  k = MarkReceived(l, source, msg, id, deliverer, rewardAddress)

\* A received message has an ID of its own, its receipt waits in the queue (receiveCrossChainMessage).
LEMMA ReceivedSound ==
  ASSUME NEW log, NEW c \in Chains, NEW l, NEW sending, NEW due, Good(log, c, l, {}, sending, due),
         UniqueIDs(log),
         NEW source, NEW msg, NEW id, IsDelivery(log, c, source, msg, id),
         id \notin DOMAIN l.received, NEW rewardAddress \in RewardAddresses, NEW deliverer,
         NEW k, IsReceived(l, k, source, msg, id, deliverer, rewardAddress)
  PROVE  /\ Good(log, c, k, {id}, sending, due)
         /\ ~msg.payload => Good(log, c, k, {}, sending, due)
         /\ id \in DOMAIN k.received
         /\ \A a \in Assets : Owes(k, a) = Owes(l, a)
<1> DEFINE receipt == [nonce |-> msg.nonce, relayer |-> rewardAddress]
<1>0. k = MarkReceived(l, source, msg, id, deliverer, rewardAddress)
  BY DEF IsReceived
<1> USE <1>0
<1>1. /\ k.messageNonce = l.messageNonce
      /\ k.receiptQueues = [l.receiptQueues EXCEPT ![source] = Append(@, receipt)]
      /\ k.sentMessageInfo = l.sentMessageInfo
      /\ k.receivedFailedMessageHashes = l.receivedFailedMessageHashes
      /\ k.received = Put(l.received, id, rewardAddress)
      /\ k.relayerRewardAmounts = l.relayerRewardAmounts
      /\ k.balance = l.balance
      /\ k.redeemed = l.redeemed
      /\ k.executed = l.executed
      /\ k.receiptsReceived = l.receiptsReceived
      /\ k.outbox = l.outbox
  BY DEF Good, IsLedger, MarkReceived
<1>2. k = [messageNonce |-> k.messageNonce, receiptQueues |-> k.receiptQueues,
           sentMessageInfo |-> k.sentMessageInfo,
           receivedFailedMessageHashes |-> k.receivedFailedMessageHashes,
           received |-> k.received, relayerRewardAmounts |-> k.relayerRewardAmounts,
           balance |-> k.balance, redeemed |-> k.redeemed, executed |-> k.executed,
           receiptsReceived |-> k.receiptsReceived, outbox |-> k.outbox]
  BY DEF Good, IsLedger, MarkReceived
<1>3. /\ source \in Chains /\ msg \in Messages /\ msg.destination = c /\ id = IDOf(source, msg)
      /\ Warp(source, msg) \in log
      /\ id[1] = source /\ id[3] = msg.nonce /\ id = MessageID(source, c, msg.nonce)
  BY DEF IsDelivery, IDOf, MessageID
<1>4. /\ DOMAIN k.received = DOMAIN l.received \cup {id}
      /\ k.received[id] = rewardAddress
      /\ \A x \in DOMAIN l.received : k.received[x] = l.received[x]
  BY <1>1 DEF Put
<1>5. /\ l.receiptQueues \in [Chains -> Receipts]
      /\ receipt \in [nonce : Nonces, relayer : RewardAddresses]
      /\ ReceiptFor(k, id) = receipt
      /\ receipt.nonce = msg.nonce /\ receipt.relayer = rewardAddress
  BY <1>3, <1>4 DEF Good, IsLedger, Messages, ReceiptFor
<1> HIDE DEF receipt
<1>6. /\ k.receiptQueues \in [Chains -> Receipts]
      /\ \A s \in Chains : s # source => k.receiptQueues[s] = l.receiptQueues[s]
      /\ DOMAIN k.receiptQueues[source] = 1 .. Len(l.receiptQueues[source]) + 1
      /\ DOMAIN l.receiptQueues[source] = 1 .. Len(l.receiptQueues[source])
      /\ Len(l.receiptQueues[source]) \in Nat
      /\ k.receiptQueues[source][Len(l.receiptQueues[source]) + 1] = receipt
      /\ \A i \in 1 .. Len(l.receiptQueues[source]) :
           k.receiptQueues[source][i] = l.receiptQueues[source][i]
  <2> DEFINE Receipt == [nonce : Nonces, relayer : RewardAddresses]
             queue == l.receiptQueues[source]
  <2>1. queue \in Seq(Receipt) /\ receipt \in Receipt
    BY <1>3, <1>5 DEF Receipts
  <2> HIDE DEF Receipt
  <2>2. /\ Append(queue, receipt) \in Seq(Receipt)
        /\ DOMAIN Append(queue, receipt) = 1 .. Len(queue) + 1
        /\ DOMAIN queue = 1 .. Len(queue) /\ Len(queue) \in Nat
        /\ Append(queue, receipt)[Len(queue) + 1] = receipt
        /\ \A i \in 1 .. Len(queue) : Append(queue, receipt)[i] = queue[i]
    BY <2>1
  <2>3. Append(queue, receipt) \in Receipts
    BY <2>2 DEF Receipts, Receipt
  <2> QED BY <1>1, <1>3, <1>5, <2>2, <2>3
<1>7. IsLedger(k)
  <2>1. k.received \in [DOMAIN k.received -> RewardAddresses]
    <3>1. k.received = [x \in DOMAIN k.received |-> k.received[x]]
      BY <1>1 DEF Put
    <3>2. \A x \in DOMAIN l.received : l.received[x] \in RewardAddresses
      BY DEF Good, IsLedger
    <3> QED BY <1>4, <3>1, <3>2
  <2>2. /\ k.messageNonce \in Nat
        /\ k.sentMessageInfo \in [DOMAIN k.sentMessageInfo ->
                                   [msg : Messages, asset : Assets \cup {NoAsset}, amount : Nat]]
        /\ k.receivedFailedMessageHashes \in [DOMAIN k.receivedFailedMessageHashes -> Messages]
        /\ k.relayerRewardAmounts \in [RewardAddresses -> [Assets -> Nat]]
        /\ k.balance \in [Assets -> Nat]
        /\ k.redeemed \in [Relayers -> [Assets -> Nat]]
        /\ k.executed \in [DOMAIN k.executed -> Nat]
        /\ k.receiptsReceived \in [DOMAIN k.receiptsReceived ->
              [relayer : RewardAddresses, asset : Assets \cup {NoAsset}, amount : Nat]]
        /\ k.outbox \subseteq Messages
    BY <1>1 DEF Good, IsLedger
  <2> QED BY <1>2, <1>6, <2>1, <2>2 DEF IsLedger
<1>8. /\ \A m : Logged(log, c, k, m) <=> Logged(log, c, l, m)
      /\ \A m : Carries(log, c, k, sending, m) <=> Carries(log, c, l, sending, m)
  BY <1>1 DEF Carries, Logged
<1>9. Numbered(log, c, k, sending)
  BY <1>1, <1>8 DEF Good, Numbered
<1>10. Covered(k, due) /\ PaidOut(k, due) /\ \A a \in Assets : Owes(k, a) = Owes(l, a)
  BY <1>1 DEF Good, Covered, PaidOut, Owes, FeesHeld, RewardsHeld
<1>11. /\ \A s, r : Records(l, c, s, r) => Records(k, c, s, r)
       /\ Records(k, c, source, receipt)
  BY <1>3, <1>4, <1>5 DEF Records
<1>12. Recorded(log, c, k, sending)
  <2>1. ASSUME NEW s \in Chains, NEW i \in DOMAIN k.receiptQueues[s]
        PROVE  Records(k, c, s, k.receiptQueues[s][i])
    <3>1. CASE s # source
      BY <1>6, <1>11, <3>1 DEF Good, Recorded
    <3>2. CASE s = source /\ i = Len(l.receiptQueues[source]) + 1
      BY <1>6, <1>11, <3>2
    <3>3. CASE s = source /\ i \in 1 .. Len(l.receiptQueues[source])
      BY <1>3, <1>6, <1>11, <3>3 DEF Good, Recorded
    <3> QED BY <1>6, <3>1, <3>2, <3>3
  <2>2. \A m \in Messages : Carries(log, c, k, sending, m) =>
          \A i \in DOMAIN m.receipts : Records(k, c, m.destination, m.receipts[i])
    BY <1>8, <1>11 DEF Good, Recorded
  <2> QED BY <2>1, <2>2 DEF Recorded
<1>13. FromLog(log, c, k)
  BY <1>1, <1>3, <1>4 DEF Good, FromLog
<1>14. Kept(log, c, k, sending)
  <2> SUFFICES ASSUME NEW x \in DOMAIN k.received
      PROVE  \/ \E i \in DOMAIN k.receiptQueues[x[1]] : k.receiptQueues[x[1]][i] = ReceiptFor(k, x)
             \/ \E m \in Messages : /\ Carries(log, c, k, sending, m)
                                    /\ m.destination = x[1]
                                    /\ \E i \in DOMAIN m.receipts : m.receipts[i] = ReceiptFor(k, x)
    BY DEF Kept
  <2>1. CASE x = id
    <3>1. Len(l.receiptQueues[source]) + 1 \in DOMAIN k.receiptQueues[source]
      BY <1>6
    <3> QED BY <1>3, <1>5, <1>6, <2>1, <3>1
  <2>2. CASE x \in DOMAIN l.received
    <3>1. ReceiptFor(k, x) = ReceiptFor(l, x)
      BY <1>4, <2>2 DEF ReceiptFor
    <3>2. x[1] \in Chains
      BY <2>2, IDParts DEF Good, FromLog
    <3>3. CASE \E i \in DOMAIN l.receiptQueues[x[1]] : l.receiptQueues[x[1]][i] = ReceiptFor(l, x)
      <4>1. PICK i \in DOMAIN l.receiptQueues[x[1]] : l.receiptQueues[x[1]][i] = ReceiptFor(l, x)
        BY <3>3
      <4>2. i \in DOMAIN k.receiptQueues[x[1]] /\ k.receiptQueues[x[1]][i] = l.receiptQueues[x[1]][i]
        BY <1>6, <3>2, <4>1
      <4> QED BY <3>1, <4>1, <4>2
    <3>4. CASE \E m \in Messages : /\ Carries(log, c, l, sending, m)
                                   /\ m.destination = x[1]
                                   /\ \E i \in DOMAIN m.receipts : m.receipts[i] = ReceiptFor(l, x)
      BY <1>8, <3>1, <3>4
    <3> QED BY <2>2, <3>3, <3>4 DEF Good, Kept
  <2> QED BY <1>4, <2>1, <2>2
<1>15. Receipted(log, c, k)
  BY <1>1 DEF Good, Receipted
<1>16. \A s \in Chains, m \in Messages : Warp(s, m) \in log /\ m.destination = c =>
         /\ Runs(k, IDOf(s, m)) + Failures(k, IDOf(s, m))
              = Runs(l, IDOf(s, m)) + Failures(l, IDOf(s, m))
         /\ Runs(l, IDOf(s, m)) + Failures(l, IDOf(s, m))
              = IF m.payload /\ IDOf(s, m) \in DOMAIN l.received THEN 1 ELSE 0
  BY <1>1 DEF Good, OneOutcome, Runs, Failures
<1>17. OneOutcome(log, c, k, {id})
  BY <1>4, <1>16 DEF OneOutcome
<1>18. ASSUME ~msg.payload PROVE OneOutcome(log, c, k, {})
  <2> SUFFICES ASSUME NEW s \in Chains, NEW m \in Messages, Warp(s, m) \in log, m.destination = c
      PROVE  Runs(k, IDOf(s, m)) + Failures(k, IDOf(s, m))
               = IF m.payload /\ IDOf(s, m) \in DOMAIN k.received THEN 1 ELSE 0
    BY DEF OneOutcome
  <2>1. CASE IDOf(s, m) = id
    <3>1. s = source
      BY <1>3, <2>1, IDParts
    <3>2. m = msg
      BY <1>3, <2>1, <3>1 DEF UniqueIDs
    <3> QED BY <1>16, <1>18, <2>1, <3>2
  <2>2. CASE IDOf(s, m) # id
    BY <1>4, <1>16, <2>2
  <2> QED BY <2>1, <2>2
<1> QED BY <1>4, <1>7, <1>9, <1>10, <1>12, <1>13, <1>14, <1>15, <1>17, <1>18 DEF Good

\* The storages differ in what was executed or failed only.
SameButOutcomes(l, k) ==
  k = [l EXCEPT !.receivedFailedMessageHashes = k.receivedFailedMessageHashes,
                !.executed = k.executed]

\* Such a storage keeps what is said of the rest.
LEMMA OtherOutcome ==
  ASSUME NEW log, NEW c \in Chains, NEW l, NEW open, NEW sending, NEW due,
         Good(log, c, l, open, sending, due),
         NEW k, SameButOutcomes(l, k),
         k.receivedFailedMessageHashes \in [DOMAIN k.receivedFailedMessageHashes -> Messages],
         k.executed \in [DOMAIN k.executed -> Nat],
         DOMAIN k.receivedFailedMessageHashes \subseteq DOMAIN l.received,
         DOMAIN k.executed \subseteq DOMAIN l.received,
         NEW other, OneOutcome(log, c, k, other)
  PROVE  /\ Good(log, c, k, other, sending, due)
         /\ \A a \in Assets : Owes(k, a) = Owes(l, a)
<1>1. /\ k.messageNonce = l.messageNonce
      /\ k.receiptQueues = l.receiptQueues
      /\ k.sentMessageInfo = l.sentMessageInfo
      /\ k.received = l.received
      /\ k.relayerRewardAmounts = l.relayerRewardAmounts
      /\ k.balance = l.balance
      /\ k.redeemed = l.redeemed
      /\ k.receiptsReceived = l.receiptsReceived
      /\ k.outbox = l.outbox
  BY DEF Good, IsLedger, SameButOutcomes
<1>2. IsLedger(k)
  <2>1. k = [messageNonce |-> k.messageNonce, receiptQueues |-> k.receiptQueues,
             sentMessageInfo |-> k.sentMessageInfo,
             receivedFailedMessageHashes |-> k.receivedFailedMessageHashes,
             received |-> k.received, relayerRewardAmounts |-> k.relayerRewardAmounts,
             balance |-> k.balance, redeemed |-> k.redeemed, executed |-> k.executed,
             receiptsReceived |-> k.receiptsReceived, outbox |-> k.outbox]
    BY DEF Good, IsLedger, SameButOutcomes
  <2> QED BY <1>1, <2>1 DEF Good, IsLedger
<1>3. /\ \A m : Logged(log, c, k, m) <=> Logged(log, c, l, m)
      /\ \A m : Carries(log, c, k, sending, m) <=> Carries(log, c, l, sending, m)
      /\ \A s, receipt : Records(k, c, s, receipt) <=> Records(l, c, s, receipt)
      /\ \A x : ReceiptFor(k, x) = ReceiptFor(l, x)
  BY <1>1 DEF Carries, Logged, Records, ReceiptFor
<1>4. Numbered(log, c, k, sending)
  BY <1>1, <1>3 DEF Good, Numbered
<1>5. Covered(k, due) /\ PaidOut(k, due) /\ \A a \in Assets : Owes(k, a) = Owes(l, a)
  BY <1>1 DEF Good, Covered, PaidOut, Owes, FeesHeld, RewardsHeld
<1>6. Recorded(log, c, k, sending)
  BY <1>1, <1>3 DEF Good, Recorded
<1>7. Kept(log, c, k, sending)
  BY <1>1, <1>3 DEF Good, Kept
<1>8. FromLog(log, c, k) /\ Receipted(log, c, k)
  BY <1>1 DEF Good, FromLog, Receipted
<1> QED BY <1>2, <1>4, <1>5, <1>6, <1>7, <1>8 DEF Good

\* While a message with a payload is executed, it has no outcome yet.
LEMMA NoOutcomeYet ==
  ASSUME NEW log, NEW c, NEW l, NEW source, NEW msg, NEW id, IsDelivery(log, c, source, msg, id),
         NEW sending, NEW due, Good(log, c, l, {id}, sending, due)
  PROVE  /\ id \notin DOMAIN l.receivedFailedMessageHashes
         /\ Runs(l, id) = 0
         /\ \A x \in DOMAIN l.executed : Runs(l, x) \in Nat
<1>1. Runs(l, id) + Failures(l, id) = 0
  BY DEF IsDelivery, Good, OneOutcome
<1>2. \A x \in DOMAIN l.executed : Runs(l, x) \in Nat
  BY DEF Good, IsLedger, Runs
<1>3. Runs(l, id) \in Nat
  BY <1>2 DEF Runs
<1>4. Failures(l, id) \in {0, 1}
  BY DEF Failures
<1>5. Failures(l, id) = 0 /\ Runs(l, id) = 0
  BY <1>1, <1>3, <1>4
<1>6. id \notin DOMAIN l.receivedFailedMessageHashes
  BY <1>5 DEF Failures
<1> QED BY <1>2, <1>5, <1>6

\* An execution that fails is stored (_storeFailedMessageExecution).
LEMMA FailedSound ==
  ASSUME NEW log, NEW c \in Chains, NEW l, NEW sending, NEW id, NEW due,
         Good(log, c, l, {id}, sending, due),
         NEW source, NEW msg, IsDelivery(log, c, source, msg, id), UniqueIDs(log),
         msg.payload, id \in DOMAIN l.received,
         NEW k, k = StoreFailed(l, id, msg)
  PROVE  /\ Good(log, c, k, {}, sending, due)
         /\ \A a \in Assets : Owes(k, a) = Owes(l, a)
<1> DEFINE failed == Put(l.receivedFailedMessageHashes, id, msg)
<1>1. /\ SameButOutcomes(l, k)
      /\ k.receivedFailedMessageHashes = failed /\ k.executed = l.executed
      /\ k.received = l.received
  BY DEF StoreFailed, Good, IsLedger, SameButOutcomes
<1>2. DOMAIN failed = DOMAIN l.receivedFailedMessageHashes \cup {id}
  BY DEF Put
<1>3. failed \in [DOMAIN failed -> Messages]
  BY DEF Put, Good, IsLedger, IsDelivery
<1> HIDE DEF failed
<1>4. /\ DOMAIN failed \subseteq DOMAIN l.received
      /\ DOMAIN l.executed \subseteq DOMAIN l.received
      /\ l.executed \in [DOMAIN l.executed -> Nat]
  BY <1>2 DEF Good, FromLog, IsLedger
<1>5. OneOutcome(log, c, k, {})
  <2> SUFFICES ASSUME NEW s \in Chains, NEW m \in Messages, Warp(s, m) \in log, m.destination = c
      PROVE  Runs(k, IDOf(s, m)) + Failures(k, IDOf(s, m))
               = IF m.payload /\ IDOf(s, m) \in DOMAIN k.received THEN 1 ELSE 0
    BY DEF OneOutcome
  <2>1. CASE IDOf(s, m) = id
    <3>1. s = source /\ source \in Chains /\ msg \in Messages /\ Warp(source, msg) \in log
          /\ id = IDOf(source, msg)
      BY <2>1, IDParts DEF IsDelivery
    <3>2. m = msg
      BY <2>1, <3>1 DEF UniqueIDs
    <3>3. Runs(k, id) = 0 /\ Failures(k, id) = 1
      BY <1>1, <1>2, NoOutcomeYet DEF Runs, Failures
    <3> QED BY <1>1, <2>1, <3>2, <3>3
  <2>2. CASE IDOf(s, m) # id
    <3>1. /\ Runs(k, IDOf(s, m)) = Runs(l, IDOf(s, m))
          /\ Failures(k, IDOf(s, m)) = Failures(l, IDOf(s, m))
      BY <1>1, <1>2, <2>2 DEF Runs, Failures
    <3> QED BY <1>1, <2>2, <3>1 DEF Good, OneOutcome
  <2> QED BY <2>1, <2>2
<1> QED BY <1>1, <1>3, <1>4, <1>5, OtherOutcome

\* The storage when the destination contract takes a message.
Executed(l, id) == [l EXCEPT !.executed = Put(@, id, Runs(l, id) + 1)]

\* The destination contract takes the message (receiveTeleporterMessage).
LEMMA ExecutedSound ==
  ASSUME NEW log, NEW c \in Chains, NEW l, NEW sending, NEW id, NEW due,
         Good(log, c, l, {id}, sending, due),
         NEW source, NEW msg, IsDelivery(log, c, source, msg, id), UniqueIDs(log),
         msg.payload, id \in DOMAIN l.received,
         NEW k, k = Executed(l, id)
  PROVE  /\ Good(log, c, k, {}, sending, due)
         /\ \A a \in Assets : Owes(k, a) = Owes(l, a)
<1> DEFINE executed == Put(l.executed, id, 1)
           failed == l.receivedFailedMessageHashes
<1>1. Runs(l, id) = 0 /\ id \notin DOMAIN failed
  BY NoOutcomeYet
<1>2. /\ SameButOutcomes(l, k)
      /\ k.receivedFailedMessageHashes = failed /\ k.executed = executed
      /\ k.received = l.received
  <2>1. Runs(l, id) + 1 = 1
    BY <1>1
  <2>2. k = [l EXCEPT !.executed = executed]
    BY <2>1 DEF Executed
  <2> HIDE DEF executed
  <2> QED BY <2>2 DEF Good, IsLedger, SameButOutcomes
<1>3. /\ DOMAIN executed = DOMAIN l.executed \cup {id} /\ executed[id] = 1
      /\ \A x \in DOMAIN l.executed : x # id => executed[x] = l.executed[x]
  BY DEF Put
<1>4. executed \in [DOMAIN executed -> Nat]
  BY DEF Put, Good, IsLedger
<1> HIDE DEF failed, executed
<1>5. /\ DOMAIN failed \subseteq DOMAIN l.received
      /\ DOMAIN executed \subseteq DOMAIN l.received
      /\ failed \in [DOMAIN failed -> Messages]
  BY <1>3 DEF Good, FromLog, IsLedger, failed
<1>6. OneOutcome(log, c, k, {})
  <2> SUFFICES ASSUME NEW s \in Chains, NEW m \in Messages, Warp(s, m) \in log, m.destination = c
      PROVE  Runs(k, IDOf(s, m)) + Failures(k, IDOf(s, m))
               = IF m.payload /\ IDOf(s, m) \in DOMAIN k.received THEN 1 ELSE 0
    BY DEF OneOutcome
  <2>1. CASE IDOf(s, m) = id
    <3>1. s = source /\ source \in Chains /\ msg \in Messages /\ Warp(source, msg) \in log
          /\ id = IDOf(source, msg)
      BY <2>1, IDParts DEF IsDelivery
    <3>2. m = msg
      BY <2>1, <3>1 DEF UniqueIDs
    <3>3. Runs(k, id) = 1 /\ Failures(k, id) = 0
      BY <1>1, <1>2, <1>3 DEF Runs, Failures
    <3> QED BY <1>2, <2>1, <3>2, <3>3
  <2>2. CASE IDOf(s, m) # id
    <3>1. /\ Runs(k, IDOf(s, m)) = Runs(l, IDOf(s, m))
          /\ Failures(k, IDOf(s, m)) = Failures(l, IDOf(s, m))
      BY <1>2, <1>3, <2>2 DEF Runs, Failures, failed
    <3> QED BY <1>2, <2>2, <3>1 DEF Good, OneOutcome
  <2> QED BY <2>1, <2>2
<1>7. /\ k.receivedFailedMessageHashes \in [DOMAIN k.receivedFailedMessageHashes -> Messages]
      /\ DOMAIN k.receivedFailedMessageHashes \subseteq DOMAIN l.received
  BY <1>2, <1>5
<1>8. k.executed \in [DOMAIN k.executed -> Nat] /\ DOMAIN k.executed \subseteq DOMAIN l.received
  BY <1>2, <1>4, <1>5
<1> QED BY <1>2, <1>6, <1>7, <1>8, OtherOutcome

\* A failed message is a delivered message with a payload.
LEMMA FailedIsDelivery ==
  ASSUME NEW log, NEW c, NEW l, NEW sending, NEW due, Good(log, c, l, {}, sending, due),
         NEW id \in DOMAIN l.receivedFailedMessageHashes
  PROVE  /\ id \in DOMAIN l.received
         /\ \E source, msg : IsDelivery(log, c, source, msg, id) /\ msg.payload /\ Runs(l, id) = 0
<1>1. id \in DOMAIN l.received
  BY DEF Good, FromLog
<1>2. PICK s \in Chains, m \in Messages :
        Warp(s, m) \in log /\ m.destination = c /\ id = IDOf(s, m)
  BY <1>1 DEF Good, FromLog
<1>3. Runs(l, id) + Failures(l, id) = IF m.payload THEN 1 ELSE 0
  BY <1>1, <1>2 DEF Good, OneOutcome
<1>4. Failures(l, id) = 1
  BY DEF Failures
<1>5. Runs(l, id) \in Nat
  BY DEF Runs, Good, IsLedger
<1>6. m.payload /\ Runs(l, id) = 0
  BY <1>3, <1>4, <1>5
<1> QED BY <1>1, <1>2, <1>6 DEF IsDelivery

\* A retry clears the failed message before it executes it again (retryMessageExecution).
LEMMA ClearedSound ==
  ASSUME NEW log, NEW c \in Chains, NEW l, NEW sending, NEW due, Good(log, c, l, {}, sending, due),
         UniqueIDs(log), NEW id \in DOMAIN l.receivedFailedMessageHashes,
         NEW k, k = ClearFailed(l, id)
  PROVE  /\ Good(log, c, k, {id}, sending, due)
         /\ \A a \in Assets : Owes(k, a) = Owes(l, a)
         /\ k.received = l.received
<1> DEFINE failed == Drop(l.receivedFailedMessageHashes, {id})
<1>1. PICK source, msg : IsDelivery(log, c, source, msg, id) /\ msg.payload /\ Runs(l, id) = 0
  BY FailedIsDelivery
<1>2. /\ SameButOutcomes(l, k)
      /\ k.receivedFailedMessageHashes = failed /\ k.executed = l.executed
      /\ k.received = l.received
  BY DEF ClearFailed, Good, IsLedger, SameButOutcomes
<1>3. DOMAIN failed = DOMAIN l.receivedFailedMessageHashes \ {id}
  BY DEF Drop, Restrict
<1>4. failed \in [DOMAIN failed -> Messages]
  BY DEF Drop, Restrict, Good, IsLedger
<1> HIDE DEF failed
<1>5. /\ DOMAIN failed \subseteq DOMAIN l.received
      /\ DOMAIN l.executed \subseteq DOMAIN l.received
      /\ l.executed \in [DOMAIN l.executed -> Nat]
  BY <1>3 DEF Good, FromLog, IsLedger
<1>6. OneOutcome(log, c, k, {id})
  <2> SUFFICES ASSUME NEW s \in Chains, NEW m \in Messages, Warp(s, m) \in log, m.destination = c
      PROVE  Runs(k, IDOf(s, m)) + Failures(k, IDOf(s, m))
               = IF m.payload /\ IDOf(s, m) \in DOMAIN k.received \ {id} THEN 1 ELSE 0
    BY DEF OneOutcome
  <2>1. CASE IDOf(s, m) = id
    <3>1. Runs(k, id) = 0 /\ Failures(k, id) = 0
      BY <1>1, <1>2, <1>3 DEF Runs, Failures
    <3> QED BY <2>1, <3>1
  <2>2. CASE IDOf(s, m) # id
    <3>1. /\ Runs(k, IDOf(s, m)) = Runs(l, IDOf(s, m))
          /\ Failures(k, IDOf(s, m)) = Failures(l, IDOf(s, m))
      BY <1>2, <1>3, <2>2 DEF Runs, Failures
    <3> QED BY <1>2, <2>2, <3>1 DEF Good, OneOutcome
  <2> QED BY <2>1, <2>2
<1>7. /\ k.receivedFailedMessageHashes \in [DOMAIN k.receivedFailedMessageHashes -> Messages]
      /\ k.executed \in [DOMAIN k.executed -> Nat]
      /\ DOMAIN k.receivedFailedMessageHashes \subseteq DOMAIN l.received
      /\ DOMAIN k.executed \subseteq DOMAIN l.received
  BY <1>2, <1>4, <1>5 DEF Good, IsLedger
<1> QED BY <1>2, <1>6, <1>7, OtherOutcome

\* The messages of a chain become those of the log (a block is accepted).
LEMMA EmitSound ==
  ASSUME NEW log, NEW c \in Chains, NEW l, NEW due, Good(log, c, l, {}, {}, due), LogSound(log),
         NEW next, next = log \cup {Warp(c, m) : m \in l.outbox},
         NEW k, k = [l EXCEPT !.outbox = {}]
  PROVE  /\ LogSound(next)
         /\ Good(next, c, k, {}, {}, due)
         /\ \A a \in Assets : Owes(k, a) = Owes(l, a)
<1>1. /\ k.messageNonce = l.messageNonce
      /\ k.receiptQueues = l.receiptQueues
      /\ k.sentMessageInfo = l.sentMessageInfo
      /\ k.receivedFailedMessageHashes = l.receivedFailedMessageHashes
      /\ k.received = l.received
      /\ k.relayerRewardAmounts = l.relayerRewardAmounts
      /\ k.balance = l.balance
      /\ k.redeemed = l.redeemed
      /\ k.executed = l.executed
      /\ k.receiptsReceived = l.receiptsReceived
      /\ k.outbox = {}
  BY DEF Good, IsLedger
<1>2. IsLedger(k)
  <2>1. k = [messageNonce |-> k.messageNonce, receiptQueues |-> k.receiptQueues,
             sentMessageInfo |-> k.sentMessageInfo,
             receivedFailedMessageHashes |-> k.receivedFailedMessageHashes,
             received |-> k.received, relayerRewardAmounts |-> k.relayerRewardAmounts,
             balance |-> k.balance, redeemed |-> k.redeemed, executed |-> k.executed,
             receiptsReceived |-> k.receiptsReceived, outbox |-> k.outbox]
    BY DEF Good, IsLedger
  <2> QED BY <1>1, <2>1 DEF Good, IsLedger
<1>3. /\ l.outbox \subseteq Messages /\ log \subseteq next
      /\ \A s, m : Warp(s, m) \in next <=> Warp(s, m) \in log \/ (s = c /\ m \in l.outbox)
  BY DEF Warp, Good, IsLedger
<1>4. LogSound(next)
  BY <1>3 DEF LogSound
<1>5. /\ \A m : Logged(next, c, k, m) <=> Logged(log, c, l, m)
      /\ \A m : Carries(next, c, k, {}, m) <=> Carries(log, c, l, {}, m)
      /\ \A s, receipt : Records(k, c, s, receipt) <=> Records(l, c, s, receipt)
      /\ \A x : ReceiptFor(k, x) = ReceiptFor(l, x)
  BY <1>1, <1>3 DEF Carries, Logged, Records, ReceiptFor
<1>6. Numbered(next, c, k, {})
  BY <1>1, <1>5 DEF Good, Numbered
<1>7. Covered(k, due) /\ PaidOut(k, due) /\ \A a \in Assets : Owes(k, a) = Owes(l, a)
  BY <1>1 DEF Good, Covered, PaidOut, Owes, FeesHeld, RewardsHeld
<1>8. Recorded(next, c, k, {})
  BY <1>1, <1>5 DEF Good, Recorded
<1>9. Kept(next, c, k, {})
  <2>1. /\ k.received = l.received /\ k.receiptQueues = l.receiptQueues
        /\ \A x : ReceiptFor(k, x) = ReceiptFor(l, x)
    BY <1>1, <1>5
  <2> SUFFICES ASSUME NEW id \in DOMAIN l.received
      PROVE  \/ \E i \in DOMAIN l.receiptQueues[id[1]] : l.receiptQueues[id[1]][i] = ReceiptFor(l, id)
             \/ \E m \in Messages : /\ Carries(next, c, k, {}, m)
                                    /\ m.destination = id[1]
                                    /\ \E i \in DOMAIN m.receipts : m.receipts[i] = ReceiptFor(l, id)
    BY <2>1 DEF Kept
  <2>2. Kept(log, c, l, {})
    BY DEF Good
  <2>3. \/ \E i \in DOMAIN l.receiptQueues[id[1]] : l.receiptQueues[id[1]][i] = ReceiptFor(l, id)
        \/ \E m \in Messages : /\ Carries(log, c, l, {}, m)
                               /\ m.destination = id[1]
                               /\ \E i \in DOMAIN m.receipts : m.receipts[i] = ReceiptFor(l, id)
    BY <2>2 DEF Kept
  <2>4. \A m : Carries(log, c, l, {}, m) => Carries(next, c, k, {}, m)
    BY <1>5
  <2> QED BY <2>3, <2>4
<1>10. FromLog(next, c, k) /\ Receipted(next, c, k)
  BY <1>1, <1>3 DEF Good, FromLog, Receipted
<1>11. OneOutcome(next, c, k, {})
  <2>1. \A m \in Messages : m \in l.outbox /\ IDOf(c, m) \in DOMAIN l.received => Warp(c, m) \in log
    BY IDParts DEF Good, FromLog, Numbered, Logged
  <2> QED BY <1>1, <1>3, <2>1 DEF Good, OneOutcome, FromLog, Runs, Failures
<1> QED BY <1>2, <1>4, <1>6, <1>7, <1>8, <1>9, <1>10, <1>11 DEF Good

\* The messages of chain c that become part of the log are new to the other chains.
LEMMA EmitElsewhere ==
  ASSUME NEW log, NEW c \in Chains, NEW l, NEW due, Good(log, c, l, {}, {}, due),
         NEW next, next = log \cup {Warp(c, m) : m \in l.outbox},
         NEW d \in Chains, d # c, NEW k, NEW owed, Good(log, d, k, {}, {}, owed)
  PROVE  Good(next, d, k, {}, {}, owed)
<1>1. /\ l.outbox \subseteq Messages /\ log \subseteq next
      /\ \A s, m : Warp(s, m) \in next <=> Warp(s, m) \in log \/ (s = c /\ m \in l.outbox)
  BY DEF Warp, Good, IsLedger
<1>2. /\ \A m : Logged(next, d, k, m) <=> Logged(log, d, k, m)
      /\ \A m : Carries(next, d, k, {}, m) <=> Carries(log, d, k, {}, m)
  BY <1>1 DEF Carries, Logged
<1>3. Numbered(next, d, k, {})
  BY <1>2 DEF Good, Numbered
<1>4. Recorded(next, d, k, {})
  BY <1>2 DEF Good, Recorded
<1>5. Kept(next, d, k, {})
  BY <1>2 DEF Good, Kept
<1>6. FromLog(next, d, k) /\ Receipted(next, d, k)
  BY <1>1 DEF Good, FromLog, Receipted
<1>7. OneOutcome(next, d, k, {})
  <2>1. ASSUME NEW m \in Messages, m \in l.outbox, m.destination = d, IDOf(c, m) \in DOMAIN k.received
        PROVE  Warp(c, m) \in log
    <3>1. PICK s \in Chains, n \in Messages : Warp(s, n) \in log /\ IDOf(c, m) = IDOf(s, n)
      BY <2>1 DEF Good, FromLog
    <3>2. s = c
      BY <3>1, IDParts
    <3>3. n = m
      BY <2>1, <3>1, <3>2 DEF Good, Numbered, Logged
    <3> QED BY <3>1, <3>2, <3>3
  <2> QED BY <1>1, <2>1 DEF Good, OneOutcome, FromLog, Runs, Failures
<1> QED BY <1>3, <1>4, <1>5, <1>6, <1>7 DEF Good

-----------------------------------------------------------------------------
\* Calls that open and end.

\* A stack is a sequence.
LEMMA StackIsSeq ==
  ASSUME NEW t, IsStack(t)
  PROVE  \E S : t \in Seq(S)
<1> DEFINE S == {t[i] : i \in 1 .. Len(t)}
<1>1. t \in [1 .. Len(t) -> S]
  BY DEF IsStack
<1>2. t \in Seq(S)
  <2> HIDE DEF S
  <2> QED BY <1>1 DEF IsStack
<1> QED BY <1>2

\* A call is opened on top of those that are open.
LEMMA PushParts ==
  ASSUME NEW t, IsStack(t), NEW f
  PROVE  /\ IsStack(Append(t, f))
         /\ Len(t) \in Nat /\ DOMAIN t = 1 .. Len(t)
         /\ DOMAIN Append(t, f) = 1 .. Len(t) + 1
         /\ Append(t, f)[Len(t) + 1] = f
         /\ \A i \in DOMAIN t : Append(t, f)[i] = t[i]
         /\ SubSeq(Append(t, f), 1, Len(t)) = t
         /\ \A i \in DOMAIN t : SubSeq(Append(t, f), 1, i - 1) = SubSeq(t, 1, i - 1)
         /\ Append(t, f) # <<>>
<1>1. PICK S : t \in Seq(S)
  BY StackIsSeq
<1> DEFINE T == S \cup {f}
           p == Append(t, f)
<1>2. t \in Seq(T) /\ f \in T
  BY <1>1
<1> HIDE DEF T
<1>3. /\ Len(t) \in Nat /\ DOMAIN t = 1 .. Len(t) /\ Len(p) = Len(t) + 1
      /\ DOMAIN p = 1 .. Len(t) + 1
      /\ p[Len(t) + 1] = f
      /\ \A i \in 1 .. Len(t) : p[i] = t[i]
      /\ p = [i \in 1 .. Len(p) |-> p[i]]
      /\ p \in Seq(T)
  <2>1. /\ p \in Seq(T) /\ Len(p) = Len(t) + 1 /\ p[Len(t) + 1] = f
        /\ \A i \in 1 .. Len(t) : p[i] = t[i]
    BY <1>2, AppendProperties
  <2>2. Len(t) \in Nat /\ DOMAIN t = 1 .. Len(t)
    BY <1>2
  <2> HIDE DEF p
  <2>3. DOMAIN p = 1 .. Len(p) /\ p = [i \in 1 .. Len(p) |-> p[i]]
    BY <2>1
  <2> QED BY <2>1, <2>2, <2>3
<1> HIDE DEF p
<1>4. ASSUME NEW n \in 0 .. Len(t)
      PROVE  SubSeq(p, 1, n) = SubSeq(t, 1, n)
  <2>1. SubSeq(p, 1, n) = [i \in 1 .. n |-> p[i]] /\ SubSeq(t, 1, n) = [i \in 1 .. n |-> t[i]]
    BY <1>2, <1>3
  <2>2. \A i \in 1 .. n : p[i] = t[i]
    BY <1>3
  <2> QED BY <2>1, <2>2
<1>5. SubSeq(t, 1, Len(t)) = t
  BY <1>2, <1>3
<1>6. \A i \in DOMAIN t : i - 1 \in 0 .. Len(t)
  BY <1>3
<1>7. p # <<>>
  BY <1>3
<1>8. IsStack(p)
  BY <1>3 DEF IsStack
<1> QED BY <1>3, <1>4, <1>5, <1>6, <1>7, <1>8 DEF p

\* What the innermost call leaves open when it ends.
Under(t) == SubSeq(t, 1, Len(t) - 1)

\* The innermost call ends.
LEMMA PopParts ==
  ASSUME NEW t, IsStack(t), t # <<>>, NEW p, p = Under(t)
  PROVE  /\ IsStack(p)
         /\ Len(t) \in DOMAIN t /\ DOMAIN t = 1 .. Len(t)
         /\ DOMAIN p = 1 .. Len(t) - 1
         /\ \A i \in DOMAIN p : p[i] = t[i] /\ SubSeq(p, 1, i - 1) = SubSeq(t, 1, i - 1)
<1>1. PICK S : t \in Seq(S)
  BY StackIsSeq
<1>2. Len(t) \in Nat /\ DOMAIN t = 1 .. Len(t) /\ Len(t) # 0
  BY <1>1
<1>3. /\ p \in Seq(S) /\ Len(p) = Len(t) - 1
      /\ \A i \in 1 .. Len(t) - 1 : p[i] = t[i]
      /\ DOMAIN p = 1 .. Len(t) - 1
      /\ p = [i \in 1 .. Len(p) |-> p[i]]
  BY <1>1, <1>2 DEF Under
<1>4. IsStack(p)
  BY <1>2, <1>3 DEF IsStack
<1>5. ASSUME NEW n \in 0 .. Len(t) - 1
      PROVE  SubSeq(p, 1, n) = SubSeq(t, 1, n)
  <2>1. SubSeq(p, 1, n) = [i \in 1 .. n |-> p[i]] /\ SubSeq(t, 1, n) = [i \in 1 .. n |-> t[i]]
    BY <1>1, <1>2, <1>3
  <2>2. \A i \in 1 .. n : p[i] = t[i]
    BY <1>2, <1>3
  <2> QED BY <2>1, <2>2
<1>6. \A i \in DOMAIN p : i - 1 \in 0 .. Len(t) - 1
  BY <1>2, <1>3
<1> QED BY <1>2, <1>3, <1>4, <1>5, <1>6

\* The messages whose fees are being transferred, with one call more.
LEMMA SendingParts ==
  ASSUME NEW t, NEW p, NEW c, NEW n, n \in DOMAIN t,
         \A i : i \in DOMAIN t <=> i \in DOMAIN p \/ i = n,
         \A i \in DOMAIN p : i \in DOMAIN t /\ p[i] = t[i]
  PROVE  SendingOf(t, c)
           = SendingOf(p, c) \cup (IF t[n].op = "send" /\ t[n].chain = c THEN {t[n].msg} ELSE {})
<1>1. /\ \A x : x \in SendingOf(t, c) <=>
              \E i \in DOMAIN t : t[i].op = "send" /\ t[i].chain = c /\ x = t[i].msg
      /\ \A x : x \in SendingOf(p, c) <=>
              \E i \in DOMAIN p : p[i].op = "send" /\ p[i].chain = c /\ x = p[i].msg
  BY DEF SendingOf
<1>2. ASSUME NEW x \in SendingOf(t, c), x \notin SendingOf(p, c)
      PROVE  t[n].op = "send" /\ t[n].chain = c /\ x = t[n].msg
  <2>1. PICK i \in DOMAIN t : t[i].op = "send" /\ t[i].chain = c /\ x = t[i].msg
    BY <1>1
  <2>2. i \notin DOMAIN p
    BY <1>1, <1>2, <2>1
  <2>3. i = n
    BY <2>2
  <2> QED BY <2>1, <2>3
<1>3. SendingOf(p, c) \subseteq SendingOf(t, c)
  BY <1>1
<1>4. t[n].op = "send" /\ t[n].chain = c => t[n].msg \in SendingOf(t, c)
  BY <1>1
<1> QED BY <1>2, <1>3, <1>4

\* They are those of the call that is opened and of the others.
LEMMA PushSending ==
  ASSUME NEW t, IsStack(t), NEW f, NEW c
  PROVE  SendingOf(Append(t, f), c)
           = SendingOf(t, c) \cup (IF f.op = "send" /\ f.chain = c THEN {f.msg} ELSE {})
<1> DEFINE p == Append(t, f)
           n == Len(t) + 1
<1>1. /\ n \in DOMAIN p /\ p[n] = f
      /\ \A i : i \in DOMAIN p <=> i \in DOMAIN t \/ i = n
      /\ \A i \in DOMAIN t : i \in DOMAIN p /\ t[i] = p[i]
  BY PushParts
<1> HIDE DEF p, n
<1>2. SendingOf(p, c)
        = SendingOf(t, c) \cup (IF p[n].op = "send" /\ p[n].chain = c THEN {p[n].msg} ELSE {})
  BY <1>1, SendingParts
<1> QED BY <1>1, <1>2 DEF p

\* They are those of the innermost call and of the others.
LEMMA PopSending ==
  ASSUME NEW t, IsStack(t), t # <<>>, NEW p, p = Under(t), NEW c
  PROVE  SendingOf(t, c)
           = SendingOf(p, c) \cup (IF t[Len(t)].op = "send" /\ t[Len(t)].chain = c
                                   THEN {t[Len(t)].msg} ELSE {})
<1>1. Len(t) \in DOMAIN t
  BY PopParts
<1>2. /\ \A i : i \in DOMAIN t <=> i \in DOMAIN p \/ i = Len(t)
      /\ \A i \in DOMAIN p : i \in DOMAIN t /\ p[i] = t[i]
  <2>1. Len(t) \in Nat
    BY DEF IsStack
  <2>2. /\ Len(t) \in 1 .. Len(t) /\ DOMAIN t = 1 .. Len(t) /\ DOMAIN p = 1 .. Len(t) - 1
        /\ \A i \in DOMAIN p : p[i] = t[i]
    BY PopParts
  <2> QED BY <2>1, <2>2
<1> DEFINE n == Len(t)
<1>3. /\ n \in DOMAIN t
      /\ \A i : i \in DOMAIN t <=> i \in DOMAIN p \/ i = n
      /\ \A i \in DOMAIN p : i \in DOMAIN t /\ p[i] = t[i]
  BY <1>1, <1>2
<1> HIDE DEF n
<1>4. SendingOf(t, c)
        = SendingOf(p, c) \cup (IF t[n].op = "send" /\ t[n].chain = c THEN {t[n].msg} ELSE {})
  BY <1>3, SendingParts
<1> QED BY <1>4 DEF n

\* Sums with one summand more.
OneMore(D, n, before, after) ==
  /\ IsFiniteSet(D) /\ n \notin D /\ after[n] \in Nat
  /\ \A i \in D : before[i] \in Nat /\ after[i] = before[i]

LEMMA DueSums ==
  ASSUME NEW D, NEW n, NEW before, NEW after, OneMore(D, n, before, after), NEW I \in SUBSET D
  PROVE  /\ Total(after, I) = Total(before, I)
         /\ Total(after, I \cup {n}) = Total(before, I) + after[n]
<1>1. IsFiniteSet(I) /\ n \notin I
  BY FS_Subset DEF OneMore
<1>2. /\ \A i \in I : before[i] \in Nat /\ after[i] = before[i]
      /\ after[n] \in Nat
  BY DEF OneMore
<1>3. Total(after, I) = Total(before, I)
  BY <1>2, TotalSame
<1>4. Total(after, I \cup {n}) = Total(before, I) + after[n]
  BY <1>1, <1>2, TotalAdd
<1> QED BY <1>3, <1>4

\* What is to be paid, with one call more: it adds to what the others pay if it redeems a reward.
LEMMA DueParts ==
  ASSUME NEW t, NEW p, NEW c, NEW n, n \in DOMAIN t, n \notin DOMAIN p, IsFiniteSet(DOMAIN p),
         \A i : i \in DOMAIN t <=> i \in DOMAIN p \/ i = n,
         \A i \in DOMAIN p : i \in DOMAIN t /\ p[i] = t[i],
         \A i \in DOMAIN t : t[i].op = "redeem" =>
           t[i].relayer \in Relayers /\ t[i].fee.asset \in Assets /\ t[i].fee.amount \in Nat
  PROVE  DueOf(t, c) = IF t[n].op = "redeem" /\ t[n].chain = c
                       THEN More(DueOf(p, c), t[n].relayer, t[n].fee.asset, t[n].fee.amount)
                       ELSE DueOf(p, c)
<1> DEFINE adds == t[n].op = "redeem" /\ t[n].chain = c
           amount == t[n].fee.amount
           before == [i \in DOMAIN p |-> IF p[i].op = "redeem" THEN p[i].fee.amount ELSE 0]
           after == [i \in DOMAIN t |-> IF t[i].op = "redeem" THEN t[i].fee.amount ELSE 0]
           OfP(a) == {i \in Redemptions(p, c) : p[i].fee.asset = a}
           OfT(a) == {i \in Redemptions(t, c) : t[i].fee.asset = a}
           ByP(r, a) == {i \in Redemptions(p, c) : p[i].relayer = r /\ p[i].fee.asset = a}
           ByT(r, a) == {i \in Redemptions(t, c) : t[i].relayer = r /\ t[i].fee.asset = a}
<1>1. /\ \A i \in DOMAIN p : before[i] \in Nat /\ after[i] = before[i]
      /\ after[n] \in Nat
      /\ adds => after[n] = amount
  OBVIOUS
<1>2. ASSUME NEW I \in SUBSET DOMAIN p
      PROVE  /\ Total(after, I) = Total(before, I)
             /\ adds => Total(after, I \cup {n}) = Total(before, I) + amount
  <2> HIDE DEF before, after, adds, amount, OfP, OfT, ByP, ByT
  <2>1. /\ Total(after, I) = Total(before, I)
        /\ Total(after, I \cup {n}) = Total(before, I) + after[n]
    <3>1. OneMore(DOMAIN p, n, before, after)
      BY <1>1 DEF OneMore
    <3> QED BY <3>1, DueSums
  <2> QED BY <1>1, <2>1
<1>3. /\ \A a : OfP(a) \in SUBSET DOMAIN p
      /\ \A a : OfT(a) = IF adds /\ t[n].fee.asset = a THEN OfP(a) \cup {n} ELSE OfP(a)
  BY DEF Redemptions
<1>4. /\ \A r, a : ByP(r, a) \in SUBSET DOMAIN p
      /\ \A r, a : ByT(r, a) = IF adds /\ t[n].relayer = r /\ t[n].fee.asset = a
                              THEN ByP(r, a) \cup {n} ELSE ByP(r, a)
  BY DEF Redemptions
<1>5. /\ \A a : BeingRedeemed(p, c, a) = Total(before, OfP(a))
      /\ \A a : BeingRedeemed(t, c, a) = Total(after, OfT(a))
      /\ \A r, a : BeingRedeemedBy(p, c, r, a) = Total(before, ByP(r, a))
      /\ \A r, a : BeingRedeemedBy(t, c, r, a) = Total(after, ByT(r, a))
  BY DEF BeingRedeemed, BeingRedeemedBy, Redeeming
<1> HIDE DEF before, after, OfP, OfT, ByP, ByT
<1>6. /\ \A a : BeingRedeemed(t, c, a) = IF adds /\ t[n].fee.asset = a
                                        THEN BeingRedeemed(p, c, a) + amount
                                        ELSE BeingRedeemed(p, c, a)
      /\ \A r, a : BeingRedeemedBy(t, c, r, a) = IF adds /\ t[n].relayer = r /\ t[n].fee.asset = a
                                                THEN BeingRedeemedBy(p, c, r, a) + amount
                                                ELSE BeingRedeemedBy(p, c, r, a)
  <2> HIDE DEF adds, amount
  <2>1. ASSUME NEW a
        PROVE  BeingRedeemed(t, c, a) = IF adds /\ t[n].fee.asset = a
                                        THEN BeingRedeemed(p, c, a) + amount
                                        ELSE BeingRedeemed(p, c, a)
    <3>1. OfP(a) \in SUBSET DOMAIN p
      BY <1>3
    <3>2. /\ Total(after, OfP(a)) = Total(before, OfP(a))
          /\ adds => Total(after, OfP(a) \cup {n}) = Total(before, OfP(a)) + amount
      BY <1>2, <3>1
    <3>3. OfT(a) = IF adds /\ t[n].fee.asset = a THEN OfP(a) \cup {n} ELSE OfP(a)
      BY <1>3
    <3> QED BY <1>5, <3>2, <3>3
  <2>2. ASSUME NEW r, NEW a
        PROVE  BeingRedeemedBy(t, c, r, a) = IF adds /\ t[n].relayer = r /\ t[n].fee.asset = a
                                             THEN BeingRedeemedBy(p, c, r, a) + amount
                                             ELSE BeingRedeemedBy(p, c, r, a)
    <3>1. ByP(r, a) \in SUBSET DOMAIN p
      BY <1>4
    <3>2. /\ Total(after, ByP(r, a)) = Total(before, ByP(r, a))
          /\ adds => Total(after, ByP(r, a) \cup {n}) = Total(before, ByP(r, a)) + amount
      BY <1>2, <3>1
    <3>3. ByT(r, a) = IF adds /\ t[n].relayer = r /\ t[n].fee.asset = a
                      THEN ByP(r, a) \cup {n} ELSE ByP(r, a)
      BY <1>4
    <3> QED BY <1>5, <3>2, <3>3
  <2> QED BY <2>1, <2>2
<1>7. CASE ~adds
  BY <1>6, <1>7 DEF DueOf
<1>8. CASE adds
  <2> DEFINE asset == t[n].fee.asset
             relayer == t[n].relayer
             due == DueOf(p, c)
             now == DueOf(t, c)
  <2>1. /\ due.all = [a \in Assets |-> BeingRedeemed(p, c, a)]
        /\ due.by = [r \in Relayers |-> [a \in Assets |-> BeingRedeemedBy(p, c, r, a)]]
        /\ now = [all |-> now.all, by |-> now.by]
        /\ now.all = [a \in Assets |-> BeingRedeemed(t, c, a)]
        /\ now.by = [r \in Relayers |-> [a \in Assets |-> BeingRedeemedBy(t, c, r, a)]]
    BY DEF DueOf
  <2>2. asset \in Assets /\ relayer \in Relayers
    BY <1>8
  <2>3. /\ \A a : BeingRedeemed(t, c, a) = IF a = asset THEN BeingRedeemed(p, c, a) + amount
                                          ELSE BeingRedeemed(p, c, a)
        /\ \A r, a : BeingRedeemedBy(t, c, r, a) = IF r = relayer /\ a = asset
                                                  THEN BeingRedeemedBy(p, c, r, a) + amount
                                                  ELSE BeingRedeemedBy(p, c, r, a)
    BY <1>6, <1>8
  <2> HIDE DEF asset, relayer, due, now, amount, adds
  <2>4. now.all = [due.all EXCEPT ![asset] = @ + amount]
    BY <2>1, <2>2, <2>3
  <2>5. now.by = [due.by EXCEPT ![relayer][asset] = @ + amount]
    <3> DEFINE by == [due.by EXCEPT ![relayer][asset] = @ + amount]
    <3>1. \A r \in Relayers : by[r] = IF r = relayer THEN [due.by[r] EXCEPT ![asset] = @ + amount]
                                    ELSE due.by[r]
      BY <2>1, <2>2
    <3>2. by = [r \in Relayers |-> by[r]] /\ now.by = [r \in Relayers |-> now.by[r]]
      BY <2>1
    <3> HIDE DEF by
    <3>3. ASSUME NEW r \in Relayers PROVE now.by[r] = by[r]
      <4>1. /\ due.by[r] = [a \in Assets |-> BeingRedeemedBy(p, c, r, a)]
            /\ now.by[r] = [a \in Assets |-> BeingRedeemedBy(t, c, r, a)]
        BY <2>1
      <4>2. CASE r = relayer
        BY <2>2, <2>3, <3>1, <4>1, <4>2
      <4>3. CASE r # relayer
        <5>1. \A a \in Assets : BeingRedeemedBy(t, c, r, a) = BeingRedeemedBy(p, c, r, a)
          BY <2>3, <4>3
        <5>2. now.by[r] = due.by[r]
          BY <4>1, <5>1
        <5> QED BY <3>1, <4>3, <5>2
      <4> QED BY <4>2, <4>3
    <3>4. now.by = by
      BY <3>2, <3>3
    <3> QED BY <3>4 DEF by
  <2>6. now = More(due, relayer, asset, amount)
    BY <2>1, <2>4, <2>5 DEF More
  <2> QED BY <1>8, <2>6 DEF asset, relayer, due, now, amount, adds
<1> QED BY <1>7, <1>8

\* The frames of a stack that redeem rewards.
LEMMA RedeemFrames ==
  ASSUME NEW log, NEW t, StackOK(log, t)
  PROVE  \A i \in DOMAIN t : t[i].op = "redeem" =>
           t[i].relayer \in Relayers /\ t[i].fee.asset \in Assets /\ t[i].fee.amount \in Nat
BY DEF StackOK, FrameOK

\* What is to be paid when a call is opened.
LEMMA PushDue ==
  ASSUME NEW log, NEW t, StackOK(log, t), NEW f, FrameOK(log, f), NEW c
  PROVE  DueOf(Append(t, f), c) = IF f.op = "redeem" /\ f.chain = c
                                  THEN More(DueOf(t, c), f.relayer, f.fee.asset, f.fee.amount)
                                  ELSE DueOf(t, c)
<1> DEFINE p == Append(t, f)
           n == Len(t) + 1
<1>1. IsStack(t) /\ Len(t) \in Nat /\ DOMAIN t = 1 .. Len(t)
  BY PushParts DEF StackOK
<1>2. /\ n \in DOMAIN p /\ n \notin DOMAIN t /\ p[n] = f
      /\ \A i : i \in DOMAIN p <=> i \in DOMAIN t \/ i = n
      /\ \A i \in DOMAIN t : i \in DOMAIN p /\ t[i] = p[i]
  BY <1>1, PushParts
<1>3. IsFiniteSet(DOMAIN t)
  <2>1. 1 \in Int /\ Len(t) \in Int
    BY <1>1
  <2> QED BY <1>1, <2>1, FS_Interval
<1>4. \A i \in DOMAIN p : p[i].op = "redeem" =>
        p[i].relayer \in Relayers /\ p[i].fee.asset \in Assets /\ p[i].fee.amount \in Nat
  <2>1. f.op = "redeem" =>
          f.relayer \in Relayers /\ f.fee.asset \in Assets /\ f.fee.amount \in Nat
    BY DEF FrameOK
  <2> HIDE DEF p, n
  <2> QED BY <1>2, <2>1, RedeemFrames
<1> HIDE DEF p, n
<1>5. DueOf(p, c) = IF p[n].op = "redeem" /\ p[n].chain = c
                    THEN More(DueOf(t, c), p[n].relayer, p[n].fee.asset, p[n].fee.amount)
                    ELSE DueOf(t, c)
  BY <1>2, <1>3, <1>4, DueParts
<1> QED BY <1>2, <1>5 DEF p

\* What is to be paid when the innermost call ends.
LEMMA PopDue ==
  ASSUME NEW log, NEW t, StackOK(log, t), t # <<>>, NEW f, f = t[Len(t)], NEW c
  PROVE  DueOf(t, c) = IF f.op = "redeem" /\ f.chain = c
                       THEN More(DueOf(Under(t), c), f.relayer, f.fee.asset, f.fee.amount)
                       ELSE DueOf(Under(t), c)
<1> DEFINE p == Under(t)
           n == Len(t)
<1>1. IsStack(t) /\ n \in Nat
  BY DEF StackOK, IsStack
<1>2. /\ n \in DOMAIN t /\ DOMAIN t = 1 .. n /\ DOMAIN p = 1 .. n - 1
      /\ \A i \in DOMAIN p : p[i] = t[i]
  BY <1>1, PopParts
<1> HIDE DEF p, n
<1>3. /\ n \notin DOMAIN p
      /\ \A i : i \in DOMAIN t <=> i \in DOMAIN p \/ i = n
      /\ \A i \in DOMAIN p : i \in DOMAIN t
  BY <1>1, <1>2
<1>4. IsFiniteSet(DOMAIN p)
  <2>1. 1 \in Int /\ n - 1 \in Int
    BY <1>1
  <2> QED BY <1>2, <2>1, FS_Interval
<1>5. DueOf(t, c) = IF t[n].op = "redeem" /\ t[n].chain = c
                    THEN More(DueOf(p, c), t[n].relayer, t[n].fee.asset, t[n].fee.amount)
                    ELSE DueOf(p, c)
  <2>1. \A i \in DOMAIN t : t[i].op = "redeem" =>
          t[i].relayer \in Relayers /\ t[i].fee.asset \in Assets /\ t[i].fee.amount \in Nat
    BY RedeemFrames
  <2>2. \A i \in DOMAIN p : i \in DOMAIN t /\ p[i] = t[i]
    BY <1>2, <1>3
  <2>3. n \in DOMAIN t /\ n \notin DOMAIN p /\ IsFiniteSet(DOMAIN p)
    BY <1>2, <1>3, <1>4
  <2>4. \A i : i \in DOMAIN t <=> i \in DOMAIN p \/ i = n
    BY <1>3
  <2>5. ASSUME NEW x, x = n
        PROVE  DueOf(t, c) = IF t[x].op = "redeem" /\ t[x].chain = c
                             THEN More(DueOf(p, c), t[x].relayer, t[x].fee.asset, t[x].fee.amount)
                             ELSE DueOf(p, c)
    BY <2>1, <2>2, <2>3, <2>4, <2>5, DueParts
  <2> QED BY <2>5
<1> QED BY <1>5 DEF p, n

NoDue == [all |-> [a \in Assets |-> 0], by |-> [r \in Relayers |-> [a \in Assets |-> 0]]]

\* Calls of other chains pay nothing on this one.
LEMMA NothingDue ==
  ASSUME NEW t, NEW c, \A i \in DOMAIN t : t[i].chain # c
  PROVE  DueOf(t, c) = NoDue
<1>1. Redemptions(t, c) = {}
  BY DEF Redemptions
<1>2. /\ \A a : BeingRedeemed(t, c, a) = 0
      /\ \A r, a : BeingRedeemedBy(t, c, r, a) = 0
  BY <1>1, TotalEmpty DEF BeingRedeemed, BeingRedeemedBy, Redeeming
<1> QED BY <1>2 DEF DueOf, NoDue

\* A call is opened: its frame is sound, and so is the storage that its failure restores.
LEMMA PushSound ==
  ASSUME NEW log, NEW t, StackOK(log, t), NEW f, FrameOK(log, f),
         \A i \in DOMAIN t : t[i].chain = f.chain,
         IsFee(f) => \A i \in DOMAIN t : ~IsFee(t[i]),
         StateOK(log, f.chain, f.saved, OpenIDs(f), t)
  PROVE  StackOK(log, Append(t, f)) /\ \A i \in DOMAIN Append(t, f) : Append(t, f)[i].chain = f.chain
<1> DEFINE p == Append(t, f)
           n == Len(t) + 1
<1>1. IsStack(t)
  BY DEF StackOK
<1>2. /\ IsStack(p)
      /\ p[n] = f /\ SubSeq(p, 1, n - 1) = t
      /\ \A i \in DOMAIN p : i \in DOMAIN t \/ i = n
      /\ \A i \in DOMAIN t : p[i] = t[i] /\ SubSeq(p, 1, i - 1) = SubSeq(t, 1, i - 1)
  <2>1. Len(t) \in Nat
    BY <1>1 DEF IsStack
  <2>2. n - 1 = Len(t)
    BY <2>1
  <2>3. \A i \in 1 .. Len(t) + 1 : i \in 1 .. Len(t) \/ i = Len(t) + 1
    BY <2>1
  <2> QED BY <1>1, <2>2, <2>3, PushParts
<1> HIDE DEF p, n
<1>3. \A i \in DOMAIN p : p[i].chain = f.chain
  BY <1>2
<1>4. \A i, j \in DOMAIN p : IsFee(p[i]) /\ IsFee(p[j]) => i = j
  BY <1>2 DEF StackOK
<1>5. ASSUME NEW i \in DOMAIN p
      PROVE  FrameOK(log, p[i]) /\ StateOK(log, p[i].chain, p[i].saved, OpenIDs(p[i]), SubSeq(p, 1, i - 1))
  <2>1. CASE i \in DOMAIN t
    BY <1>2, <2>1 DEF StackOK
  <2>2. CASE i = n
    BY <1>2, <2>2
  <2> QED BY <1>2, <2>1, <2>2
<1>6. StackOK(log, p)
  BY <1>2, <1>3, <1>4, <1>5 DEF StackOK
<1> QED BY <1>3, <1>6 DEF p

\* The innermost call ends: the stack without it is sound, and so is the storage it saved.
LEMMA PopSound ==
  ASSUME NEW log, NEW t, StackOK(log, t), t # <<>>
  PROVE  /\ StackOK(log, Under(t))
         /\ StateOK(log, t[Len(t)].chain, t[Len(t)].saved, OpenIDs(t[Len(t)]), Under(t))
         /\ FrameOK(log, t[Len(t)])
         /\ Len(t) \in DOMAIN t
         /\ \A i \in DOMAIN Under(t) : /\ i \in DOMAIN t /\ Under(t)[i] = t[i]
                                       /\ Under(t)[i].chain = t[Len(t)].chain
                                       /\ IsFee(t[Len(t)]) => ~IsFee(t[i])
<1> DEFINE p == Under(t)
           n == Len(t)
<1>1. IsStack(t) /\ n \in Nat
  BY DEF StackOK, IsStack
<1>2. /\ IsStack(p)
      /\ n \in DOMAIN t /\ p = SubSeq(t, 1, n - 1)
      /\ \A i \in DOMAIN p : /\ i \in DOMAIN t /\ i # n
                             /\ p[i] = t[i] /\ SubSeq(p, 1, i - 1) = SubSeq(t, 1, i - 1)
  <2>1. \A i \in 1 .. n - 1 : i \in 1 .. n /\ i # n
    BY <1>1
  <2>2. /\ IsStack(p) /\ n \in DOMAIN t /\ DOMAIN t = 1 .. n /\ DOMAIN p = 1 .. n - 1
        /\ \A i \in DOMAIN p : p[i] = t[i] /\ SubSeq(p, 1, i - 1) = SubSeq(t, 1, i - 1)
    BY <1>1, PopParts
  <2>3. p = SubSeq(t, 1, n - 1)
    BY DEF Under
  <2> HIDE DEF p, n
  <2> QED BY <2>1, <2>2, <2>3
<1> HIDE DEF p, n
<1>3. /\ \A i, j \in DOMAIN t : /\ t[i].chain = t[j].chain
                                /\ IsFee(t[i]) /\ IsFee(t[j]) => i = j
      /\ \A i \in DOMAIN t :
           /\ FrameOK(log, t[i])
           /\ StateOK(log, t[i].chain, t[i].saved, OpenIDs(t[i]), SubSeq(t, 1, i - 1))
  BY DEF StackOK
<1>4. StackOK(log, p)
  <2>1. \A i, j \in DOMAIN p : /\ p[i].chain = p[j].chain
                               /\ IsFee(p[i]) /\ IsFee(p[j]) => i = j
    <3> SUFFICES ASSUME NEW i \in DOMAIN p, NEW j \in DOMAIN p
        PROVE  /\ p[i].chain = p[j].chain
               /\ IsFee(p[i]) /\ IsFee(p[j]) => i = j
      OBVIOUS
    <3>1. i \in DOMAIN t /\ j \in DOMAIN t /\ p[i] = t[i] /\ p[j] = t[j]
      BY <1>2
    <3>2. t[i].chain = t[j].chain /\ (IsFee(t[i]) /\ IsFee(t[j]) => i = j)
      BY <1>3, <3>1
    <3> QED BY <3>1, <3>2
  <2>2. \A i \in DOMAIN p :
          /\ FrameOK(log, p[i])
          /\ StateOK(log, p[i].chain, p[i].saved, OpenIDs(p[i]), SubSeq(p, 1, i - 1))
    <3> SUFFICES ASSUME NEW i \in DOMAIN p
        PROVE  /\ FrameOK(log, p[i])
               /\ StateOK(log, p[i].chain, p[i].saved, OpenIDs(p[i]), SubSeq(p, 1, i - 1))
      OBVIOUS
    <3>1. i \in DOMAIN t /\ p[i] = t[i] /\ SubSeq(p, 1, i - 1) = SubSeq(t, 1, i - 1)
      BY <1>2
    <3>2. /\ FrameOK(log, t[i])
          /\ StateOK(log, t[i].chain, t[i].saved, OpenIDs(t[i]), SubSeq(t, 1, i - 1))
      BY <1>3, <3>1
    <3> QED BY <3>1, <3>2
  <2> QED BY <1>2, <2>1, <2>2 DEF StackOK
<1>5. /\ FrameOK(log, t[n])
      /\ StateOK(log, t[n].chain, t[n].saved, OpenIDs(t[n]), p)
  BY <1>2, <1>3
<1>6. \A i \in DOMAIN p : /\ i \in DOMAIN t /\ p[i] = t[i] /\ p[i].chain = t[n].chain
                          /\ IsFee(t[n]) => ~IsFee(t[i])
  BY <1>2, <1>3
<1> QED BY <1>2, <1>4, <1>5, <1>6 DEF p, n

\* A fee that is covered stays covered when less or as much is owed.
LEMMA PayableKept ==
  ASSUME NEW log, NEW c, NEW l, NEW open, NEW sending, NEW due,
         Good(log, c, l, open, sending, due),
         NEW k, NEW now, NEW others, NEW left, Good(log, c, k, now, others, left),
         \A a \in Assets : Owes(k, a) + left.all[a] <= Owes(l, a) + due.all[a],
         NEW f, FrameOK(log, f), IsFee(f), Payable(l, f, due),
         f.op = "addFee" => k.sentMessageInfo = l.sentMessageInfo
  PROVE  Payable(k, f, left)
<1>1. /\ f.fee.asset \in Assets /\ f.before \in Nat
      /\ due.all[f.fee.asset] \in Nat /\ left.all[f.fee.asset] \in Nat
  BY DEF FrameOK, Good, IsDue
<1>2. Owes(l, f.fee.asset) \in Nat /\ Owes(k, f.fee.asset) \in Nat
  <2>1. Amounts(l.sentMessageInfo) /\ Amounts(k.sentMessageInfo)
    BY FiniteFees DEF Good
  <2> QED BY <1>1, <2>1, OwesType DEF Good
<1>3. Owes(k, f.fee.asset) + left.all[f.fee.asset] <= f.before
  BY <1>1, <1>2 DEF Payable
<1> QED BY <1>3 DEF Payable

\* The frames of a stack keep their fees covered.
LEMMA StateKept ==
  ASSUME NEW log, NEW c, NEW l, NEW open, NEW t, StackOK(log, t), StateOK(log, c, l, open, t),
         NEW k, NEW now, Good(log, c, k, now, SendingOf(t, c), DueOf(t, c)),
         \A a \in Assets : Owes(k, a) <= Owes(l, a),
         \A i \in DOMAIN t : t[i].op = "addFee" => k.sentMessageInfo = l.sentMessageInfo
  PROVE  StateOK(log, c, k, now, t)
<1> SUFFICES ASSUME NEW i \in DOMAIN t, IsFee(t[i]), t[i].chain = c
             PROVE  Payable(k, t[i], DueOf(t, c))
  BY DEF StateOK
<1> DEFINE due == DueOf(t, c)
<1>1. FrameOK(log, t[i]) /\ Payable(l, t[i], due) /\ Good(log, c, l, open, SendingOf(t, c), due)
  BY DEF StackOK, StateOK
<1> HIDE DEF due
<1>2. \A a \in Assets : Owes(k, a) + due.all[a] <= Owes(l, a) + due.all[a]
  <2> SUFFICES ASSUME NEW a \in Assets PROVE Owes(k, a) + due.all[a] <= Owes(l, a) + due.all[a]
    OBVIOUS
  <2>1. Amounts(l.sentMessageInfo) /\ Amounts(k.sentMessageInfo)
    BY <1>1, FiniteFees DEF Good
  <2>2. Owes(l, a) \in Nat /\ Owes(k, a) \in Nat /\ due.all[a] \in Nat
    BY <1>1, <2>1, OwesType DEF Good, IsDue
  <2>3. Owes(k, a) <= Owes(l, a)
    OBVIOUS
  <2> QED BY <2>2, <2>3
<1>3. Good(log, c, k, now, SendingOf(t, c), due)
  BY DEF due
<1>4. Payable(k, t[i], due)
  BY <1>1, <1>2, <1>3, PayableKept
<1> QED BY <1>4 DEF due

\* Different messages have different IDs, on every chain.
LEMMA IDsUnique ==
  ASSUME Inv
  PROVE  UniqueIDs(emitted)
<1>1. \A s \in Chains : Numbered(emitted, s, ledger[s], SendingOf(tx, s))
  BY DEF Inv, StateOK, Good
<1> QED BY <1>1 DEF UniqueIDs, Numbered, Logged

\* A call ends with a sound storage and a sound stack of its chain.
LEMMA SettleSound ==
  ASSUME Inv, NEW c \in Chains, NEW l, NEW t, StackOK(emitted, t),
         \A i \in DOMAIN t : t[i].chain = c,
         \A i \in DOMAIN tx : tx[i].chain = c,
         StateOK(emitted, c, l, {}, t),
         Settle(c, l, t)
  PROVE  Inv'
<1>1. \A d \in Chains : d # c => Good(emitted, d, ledger[d], {}, {}, DueOf(t, d))
  <2> SUFFICES ASSUME NEW d \in Chains, d # c PROVE Good(emitted, d, ledger[d], {}, {}, DueOf(t, d))
    OBVIOUS
  <2>1. Good(emitted, d, ledger[d], {}, SendingOf(tx, d), DueOf(tx, d))
    BY DEF Inv, StateOK
  <2>2. SendingOf(tx, d) = {}
    BY DEF SendingOf
  <2>3. DueOf(tx, d) = NoDue /\ DueOf(t, d) = NoDue
    BY NothingDue
  <2> QED BY <2>1, <2>2, <2>3
<1>2. DOMAIN ledger = Chains /\ tx' = t
  BY DEF Inv, Settle
<1>3. CASE t # <<>>
  <2>1. /\ ledger' = [ledger EXCEPT ![c] = l] /\ emitted' = emitted /\ signable' = signable
    BY <1>3 DEF Settle
  <2>2. DOMAIN ledger' = Chains /\ ledger'[c] = l /\ \A d \in Chains : d # c => ledger'[d] = ledger[d]
    BY <1>2, <2>1
  <2>3. ASSUME NEW d \in Chains PROVE StateOK(emitted, d, ledger'[d], {}, t)
    <3>1. CASE d = c
      BY <2>2, <3>1
    <3>2. CASE d # c
      <4>1. SendingOf(t, d) = {}
        BY <3>2 DEF SendingOf
      <4>2. \A i \in DOMAIN t : t[i].chain # d
        BY <3>2
      <4> QED BY <1>1, <2>2, <3>2, <4>1, <4>2 DEF StateOK
    <3> QED BY <3>1, <3>2
  <2> QED BY <1>2, <2>1, <2>2, <2>3 DEF Inv
<1>4. CASE t = <<>>
  <2> DEFINE new == {Warp(c, m) : m \in l.outbox}
             next == emitted \cup new
             k == [l EXCEPT !.outbox = {}]
  <2>1. /\ ledger' = [ledger EXCEPT ![c] = k] /\ emitted' = next /\ signable' = signable \cup new
    BY <1>4 DEF Settle, Warp
  <2>2. DOMAIN ledger' = Chains /\ ledger'[c] = k /\ \A d \in Chains : d # c => ledger'[d] = ledger[d]
    BY <1>2, <2>1
  <2>3. Good(emitted, c, l, {}, {}, DueOf(t, c)) /\ LogSound(emitted)
    <3>1. SendingOf(t, c) = {}
      BY <1>4 DEF SendingOf
    <3> QED BY <3>1 DEF StateOK, Inv
  <2>4. LogSound(next) /\ Good(next, c, k, {}, {}, DueOf(t, c))
    BY <2>3, EmitSound
  <2>5. \A d \in Chains : d # c => Good(next, d, ledger[d], {}, {}, DueOf(t, d))
    BY <1>1, <2>3, EmitElsewhere
  <2>6. signable' \subseteq emitted'
    BY <2>1 DEF Inv
  <2> HIDE DEF new, next, k
  <2>7. \A d \in Chains : Good(next, d, ledger'[d], {}, {}, DueOf(t, d))
    BY <2>2, <2>4, <2>5
  <2>8. \A d : SendingOf(t, d) = {}
    BY <1>4 DEF SendingOf
  <2>9. \A d \in Chains : StateOK(next, d, ledger'[d], {}, t)
    <3> SUFFICES ASSUME NEW d \in Chains PROVE StateOK(next, d, ledger'[d], {}, t)
      OBVIOUS
    <3>1. SendingOf(t, d) = {} /\ Good(next, d, ledger'[d], {}, {}, DueOf(t, d))
      BY <2>7, <2>8
    <3>2. Good(next, d, ledger'[d], {}, SendingOf(t, d), DueOf(t, d))
      BY <3>1
    <3> QED BY <1>4, <3>2 DEF StateOK
  <2>10. StackOK(next, t)
    BY <1>4 DEF StackOK, IsStack
  <2> QED BY <1>2, <2>1, <2>2, <2>4, <2>6, <2>9, <2>10 DEF Inv
<1> QED BY <1>3, <1>4

\* A call is made on the chain of the transaction in progress.
LEMMA CallChain ==
  ASSUME Inv, NEW c, tx # <<>> => Top.chain = c
  PROVE  \A i \in DOMAIN tx : tx[i].chain = c
<1>1. StackOK(emitted, tx)
  BY DEF Inv
<1>2. CASE tx = <<>>
  BY <1>2
<1>3. CASE tx # <<>>
  <2>1. Len(tx) \in DOMAIN tx
    BY <1>1, <1>3, PopSound
  <2> QED BY <1>1, <1>3, <2>1 DEF StackOK, Top
<1> QED BY <1>2, <1>3

-----------------------------------------------------------------------------
\* Each function keeps the invariant.

\* While no fee is transferred, no message waits for one.
LEMMA NoSend ==
  ASSUME ~SendEntered
  PROVE  /\ \A i \in DOMAIN tx : ~IsFee(tx[i])
         /\ \A c : SendingOf(tx, c) = {}
BY DEF SendEntered, IsFee, SendingOf

\* A storage in which no fee is being transferred has no fee to cover.
LEMMA StateWithoutFees ==
  ASSUME NEW log, NEW c, NEW l, NEW open, NEW t, \A i \in DOMAIN t : ~IsFee(t[i]),
         Good(log, c, l, open, {}, DueOf(t, c))
  PROVE  StateOK(log, c, l, open, t)
<1>1. SendingOf(t, c) = {}
  BY DEF SendingOf, IsFee
<1>2. Good(log, c, l, open, SendingOf(t, c), DueOf(t, c))
  BY <1>1
<1> QED BY <1>2 DEF StateOK

\* A message is sent, with or without a fee (_sendTeleporterMessage).
LEMMA SendSound ==
  ASSUME Inv, NEW c \in Chains, CanCall(c), ~SendEntered,
         NEW destination \in Chains, NEW payload \in BOOLEAN, NEW allowed \in SUBSET Relayers,
         NEW fee \in FeeInfos[c], NEW receipts, NEW queues,
         IsBatch(c, ledger[c], destination, queues, receipts),
         NEW l, l = [ledger[c] EXCEPT !.receiptQueues = queues],
         SendTeleporterMessage(c, l, destination, payload, allowed, fee, receipts)
  PROVE  Inv'
<1> DEFINE msg == [nonce |-> l.messageNonce + 1, destination |-> destination, payload |-> payload,
                   allowed |-> allowed, receipts |-> receipts]
           numbered == [l EXCEPT !.messageNonce = @ + 1]
<1>1. /\ \A i \in DOMAIN tx : ~IsFee(tx[i])
      /\ SendingOf(tx, c) = {}
  BY NoSend
<1>2. /\ Good(emitted, c, ledger[c], {}, {}, DueOf(tx, c)) /\ StateOK(emitted, c, ledger[c], {}, tx)
      /\ StackOK(emitted, tx)
  <2>1. StateOK(emitted, c, ledger[c], {}, tx) /\ StackOK(emitted, tx)
    BY DEF Inv
  <2>2. Good(emitted, c, ledger[c], {}, SendingOf(tx, c), DueOf(tx, c))
    BY <2>1 DEF StateOK
  <2> QED BY <1>1, <2>1, <2>2
<1>3. \A i \in DOMAIN tx : tx[i].chain = c
  BY CallChain DEF CanCall
<1>4. /\ l.messageNonce = ledger[c].messageNonce /\ l.messageNonce \in Nat
      /\ l.balance = ledger[c].balance /\ l.balance \in [Assets -> Nat]
  BY <1>2 DEF Good, IsLedger
<1>5. fee \in [asset : Assets \cup {NoAsset}, amount : Nat]
  BY BoundAssumption
<1>6. /\ msg \in Messages /\ msg.nonce = ledger[c].messageNonce + 1
      /\ msg.destination = destination /\ msg.receipts = receipts
  BY <1>4 DEF IsBatch, Messages, Nonces
<1>7. numbered = WithNumber(ledger[c], queues)
  BY DEF WithNumber
<1>8. /\ numbered.balance = ledger[c].balance
      /\ numbered = [numbered EXCEPT !.balance = numbered.balance]
  BY <1>2 DEF Good, IsLedger
<1>9. /\ fee.amount = 0 => Settle(c, StoreSent(numbered, c, msg, fee.asset, 0), tx)
      /\ fee.amount # 0 =>
           /\ fee.asset \in Assets
           /\ Settle(c, numbered,
                     Append(tx, [op |-> "send", chain |-> c, saved |-> ledger[c], msg |-> msg,
                                 id |-> IDOf(c, msg), fee |-> fee,
                                 before |-> l.balance[fee.asset]]))
  BY DEF SendTeleporterMessage
<1> HIDE DEF msg, numbered
<1>10. /\ Good(emitted, c, numbered, {}, {msg}, DueOf(tx, c))
       /\ \A a \in Assets : Owes(numbered, a) = Owes(ledger[c], a)
  <2>1. IsBatch(c, ledger[c], msg.destination, queues, msg.receipts)
    BY <1>6
  <2> QED BY <1>2, <1>6, <1>7, <2>1, NumberSound
<1> DEFINE due == DueOf(tx, c)
<1>11. \A a \in Assets : /\ numbered.balance[a] \in Nat /\ Owes(numbered, a) \in Nat
                         /\ due.all[a] \in Nat
                         /\ numbered.balance[a] >= Owes(numbered, a) + due.all[a]
  <2>1. Good(emitted, c, numbered, {}, {msg}, due)
    BY <1>10
  <2> HIDE DEF due
  <2>2. Amounts(numbered.sentMessageInfo) /\ IsLedger(numbered)
    BY <2>1, FiniteFees DEF Good
  <2> QED BY <1>4, <1>8, <2>1, <2>2, OwesType DEF Good, Covered, IsDue
<1> HIDE DEF due
<1>12. CASE fee.amount = 0
  <2> DEFINE k == StoreSent(numbered, c, msg, fee.asset, 0)
  <2>1. k = StoreSent([numbered EXCEPT !.balance = numbered.balance], c, msg, fee.asset, 0)
    BY <1>8
  <2>2. /\ \A a \in Assets :
             numbered.balance[a] >= Owes(numbered, a) + due.all[a] + IF fee.asset = a THEN 0 ELSE 0
        /\ fee.asset \in Assets \cup {NoAsset}
        /\ numbered.balance \in [Assets -> Nat]
    BY <1>4, <1>5, <1>8, <1>11
  <2> HIDE DEF k
  <2>3. Good(emitted, c, k, {}, {}, DueOf(tx, c))
    BY <1>6, <1>10, <2>1, <2>2, StoreSound DEF due
  <2>4. StateOK(emitted, c, k, {}, tx)
    BY <1>1, <2>3, StateWithoutFees
  <2> QED BY <1>2, <1>3, <1>9, <1>12, <2>4, SettleSound DEF k
<1>13. CASE fee.amount # 0
  <2> DEFINE f == [op |-> "send", chain |-> c, saved |-> ledger[c], msg |-> msg,
                   id |-> IDOf(c, msg), fee |-> fee, before |-> l.balance[fee.asset]]
             t == Append(tx, f)
  <2>1. fee.asset \in Assets /\ l.balance[fee.asset] \in Nat
    BY <1>4, <1>9, <1>13
  <2>2. /\ f.op = "send" /\ f.chain = c /\ f.saved = ledger[c] /\ f.msg = msg
        /\ f.fee = fee /\ f.before = l.balance[fee.asset] /\ f.id = IDOf(c, msg)
    OBVIOUS
  <2>3. Settle(c, numbered, t)
    BY <1>9, <1>13
  <2> HIDE DEF f, t
  <2>4. FrameOK(emitted, f) /\ IsFee(f) /\ OpenIDs(f) = {}
    BY <1>5, <1>6, <2>1, <2>2 DEF FrameOK, IsFee, OpenIDs
  <2>5. StackOK(emitted, t) /\ \A i \in DOMAIN t : t[i].chain = c
    <3>1. StateOK(emitted, f.chain, f.saved, OpenIDs(f), tx)
      BY <1>2, <2>2, <2>4
    <3>2. \A i \in DOMAIN tx : tx[i].chain = f.chain
      BY <1>3, <2>2
    <3>3. StackOK(emitted, tx) /\ FrameOK(emitted, f) /\ \A i \in DOMAIN tx : ~IsFee(tx[i])
      BY <1>1, <1>2, <2>4
    <3>4. /\ StackOK(emitted, Append(tx, f))
          /\ \A i \in DOMAIN Append(tx, f) : Append(tx, f)[i].chain = f.chain
      BY <3>1, <3>2, <3>3, PushSound
    <3> QED BY <2>2, <3>4 DEF t
  <2>6. SendingOf(t, c) = {msg}
    <3>1. IsStack(tx)
      BY <1>2 DEF StackOK
    <3>2. SendingOf(t, c) = SendingOf(tx, c) \cup {msg}
      BY <2>2, <3>1, PushSending DEF t
    <3> QED BY <1>1, <3>2
  <2>7. \A i \in DOMAIN t : IsFee(t[i]) => t[i] = f
    <3>1. IsStack(tx)
      BY <1>2 DEF StackOK
    <3>2. /\ DOMAIN tx = 1 .. Len(tx) /\ DOMAIN t = 1 .. Len(tx) + 1 /\ Len(tx) \in Nat
          /\ t[Len(tx) + 1] = f /\ \A i \in DOMAIN tx : t[i] = tx[i]
      BY <3>1, PushParts DEF t
    <3>3. \A i \in DOMAIN t : i \in DOMAIN tx \/ i = Len(tx) + 1
      BY <3>2
    <3> QED BY <1>1, <3>2, <3>3
  <2>8. DueOf(t, c) = due
    <3>1. f.op # "redeem"
      BY <2>2
    <3> QED BY <1>2, <2>4, <3>1, PushDue DEF t, due
  <2>9. Payable(numbered, f, DueOf(t, c))
    BY <1>4, <1>8, <1>11, <2>1, <2>2, <2>8 DEF Payable
  <2>10. StateOK(emitted, c, numbered, {}, t)
    <3>1. Good(emitted, c, numbered, {}, SendingOf(t, c), DueOf(t, c))
      BY <1>10, <2>6, <2>8 DEF due
    <3> QED BY <2>7, <2>9, <3>1 DEF StateOK
  <2> QED BY <1>3, <2>3, <2>5, <2>10, SettleSound
<1> QED BY <1>12, <1>13

\* A batch is the front of a queue, what stays in the queue its rest (getOutstandingReceiptsToSend).
LEMMA OutstandingParts ==
  ASSUME NEW queue \in Receipts, NEW out, out = OutstandingReceipts(queue)
  PROVE  /\ out.batch \in Receipts /\ out.rest \in Receipts
         /\ \A i \in DOMAIN out.batch : i \in DOMAIN queue /\ out.batch[i] = queue[i]
         /\ \A i \in DOMAIN out.rest : \E j \in DOMAIN queue : out.rest[i] = queue[j]
         /\ \A j \in DOMAIN queue : \/ j \in DOMAIN out.batch /\ out.batch[j] = queue[j]
                                    \/ \E i \in DOMAIN out.rest : out.rest[i] = queue[j]
<1> DEFINE Receipt == [nonce : Nonces, relayer : RewardAddresses]
           size == IF Len(queue) < MaximumReceiptCount THEN Len(queue) ELSE MaximumReceiptCount
<1>1. queue \in Seq(Receipt) /\ Receipts = Seq(Receipt)
  BY DEF Receipts
<1>2. out.batch = SubSeq(queue, 1, size) /\ out.rest = SubSeq(queue, size + 1, Len(queue))
  BY DEF OutstandingReceipts
<1> HIDE DEF Receipt
<1>3. /\ Len(queue) \in Nat /\ size \in 0 .. Len(queue) /\ DOMAIN queue = 1 .. Len(queue)
  BY <1>1, ReceiptCountAssumption
<1> HIDE DEF size
<1>4. /\ SubSeq(queue, 1, size) \in Seq(Receipt)
      /\ DOMAIN SubSeq(queue, 1, size) = 1 .. size
      /\ \A i \in 1 .. size : SubSeq(queue, 1, size)[i] = queue[i]
  BY <1>1, <1>3
<1>5. /\ SubSeq(queue, size + 1, Len(queue)) \in Seq(Receipt)
      /\ DOMAIN SubSeq(queue, size + 1, Len(queue)) = 1 .. Len(queue) - size
      /\ \A i \in 1 .. Len(queue) - size : SubSeq(queue, size + 1, Len(queue))[i] = queue[size + i]
  BY <1>1, <1>3
<1>6. /\ \A i \in 1 .. size : i \in 1 .. Len(queue)
      /\ \A i \in 1 .. Len(queue) - size : size + i \in 1 .. Len(queue)
      /\ \A j \in 1 .. Len(queue) : j \in 1 .. size \/ (j - size \in 1 .. Len(queue) - size /\ size + (j - size) = j)
  BY <1>3
<1>7. out.batch \in Receipts /\ out.rest \in Receipts
  BY <1>1, <1>2, <1>4, <1>5
<1>8. \A i \in DOMAIN out.batch : i \in DOMAIN queue /\ out.batch[i] = queue[i]
  BY <1>2, <1>3, <1>4, <1>6
<1>9. \A i \in DOMAIN out.rest : \E j \in DOMAIN queue : out.rest[i] = queue[j]
  BY <1>2, <1>3, <1>5, <1>6
<1>10. ASSUME NEW j \in DOMAIN queue
       PROVE  \/ j \in DOMAIN out.batch /\ out.batch[j] = queue[j]
              \/ \E i \in DOMAIN out.rest : out.rest[i] = queue[j]
  <2>1. CASE j \in 1 .. size
    BY <1>2, <1>4, <2>1
  <2>2. CASE j \notin 1 .. size
    <3>1. j - size \in 1 .. Len(queue) - size /\ size + (j - size) = j
      BY <1>3, <1>6, <2>2
    <3> QED BY <1>2, <1>5, <3>1
  <2> QED BY <2>1, <2>2
<1> QED BY <1>7, <1>8, <1>9, <1>10

\* sendCrossChainMessage keeps the invariant.
LEMMA SendCrossChainSound ==
  ASSUME Inv, NEW c \in Chains, NEW destination \in Chains, NEW payload \in BOOLEAN,
         NEW allowed \in SUBSET Relayers, NEW fee \in FeeInfos[c],
         SendCrossChainMessage(c, destination, payload, allowed, fee)
  PROVE  Inv'
<1> DEFINE out == OutstandingReceipts(ledger[c].receiptQueues[destination])
           queues == [ledger[c].receiptQueues EXCEPT ![destination] = out.rest]
           l == [ledger[c] EXCEPT !.receiptQueues = queues]
<1>1. /\ CanCall(c) /\ ~SendEntered
      /\ SendTeleporterMessage(c, [ledger[c] EXCEPT !.receiptQueues[destination] = out.rest],
                               destination, payload, allowed, fee, out.batch)
  BY DEF SendCrossChainMessage
<1>2. l = [ledger[c] EXCEPT !.receiptQueues[destination] = out.rest]
  <2> HIDE DEF out
  <2> QED OBVIOUS
<1>3. /\ IsLedger(ledger[c]) /\ Recorded(emitted, c, ledger[c], SendingOf(tx, c))
  BY DEF Inv, StateOK, Good
<1>4. /\ ledger[c].receiptQueues \in [Chains -> Receipts]
      /\ \A i \in DOMAIN ledger[c].receiptQueues[destination] :
           Records(ledger[c], c, destination, ledger[c].receiptQueues[destination][i])
  BY <1>3 DEF IsLedger, Recorded
<1>5. /\ out.batch \in Receipts /\ out.rest \in Receipts
      /\ \A i \in DOMAIN out.batch : /\ i \in DOMAIN ledger[c].receiptQueues[destination]
                                     /\ out.batch[i] = ledger[c].receiptQueues[destination][i]
      /\ \A i \in DOMAIN out.rest : \E j \in DOMAIN ledger[c].receiptQueues[destination] :
           out.rest[i] = ledger[c].receiptQueues[destination][j]
      /\ \A j \in DOMAIN ledger[c].receiptQueues[destination] :
           \/ /\ j \in DOMAIN out.batch
              /\ out.batch[j] = ledger[c].receiptQueues[destination][j]
           \/ \E i \in DOMAIN out.rest : out.rest[i] = ledger[c].receiptQueues[destination][j]
  <2>1. ledger[c].receiptQueues[destination] \in Receipts
    BY <1>4
  <2> QED BY <2>1, OutstandingParts
<1> HIDE DEF out
<1>6. /\ queues \in [Chains -> Receipts] /\ queues[destination] = out.rest
      /\ \A s \in Chains : s # destination => queues[s] = ledger[c].receiptQueues[s]
  BY <1>4, <1>5
<1> HIDE DEF queues
<1>7. IsBatch(c, ledger[c], destination, queues, out.batch)
  <2>1. ASSUME NEW s \in Chains, NEW i \in DOMAIN queues[s]
        PROVE  \E j \in DOMAIN ledger[c].receiptQueues[s] : queues[s][i] = ledger[c].receiptQueues[s][j]
    BY <1>5, <1>6
  <2>2. ASSUME NEW s \in Chains, NEW j \in DOMAIN ledger[c].receiptQueues[s]
        PROVE  \/ \E i \in DOMAIN queues[s] : queues[s][i] = ledger[c].receiptQueues[s][j]
               \/ /\ s = destination
                  /\ \E i \in DOMAIN out.batch : out.batch[i] = ledger[c].receiptQueues[s][j]
    BY <1>5, <1>6
  <2>3. \A i \in DOMAIN out.batch : Records(ledger[c], c, destination, out.batch[i])
    BY <1>4, <1>5
  <2> QED BY <1>5, <1>6, <2>1, <2>2, <2>3 DEF IsBatch
<1>8. SendTeleporterMessage(c, l, destination, payload, allowed, fee, out.batch)
  BY <1>1, <1>2
<1> QED BY <1>1, <1>7, <1>8, SendSound

\* sendSpecifiedReceipts keeps the invariant.
LEMMA SendSpecifiedSound ==
  ASSUME Inv, NEW c \in Chains, NEW source \in Chains, NEW n \in Nat,
         NEW ids \in [1 .. n -> DOMAIN ledger[c].received],
         NEW allowed \in SUBSET Relayers, NEW fee \in FeeInfos[c],
         SendSpecifiedReceipts(c, source, ids, allowed, fee)
  PROVE  Inv'
<1> DEFINE receipts == [i \in DOMAIN ids |-> [nonce |-> ids[i][3],
                                              relayer |-> ledger[c].received[ids[i]]]]
           queues == ledger[c].receiptQueues
           l == [ledger[c] EXCEPT !.receiptQueues = queues]
<1>1. /\ CanCall(c) /\ ~SendEntered
      /\ \A i \in DOMAIN ids : ids[i][1] = source
      /\ SendTeleporterMessage(c, ledger[c], source, FALSE, allowed, fee, receipts)
  BY DEF SendSpecifiedReceipts
<1>2. IsLedger(ledger[c]) /\ FromLog(emitted, c, ledger[c])
  BY DEF Inv, StateOK, Good
<1>3. l = ledger[c]
  BY <1>2 DEF IsLedger
<1>4. ASSUME NEW i \in DOMAIN ids
      PROVE  /\ receipts[i].nonce = ids[i][3] /\ receipts[i].relayer = ledger[c].received[ids[i]]
             /\ receipts[i] \in [nonce : Nonces, relayer : RewardAddresses]
             /\ Records(ledger[c], c, source, receipts[i])
  <2>1. ids[i] \in DOMAIN ledger[c].received
    OBVIOUS
  <2>2. PICK s \in Chains, m \in Messages : m.destination = c /\ ids[i] = IDOf(s, m)
    BY <1>2, <2>1 DEF FromLog
  <2>3. ids[i] = MessageID(source, c, ids[i][3]) /\ ids[i][3] \in Nonces
    <3>1. s = source
      BY <1>1, <2>2, IDParts
    <3>2. m.nonce \in Nonces /\ ids[i][3] = m.nonce
      BY <2>2, IDParts DEF Messages
    <3> QED BY <2>2, <3>1, <3>2 DEF IDOf, MessageID
  <2>4. ledger[c].received[ids[i]] \in RewardAddresses
    BY <1>2, <2>1 DEF IsLedger
  <2> QED BY <2>1, <2>3, <2>4 DEF Records
<1>5. receipts \in Receipts
  <2> DEFINE Receipt == [nonce : Nonces, relayer : RewardAddresses]
  <2>1. receipts \in [1 .. n -> Receipt]
    BY <1>4
  <2> HIDE DEF receipts, Receipt
  <2>2. receipts \in Seq(Receipt)
    BY <2>1
  <2> QED BY <2>2 DEF Receipts, Receipt
<1>6. DOMAIN receipts = DOMAIN ids
  OBVIOUS
<1> HIDE DEF receipts
<1>7. IsBatch(c, ledger[c], source, queues, receipts)
  BY <1>2, <1>4, <1>5, <1>6 DEF IsBatch, IsLedger
<1>8. SendTeleporterMessage(c, l, source, FALSE, allowed, fee, receipts)
  BY <1>1, <1>3
<1> HIDE DEF queues
<1> QED BY <1>1, <1>7, <1>8, SendSound

\* retrySendCrossChainMessage keeps the invariant.
LEMMA RetrySendSound ==
  ASSUME Inv, NEW c \in Chains, NEW id, RetrySendCrossChainMessage(c, id)
  PROVE  Inv'
<1> DEFINE k == [ledger[c] EXCEPT !.outbox = @ \cup {ledger[c].sentMessageInfo[id].msg}]
<1>1. /\ CanCall(c) /\ ~SendEntered
      /\ id \in DOMAIN ledger[c].sentMessageInfo
      /\ Settle(c, k, tx)
  BY DEF RetrySendCrossChainMessage
<1>2. (\A i \in DOMAIN tx : ~IsFee(tx[i])) /\ SendingOf(tx, c) = {}
  BY <1>1, NoSend
<1>3. StackOK(emitted, tx) /\ Good(emitted, c, ledger[c], {}, {}, DueOf(tx, c))
  <2>1. StackOK(emitted, tx) /\ Good(emitted, c, ledger[c], {}, SendingOf(tx, c), DueOf(tx, c))
    BY DEF Inv, StateOK
  <2> QED BY <1>2, <2>1
<1>4. Good(emitted, c, k, {}, {}, DueOf(tx, c))
  BY <1>1, <1>3, LogAgainSound
<1>5. \A i \in DOMAIN tx : tx[i].chain = c
  BY <1>1, CallChain DEF CanCall
<1> HIDE DEF k
<1>6. StateOK(emitted, c, k, {}, tx)
  BY <1>2, <1>4, StateWithoutFees
<1> QED BY <1>1, <1>3, <1>5, <1>6, SettleSound

\* addFeeAmount, up to the transfer of the fee, keeps the invariant.
LEMMA AddFeeSound ==
  ASSUME Inv, NEW c \in Chains, NEW id, NEW fee \in FeeInfos[c], AddFeeAmount(c, id, fee)
  PROVE  Inv'
<1> DEFINE l == ledger[c]
           f == [op |-> "addFee", chain |-> c, saved |-> l, id |-> id, fee |-> fee,
                 before |-> l.balance[fee.asset]]
           t == Append(tx, f)
<1>1. /\ CanCall(c) /\ ~SendEntered /\ fee.asset \in Assets
      /\ id \in DOMAIN l.sentMessageInfo /\ l.sentMessageInfo[id].asset = fee.asset
      /\ Settle(c, l, t)
  BY DEF AddFeeAmount
<1>2. (\A i \in DOMAIN tx : ~IsFee(tx[i])) /\ SendingOf(tx, c) = {}
  BY <1>1, NoSend
<1> DEFINE due == DueOf(tx, c)
<1>3. /\ StackOK(emitted, tx) /\ IsStack(tx)
      /\ StateOK(emitted, c, l, {}, tx) /\ Good(emitted, c, l, {}, {}, due)
  <2>1. StackOK(emitted, tx) /\ StateOK(emitted, c, l, {}, tx)
    BY DEF Inv
  <2>2. Good(emitted, c, l, {}, SendingOf(tx, c), DueOf(tx, c))
    BY <2>1 DEF StateOK
  <2> HIDE DEF l
  <2> QED BY <1>2, <2>1, <2>2 DEF StackOK
<1>4. /\ l.balance[fee.asset] \in Nat /\ Owes(l, fee.asset) \in Nat /\ due.all[fee.asset] \in Nat
      /\ l.balance[fee.asset] >= Owes(l, fee.asset) + due.all[fee.asset]
  <2> HIDE DEF l, due
  <2>1. Amounts(l.sentMessageInfo)
    BY <1>3, FiniteFees DEF Good
  <2> QED BY <1>1, <1>3, <2>1, OwesType DEF Good, IsLedger, Covered, IsDue
<1>5. fee \in [asset : Assets \cup {NoAsset}, amount : Nat]
  BY BoundAssumption
<1>6. /\ f.op = "addFee" /\ f.chain = c /\ f.saved = l /\ f.id = id /\ f.fee = fee
      /\ f.before = l.balance[fee.asset]
  OBVIOUS
<1>7. \A i \in DOMAIN tx : tx[i].chain = c
  BY <1>1, CallChain DEF CanCall
<1> HIDE DEF f, l, t, due
<1>8. FrameOK(emitted, f) /\ IsFee(f) /\ OpenIDs(f) = {}
  BY <1>1, <1>4, <1>5, <1>6 DEF FrameOK, IsFee, OpenIDs
<1>9. StackOK(emitted, t) /\ \A i \in DOMAIN t : t[i].chain = c
  <2>1. StateOK(emitted, f.chain, f.saved, OpenIDs(f), tx)
    BY <1>3, <1>6, <1>8
  <2>2. \A i \in DOMAIN tx : tx[i].chain = f.chain
    BY <1>6, <1>7
  <2>3. StackOK(emitted, tx) /\ FrameOK(emitted, f) /\ \A i \in DOMAIN tx : ~IsFee(tx[i])
    BY <1>2, <1>3, <1>8
  <2>4. /\ StackOK(emitted, Append(tx, f))
        /\ \A i \in DOMAIN Append(tx, f) : Append(tx, f)[i].chain = f.chain
    BY <2>1, <2>2, <2>3, PushSound
  <2> QED BY <1>6, <2>4 DEF t
<1>10. SendingOf(t, c) = {}
  <2>1. SendingOf(t, c) = SendingOf(tx, c) \cup {}
    BY <1>3, <1>6, PushSending DEF t
  <2> QED BY <1>2, <2>1
<1>11. \A i \in DOMAIN t : IsFee(t[i]) => t[i] = f
  <2>1. /\ DOMAIN tx = 1 .. Len(tx) /\ DOMAIN t = 1 .. Len(tx) + 1 /\ Len(tx) \in Nat
        /\ t[Len(tx) + 1] = f /\ \A i \in DOMAIN tx : t[i] = tx[i]
    BY <1>3, PushParts DEF t
  <2>2. \A i \in DOMAIN t : i \in DOMAIN tx \/ i = Len(tx) + 1
    BY <2>1
  <2> QED BY <1>2, <2>1, <2>2
<1>12. DueOf(t, c) = due
  <2>1. f.op # "redeem"
    BY <1>6
  <2> QED BY <1>3, <1>8, <2>1, PushDue DEF t, due
<1>13. Payable(l, f, DueOf(t, c))
  BY <1>1, <1>4, <1>6, <1>12 DEF Payable
<1>14. StateOK(emitted, c, l, {}, t)
  <2>1. Good(emitted, c, l, {}, SendingOf(t, c), DueOf(t, c))
    BY <1>3, <1>10, <1>12
  <2> QED BY <1>11, <1>13, <2>1 DEF StateOK
<1> QED BY <1>1, <1>7, <1>9, <1>14, SettleSound

\* A call of a destination contract has no fee: what is said of a storage stays when it is opened.
LEMMA PushedState ==
  ASSUME NEW log, NEW c, NEW l, NEW open, NEW t, StackOK(log, t), StateOK(log, c, l, open, t),
         NEW f, FrameOK(log, f), f.op \in {"execute", "retry"}
  PROVE  StateOK(log, c, l, open, Append(t, f))
<1> DEFINE p == Append(t, f)
<1>1. IsStack(t) /\ ~IsFee(f)
  BY DEF StackOK, IsFee
<1>2. SendingOf(p, c) = SendingOf(t, c)
  <2>1. SendingOf(p, c) = SendingOf(t, c) \cup (IF f.op = "send" /\ f.chain = c THEN {f.msg} ELSE {})
    BY <1>1, PushSending
  <2>2. f.op # "send"
    OBVIOUS
  <2> QED BY <2>1, <2>2
<1>3. \A i \in DOMAIN p : IsFee(p[i]) => i \in DOMAIN t /\ p[i] = t[i]
  <2>1. /\ DOMAIN t = 1 .. Len(t) /\ DOMAIN p = 1 .. Len(t) + 1 /\ Len(t) \in Nat
        /\ p[Len(t) + 1] = f /\ \A i \in DOMAIN t : p[i] = t[i]
    BY <1>1, PushParts
  <2>2. \A i \in DOMAIN p : i \in DOMAIN t \/ i = Len(t) + 1
    BY <2>1
  <2> HIDE DEF p
  <2> QED BY <1>1, <2>1, <2>2
<1>4. DueOf(p, c) = DueOf(t, c)
  <2>1. f.op # "redeem"
    OBVIOUS
  <2> QED BY <2>1, PushDue
<1> HIDE DEF p
<1>5. Good(log, c, l, open, SendingOf(p, c), DueOf(p, c))
  BY <1>2, <1>4 DEF StateOK
<1>6. \A i \in DOMAIN p : IsFee(p[i]) /\ p[i].chain = c => Payable(l, p[i], DueOf(p, c))
  BY <1>3, <1>4 DEF StateOK
<1>7. StateOK(log, c, l, open, p)
  BY <1>5, <1>6 DEF StateOK
<1> QED BY <1>7 DEF p

\* It also stays when such a call ends.
LEMMA PoppedState ==
  ASSUME NEW log, NEW c, NEW l, NEW open, NEW t, StackOK(log, t), t # <<>>,
         StateOK(log, c, l, open, t), t[Len(t)].op \in {"execute", "retry"}
  PROVE  StateOK(log, c, l, open, Under(t))
<1> DEFINE p == Under(t)
<1>1. IsStack(t)
  BY DEF StackOK
<1>2. SendingOf(p, c) = SendingOf(t, c)
  <2>1. SendingOf(t, c)
          = SendingOf(p, c) \cup (IF t[Len(t)].op = "send" /\ t[Len(t)].chain = c
                                  THEN {t[Len(t)].msg} ELSE {})
    BY <1>1, PopSending
  <2>2. t[Len(t)].op # "send"
    OBVIOUS
  <2> QED BY <2>1, <2>2
<1>3. \A i \in DOMAIN p : i \in DOMAIN t /\ p[i] = t[i]
  BY PopSound
<1>4. DueOf(p, c) = DueOf(t, c)
  <2>1. t[Len(t)].op # "redeem"
    OBVIOUS
  <2> QED BY <2>1, PopDue
<1> HIDE DEF p
<1>5. Good(log, c, l, open, SendingOf(p, c), DueOf(p, c))
  BY <1>2, <1>4 DEF StateOK
<1>6. \A i \in DOMAIN p : IsFee(p[i]) /\ p[i].chain = c => Payable(l, p[i], DueOf(p, c))
  BY <1>3, <1>4 DEF StateOK
<1>7. StateOK(log, c, l, open, p)
  BY <1>5, <1>6 DEF StateOK
<1> QED BY <1>7 DEF p

\* The innermost call is of chain c, and so are those under it.
LEMMA TopSound ==
  ASSUME Inv, NEW c, tx # <<>>, Top.chain = c
  PROVE  /\ StackOK(emitted, tx) /\ StackOK(emitted, Caller)
         /\ Caller = Under(tx) /\ Top = tx[Len(tx)] /\ Len(tx) \in DOMAIN tx
         /\ FrameOK(emitted, Top)
         /\ StateOK(emitted, c, Top.saved, OpenIDs(Top), Caller)
         /\ \A i \in DOMAIN tx : tx[i].chain = c
         /\ \A i \in DOMAIN Caller : Caller[i].chain = c
         /\ \A i \in DOMAIN Caller : IsFee(Top) => ~IsFee(Caller[i])
<1>1. Caller = Under(tx) /\ Top = tx[Len(tx)]
  BY DEF Caller, Under, Top
<1>2. StackOK(emitted, tx)
  BY DEF Inv
<1>3. \A i \in DOMAIN tx : tx[i].chain = c
  BY CallChain
<1>4. /\ StackOK(emitted, Under(tx))
      /\ StateOK(emitted, tx[Len(tx)].chain, tx[Len(tx)].saved, OpenIDs(tx[Len(tx)]), Under(tx))
      /\ FrameOK(emitted, tx[Len(tx)])
      /\ Len(tx) \in DOMAIN tx
      /\ \A i \in DOMAIN Under(tx) : /\ i \in DOMAIN tx /\ Under(tx)[i] = tx[i]
                                     /\ Under(tx)[i].chain = tx[Len(tx)].chain
                                     /\ IsFee(tx[Len(tx)]) => ~IsFee(tx[i])
  BY <1>2, PopSound
<1>5. \A i \in DOMAIN Under(tx) : /\ Under(tx)[i].chain = c
                                  /\ IsFee(tx[Len(tx)]) => ~IsFee(Under(tx)[i])
  BY <1>1, <1>4
<1> QED BY <1>1, <1>2, <1>3, <1>4, <1>5

\* A fee token's transferFrom returns, and the message is sent or its fee raised.
LEMMA TransferReturnsSound ==
  ASSUME Inv, NEW c \in Chains, TransferReturns(c)
  PROVE  Inv'
<1>1. tx # <<>> /\ Top.chain = c /\ Top.op \in {"send", "addFee"}
  BY DEF TransferReturns
<1> DEFINE f == Top
           asset == f.fee.asset
           l == ledger[c]
           info == l.sentMessageInfo
<1>2. PICK credited \in 0 .. f.fee.amount :
        LET paid == [l EXCEPT !.balance[asset] = @ + credited]
            adjusted == paid.balance[asset] - f.before
        IN /\ adjusted > 0
           /\ Settle(c, IF f.op = "send" THEN StoreSent(paid, c, f.msg, asset, adjusted)
                        ELSE [paid EXCEPT !.sentMessageInfo[f.id].amount = @ + adjusted],
                     Caller)
  BY DEF TransferReturns
<1> DEFINE balance == [l.balance EXCEPT ![asset] = @ + credited]
           adjusted == balance[asset] - f.before
           paid == [l EXCEPT !.balance = balance]
<1>3. /\ StackOK(emitted, tx) /\ StackOK(emitted, Caller)
      /\ Caller = Under(tx) /\ f = tx[Len(tx)] /\ Len(tx) \in DOMAIN tx
      /\ FrameOK(emitted, f)
      /\ \A i \in DOMAIN tx : tx[i].chain = c
      /\ \A i \in DOMAIN Caller : Caller[i].chain = c
      /\ \A i \in DOMAIN Caller : IsFee(f) => ~IsFee(Caller[i])
  BY <1>1, TopSound
<1>4. /\ StateOK(emitted, c, l, {}, tx) /\ Good(emitted, c, l, {}, SendingOf(tx, c), DueOf(tx, c))
      /\ IsFee(f) /\ Payable(l, f, DueOf(tx, c))
      /\ \A i \in DOMAIN Caller : ~IsFee(Caller[i])
  <2>1. StateOK(emitted, c, l, {}, tx) /\ IsFee(f)
    BY <1>1 DEF Inv, IsFee
  <2> HIDE DEF f, l
  <2> QED BY <1>1, <1>3, <2>1 DEF StateOK
<1>5. SendingOf(tx, c) = IF f.op = "send" THEN {f.msg} ELSE {}
  <2>1. SendingOf(Caller, c) = {}
    BY <1>4 DEF SendingOf, IsFee
  <2>2. SendingOf(tx, c)
          = SendingOf(Caller, c) \cup (IF f.op = "send" /\ f.chain = c THEN {f.msg} ELSE {})
    <3> HIDE DEF f
    <3> QED BY <1>1, <1>3, PopSending DEF StackOK
  <2>3. f.chain = c
    BY <1>1
  <2> HIDE DEF f
  <2> QED BY <2>1, <2>2, <2>3
<1> DEFINE due == DueOf(tx, c)
<1>6. due = DueOf(Caller, c)
  <2>1. f.op # "redeem"
    BY <1>1
  <2> HIDE DEF f
  <2> QED BY <1>1, <1>3, <2>1, PopDue
<1>7. [l EXCEPT !.balance[asset] = @ + credited] = paid /\ paid.balance = balance
  <2>1. IsLedger(l)
    BY <1>4 DEF Good
  <2> HIDE DEF f, l
  <2> QED BY <2>1 DEF IsLedger
<1>8. /\ adjusted > 0
      /\ f.op = "send" => Settle(c, StoreSent(paid, c, f.msg, asset, adjusted), Caller)
      /\ f.op # "send" => Settle(c, [paid EXCEPT !.sentMessageInfo[f.id].amount = @ + adjusted], Caller)
  <2> HIDE DEF f, l, paid, balance
  <2> QED BY <1>2, <1>7
<1>9. /\ asset \in Assets /\ f.before \in Nat /\ credited \in Nat /\ l.balance \in [Assets -> Nat]
      /\ \A a \in Assets : /\ Owes(l, a) \in Nat /\ due.all[a] \in Nat
                            /\ l.balance[a] >= Owes(l, a) + due.all[a]
      /\ Owes(l, asset) + due.all[asset] <= f.before
  <2>1. asset \in Assets /\ f.fee.amount \in Nat /\ f.before \in Nat
    <3> HIDE DEF f
    <3> QED BY <1>3, <1>4 DEF FrameOK
  <2>2. Amounts(l.sentMessageInfo) /\ IsLedger(l) /\ Covered(l, due) /\ IsDue(due)
    BY <1>4, FiniteFees DEF Good
  <2>3. Payable(l, f, due)
    BY <1>4
  <2> HIDE DEF f, l, due
  <2> QED BY <2>1, <2>2, <2>3, OwesType DEF IsLedger, Covered, Payable, IsDue
<1>10. /\ balance \in [Assets -> Nat] /\ adjusted \in Nat
      /\ \A a \in Assets :
           balance[a] >= Owes(l, a) + due.all[a] + IF asset = a THEN adjusted ELSE 0
  <2> HIDE DEF f, l, due
  <2>1. balance \in [Assets -> Nat] /\ balance[asset] \in Nat
    BY <1>9
  <2>2. \A a \in Assets : a # asset => balance[a] = l.balance[a]
    BY <1>9
  <2> HIDE DEF balance
  <2>3. adjusted \in Nat
    BY <1>8, <1>9, <2>1
  <2>4. balance[asset] >= Owes(l, asset) + due.all[asset] + adjusted
    BY <1>9, <2>1
  <2>5. \A a \in Assets : a # asset => balance[a] >= Owes(l, a) + due.all[a] + 0
    BY <1>9, <2>2
  <2> QED BY <2>1, <2>3, <2>4, <2>5
<1> HIDE DEF balance, adjusted
<1>11. CASE f.op = "send"
  <2> DEFINE k == StoreSent(paid, c, f.msg, asset, adjusted)
  <2>1. Good(emitted, c, l, {}, {f.msg}, due) /\ f.msg \in Messages
    <3> HIDE DEF f, l
    <3> QED BY <1>3, <1>4, <1>5, <1>11 DEF FrameOK
  <2>2. k = StoreSent([l EXCEPT !.balance = balance], c, f.msg, asset, adjusted)
    OBVIOUS
  <2>3. asset \in Assets \cup {NoAsset}
    BY <1>9
  <2> HIDE DEF f, l, k, paid, asset, due
  <2>4. Good(emitted, c, k, {}, {}, due)
    BY <1>10, <2>1, <2>2, <2>3, StoreSound
  <2>5. StateOK(emitted, c, k, {}, Caller)
    BY <1>4, <1>6, <2>4, StateWithoutFees
  <2>6. Settle(c, k, Caller)
    BY <1>8, <1>11 DEF k
  <2> QED BY <1>3, <2>5, <2>6, SettleSound
<1>12. CASE f.op # "send"
  <2> DEFINE k == [paid EXCEPT !.sentMessageInfo[f.id].amount = @ + adjusted]
  <2>1. Good(emitted, c, l, {}, {}, due)
    <3> HIDE DEF f, l
    <3> QED BY <1>4, <1>5, <1>12
  <2>2. f.id \in DOMAIN l.sentMessageInfo /\ l.sentMessageInfo[f.id].asset = asset
    <3>1. f.op = "addFee"
      BY <1>1, <1>12
    <3> HIDE DEF f, l
    <3> QED BY <1>4, <3>1 DEF Payable
  <2>3. k = [[l EXCEPT !.balance = balance] EXCEPT !.sentMessageInfo[f.id].amount = @ + adjusted]
    OBVIOUS
  <2> HIDE DEF f, l, k, paid, asset, due
  <2>4. \A a \in Assets : balance[a] >= Owes(l, a) + due.all[a]
                                         + IF l.sentMessageInfo[f.id].asset = a
                                           THEN adjusted ELSE 0
    BY <1>10, <2>2
  <2>5. Good(emitted, c, k, {}, {}, due)
    BY <1>10, <2>1, <2>2, <2>3, <2>4, RaiseSound
  <2>6. StateOK(emitted, c, k, {}, Caller)
    BY <1>4, <1>6, <2>5, StateWithoutFees
  <2>7. Settle(c, k, Caller)
    BY <1>8, <1>12 DEF k
  <2> QED BY <1>3, <2>6, <2>7, SettleSound
<1> QED BY <1>11, <1>12

\* A fee token's transferFrom or transfer reverts: the storage is what it was before the call.
LEMMA TransferRevertsSound ==
  ASSUME Inv, NEW c \in Chains, TransferReverts(c)
  PROVE  Inv'
<1>1. /\ tx # <<>> /\ Top.chain = c /\ Top.op \in {"send", "addFee", "redeem"}
      /\ Settle(c, Top.saved, Caller)
  BY DEF TransferReverts
<1> DEFINE f == Top
<1>2. /\ StackOK(emitted, Caller)
      /\ StateOK(emitted, c, f.saved, OpenIDs(f), Caller)
      /\ \A i \in DOMAIN tx : tx[i].chain = c
      /\ \A i \in DOMAIN Caller : Caller[i].chain = c
  BY <1>1, TopSound
<1>3. OpenIDs(f) = {}
  BY <1>1 DEF OpenIDs
<1>4. Settle(c, f.saved, Caller)
  BY <1>1
<1> HIDE DEF f
<1>5. StateOK(emitted, c, f.saved, {}, Caller)
  BY <1>2, <1>3
<1> QED BY <1>2, <1>4, <1>5, SettleSound

\* A call of a destination contract for a message: k is the storage during the call.
OpensCall(c, f, k) ==
  /\ FrameOK(emitted, f)
  /\ f.chain = c /\ f.op \in {"execute", "retry"}
  /\ Good(emitted, c, k, {}, SendingOf(tx, c), DueOf(tx, c))
  /\ \A a \in Assets : Owes(k, a) <= Owes(ledger[c], a)
  /\ Good(emitted, c, f.saved, OpenIDs(f), SendingOf(tx, c), DueOf(tx, c))
  /\ \A a \in Assets : Owes(f.saved, a) <= Owes(ledger[c], a)

\* While no fee is being added, a storage that owes no more keeps the fees of the stack covered.
LEMMA StateFrom ==
  ASSUME Inv, NEW c \in Chains, ~ReceiveEntered,
         NEW k, NEW open, Good(emitted, c, k, open, SendingOf(tx, c), DueOf(tx, c)),
         \A a \in Assets : Owes(k, a) <= Owes(ledger[c], a)
  PROVE  StateOK(emitted, c, k, open, tx)
<1>1. StackOK(emitted, tx) /\ StateOK(emitted, c, ledger[c], {}, tx)
  BY DEF Inv
<1>2. \A i \in DOMAIN tx : tx[i].op # "addFee"
  BY DEF ReceiveEntered
<1> QED BY <1>1, <1>2, StateKept

\* The destination contract is called.
LEMMA OpensCallSound ==
  ASSUME Inv, NEW c \in Chains, CanCall(c), ~ReceiveEntered, NEW f, NEW k, OpensCall(c, f, k),
         Settle(c, k, Append(tx, f))
  PROVE  Inv'
<1>1. StackOK(emitted, tx) /\ IsStack(tx)
  BY DEF Inv, StackOK
<1>2. \A i \in DOMAIN tx : tx[i].chain = c
  BY CallChain DEF CanCall
<1>3. FrameOK(emitted, f) /\ f.chain = c /\ ~IsFee(f) /\ f.op \in {"execute", "retry"}
  BY DEF OpensCall, IsFee
<1>4. StateOK(emitted, c, k, {}, tx) /\ StateOK(emitted, c, f.saved, OpenIDs(f), tx)
  <2>1. /\ Good(emitted, c, k, {}, SendingOf(tx, c), DueOf(tx, c))
        /\ \A a \in Assets : Owes(k, a) <= Owes(ledger[c], a)
    BY DEF OpensCall
  <2>2. /\ Good(emitted, c, f.saved, OpenIDs(f), SendingOf(tx, c), DueOf(tx, c))
        /\ \A a \in Assets : Owes(f.saved, a) <= Owes(ledger[c], a)
    BY DEF OpensCall
  <2>3. StateOK(emitted, c, k, {}, tx)
    BY <2>1, StateFrom
  <2>4. StateOK(emitted, c, f.saved, OpenIDs(f), tx)
    BY <2>2, StateFrom
  <2> QED BY <2>3, <2>4
<1>5. StateOK(emitted, c, k, {}, Append(tx, f))
  BY <1>1, <1>3, <1>4, PushedState
<1>6. /\ StackOK(emitted, Append(tx, f))
      /\ \A i \in DOMAIN Append(tx, f) : Append(tx, f)[i].chain = c
  <2>1. StateOK(emitted, f.chain, f.saved, OpenIDs(f), tx)
    BY <1>3, <1>4
  <2>2. \A i \in DOMAIN tx : tx[i].chain = f.chain
    BY <1>2, <1>3
  <2>3. IsFee(f) => \A i \in DOMAIN tx : ~IsFee(tx[i])
    BY <1>3
  <2>4. /\ StackOK(emitted, Append(tx, f))
        /\ \A i \in DOMAIN Append(tx, f) : Append(tx, f)[i].chain = f.chain
    BY <1>1, <1>3, <2>1, <2>2, <2>3, PushSound
  <2> QED BY <1>3, <2>4
<1> QED BY <1>2, <1>5, <1>6, SettleSound

\* receiveCrossChainMessage keeps the invariant.
LEMMA ReceiveSound ==
  ASSUME Inv, NEW c \in Chains, NEW w, NEW deliverer, NEW rewardAddress \in RewardAddresses,
         ReceiveCrossChainMessage(c, w, deliverer, rewardAddress)
  PROVE  Inv'
<1> DEFINE source == w.source
           msg == w.msg
           id == IDOf(source, msg)
           sending == SendingOf(tx, c)
           due == DueOf(tx, c)
           marked == MarkReceipts(ledger[c], c, source, msg.receipts)
           l == MarkReceived(marked, source, msg, id, deliverer, rewardAddress)
           f == [op |-> "execute", chain |-> c, saved |-> l, id |-> id, msg |-> msg]
<1>1. /\ CanCall(c) /\ ~ReceiveEntered
      /\ w \in signable /\ w.teleporter /\ msg.destination = c
      /\ id \notin DOMAIN ledger[c].received
  BY DEF ReceiveCrossChainMessage, Verified
<1>2. IF msg.payload
      THEN \/ Settle(c, StoreFailed(l, id, msg), tx)
           \/ Settle(c, Executed(l, id), Append(tx, f))
      ELSE Settle(c, l, tx)
  BY DEF ReceiveCrossChainMessage, Execute, Executed
<1>3. Good(emitted, c, ledger[c], {}, sending, due) /\ StackOK(emitted, tx) /\ UniqueIDs(emitted)
  BY IDsUnique DEF Inv, StateOK
<1>4. source \in Chains /\ msg \in Messages /\ Warp(source, msg) \in emitted
  <2>1. w \in emitted /\ LogSound(emitted)
    BY <1>1 DEF Inv
  <2>2. PICK s \in Chains, m \in Messages : w = Warp(s, m)
    BY <1>1, <2>1 DEF LogSound
  <2>3. source = s /\ msg = m
    BY <2>2 DEF Warp
  <2> QED BY <2>1, <2>2, <2>3
<1>5. IsDelivery(emitted, c, source, msg, id)
  BY <1>1, <1>4 DEF IsDelivery
<1>6. \A i \in DOMAIN tx : tx[i].chain = c
  BY <1>1, CallChain DEF CanCall
<1>7. f.op = "execute" /\ f.chain = c /\ f.saved = l /\ f.id = id /\ f.msg = msg
  OBVIOUS
<1> HIDE DEF source, msg, id, sending, due, f
<1>8. /\ Good(emitted, c, marked, {}, sending, due)
      /\ \A a \in Assets : Owes(marked, a) = Owes(ledger[c], a)
      /\ marked.received = ledger[c].received
  <2>1. marked = MarkReceipts(ledger[c], c, source, msg.receipts)
    OBVIOUS
  <2>2. Good(emitted, c, ledger[c], {}, sending, due) /\ msg.destination = c
    BY <1>1, <1>3
  <2> HIDE DEF marked
  <2> QED BY <1>4, <2>1, <2>2, MarkSound
<1> HIDE DEF marked
<1>9. /\ Good(emitted, c, l, {id}, sending, due)
      /\ ~msg.payload => Good(emitted, c, l, {}, sending, due)
      /\ id \in DOMAIN l.received
      /\ \A a \in Assets : Owes(l, a) = Owes(marked, a)
  <2>1. id \notin DOMAIN marked.received
    BY <1>1, <1>8
  <2>2. IsReceived(marked, l, source, msg, id, deliverer, rewardAddress)
    BY DEF IsReceived
  <2>3. Good(emitted, c, marked, {}, sending, due) /\ UniqueIDs(emitted)
    BY <1>3, <1>8
  <2> HIDE DEF l, marked
  <2>4. Good(emitted, c, l, {id}, sending, due)
    BY <1>5, <2>1, <2>2, <2>3, ReceivedSound, ZenonT(60)
  <2>5. id \in DOMAIN l.received
    BY <1>5, <2>1, <2>2, <2>3, ReceivedSound, ZenonT(60)
  <2>6. ~msg.payload => Good(emitted, c, l, {}, sending, due)
    BY <1>5, <2>1, <2>2, <2>3, ReceivedSound, ZenonT(60)
  <2>7. \A a \in Assets : Owes(l, a) = Owes(marked, a)
    <3>1. /\ l.sentMessageInfo = marked.sentMessageInfo
          /\ l.relayerRewardAmounts = marked.relayerRewardAmounts
      BY <2>2, <2>3 DEF IsReceived, MarkReceived, Good, IsLedger
    <3> QED BY <3>1 DEF Owes, FeesHeld, RewardsHeld
  <2> QED BY <2>4, <2>5, <2>6, <2>7
<1> HIDE DEF l
<1>10. \A a \in Assets : Owes(l, a) = Owes(ledger[c], a) /\ Owes(ledger[c], a) <= Owes(ledger[c], a)
  <2>1. Amounts(ledger[c].sentMessageInfo) /\ IsLedger(ledger[c])
    BY <1>3, FiniteFees DEF Good
  <2>2. \A a \in Assets : Owes(ledger[c], a) \in Nat
    BY <2>1, OwesType
  <2>3. \A a \in Assets : Owes(l, a) = Owes(ledger[c], a)
    BY <1>8, <1>9
  <2>4. \A n \in Nat : n <= n
    OBVIOUS
  <2> QED BY <2>2, <2>3, <2>4
<1>11. CASE ~msg.payload
  <2>1. Settle(c, l, tx)
    BY <1>2, <1>11
  <2>2. StateOK(emitted, c, l, {}, tx)
    <3>1. Good(emitted, c, l, {}, SendingOf(tx, c), DueOf(tx, c))
      BY <1>9, <1>11 DEF sending, due
    <3>2. \A a \in Assets : Owes(l, a) <= Owes(ledger[c], a)
      BY <1>10
    <3> QED BY <1>1, <3>1, <3>2, StateFrom
  <2> QED BY <1>3, <1>6, <2>1, <2>2, SettleSound
<1>12. CASE msg.payload /\ Settle(c, StoreFailed(l, id, msg), tx)
  <2> DEFINE k == StoreFailed(l, id, msg)
  <2>1. Settle(c, k, tx)
    BY <1>12
  <2>2. Good(emitted, c, k, {}, sending, due) /\ \A a \in Assets : Owes(k, a) = Owes(l, a)
    BY <1>3, <1>5, <1>9, <1>12, FailedSound
  <2> HIDE DEF k
  <2>3. StateOK(emitted, c, k, {}, tx)
    <3>1. Good(emitted, c, k, {}, SendingOf(tx, c), DueOf(tx, c))
      BY <2>2 DEF sending, due
    <3>2. \A a \in Assets : Owes(k, a) <= Owes(ledger[c], a)
      BY <1>10, <2>2
    <3> QED BY <1>1, <3>1, <3>2, StateFrom
  <2> QED BY <1>3, <1>6, <2>1, <2>3, SettleSound
<1>13. CASE msg.payload /\ Settle(c, Executed(l, id), Append(tx, f))
  <2> DEFINE k == Executed(l, id)
  <2>1. Settle(c, k, Append(tx, f))
    BY <1>13
  <2>2. Good(emitted, c, k, {}, sending, due) /\ \A a \in Assets : Owes(k, a) = Owes(l, a)
    BY <1>3, <1>5, <1>9, <1>13, ExecutedSound
  <2> HIDE DEF k
  <2>3. FrameOK(emitted, f) /\ OpenIDs(f) = {id}
    <3>1. id[1] = source
      BY IDParts DEF id
    <3>2. source \in Chains /\ id = IDOf(source, msg)
      BY <1>4 DEF id
    <3> QED BY <1>1, <1>4, <1>7, <1>9, <1>13, <3>1, <3>2 DEF FrameOK, IsFee, OpenIDs
  <2>4. OpensCall(c, f, k)
    <3>1. Good(emitted, c, k, {}, SendingOf(tx, c), DueOf(tx, c))
      BY <2>2 DEF sending, due
    <3>2. Good(emitted, c, f.saved, OpenIDs(f), SendingOf(tx, c), DueOf(tx, c))
      BY <1>7, <1>9, <2>3 DEF sending, due
    <3>3. \A a \in Assets : Owes(k, a) <= Owes(ledger[c], a) /\ Owes(f.saved, a) <= Owes(ledger[c], a)
      BY <1>7, <1>10, <2>2
    <3> QED BY <1>7, <2>3, <3>1, <3>2, <3>3 DEF OpensCall
  <2> QED BY <1>1, <2>1, <2>4, OpensCallSound
<1> QED BY <1>2, <1>11, <1>12, <1>13

\* retryMessageExecution keeps the invariant.
LEMMA RetryExecutionSound ==
  ASSUME Inv, NEW c \in Chains, NEW id, RetryMessageExecution(c, id)
  PROVE  Inv'
<1> DEFINE l == ledger[c]
           sending == SendingOf(tx, c)
           due == DueOf(tx, c)
           cleared == ClearFailed(l, id)
           k == Executed(cleared, id)
           f == [op |-> "retry", chain |-> c, saved |-> l, id |-> id,
                 msg |-> l.receivedFailedMessageHashes[id]]
<1>1. /\ CanCall(c) /\ ~ReceiveEntered
      /\ id \in DOMAIN l.receivedFailedMessageHashes
      /\ Settle(c, k, Append(tx, f))
  BY DEF RetryMessageExecution, Execute, Executed
<1>2. Good(emitted, c, l, {}, sending, due) /\ UniqueIDs(emitted)
  BY IDsUnique DEF Inv, StateOK
<1>3. f.op = "retry" /\ f.chain = c /\ f.saved = l
  OBVIOUS
<1>4. FrameOK(emitted, f) /\ OpenIDs(f) = {}
  BY <1>3 DEF FrameOK, IsFee, OpenIDs
<1> HIDE DEF f, l, sending, due
<1>5. /\ Good(emitted, c, cleared, {id}, sending, due)
      /\ \A a \in Assets : Owes(cleared, a) = Owes(l, a)
      /\ cleared.received = l.received
  BY <1>1, <1>2, ClearedSound
<1> HIDE DEF cleared
<1>6. id \in DOMAIN l.received /\ \E source, msg : IsDelivery(emitted, c, source, msg, id) /\ msg.payload
  BY <1>1, <1>2, FailedIsDelivery
<1>7. PICK source, msg : IsDelivery(emitted, c, source, msg, id) /\ msg.payload
  BY <1>6
<1>8. Good(emitted, c, k, {}, sending, due) /\ \A a \in Assets : Owes(k, a) = Owes(cleared, a)
  <2>1. id \in DOMAIN cleared.received
    BY <1>5, <1>6
  <2> QED BY <1>2, <1>5, <1>7, <2>1, ExecutedSound
<1> HIDE DEF k
<1>9. \A a \in Assets : Owes(k, a) = Owes(l, a) /\ Owes(l, a) <= Owes(l, a)
  <2>1. Amounts(l.sentMessageInfo) /\ IsLedger(l)
    BY <1>2, FiniteFees DEF Good
  <2>2. \A a \in Assets : Owes(l, a) \in Nat
    BY <2>1, OwesType
  <2>3. \A a \in Assets : Owes(k, a) = Owes(l, a)
    BY <1>5, <1>8
  <2>4. \A n \in Nat : n <= n
    OBVIOUS
  <2> QED BY <2>2, <2>3, <2>4
<1>10. OpensCall(c, f, k)
  BY <1>2, <1>3, <1>4, <1>8, <1>9 DEF OpensCall, l, sending, due
<1> QED BY <1>1, <1>10, OpensCallSound

\* The destination contract returns.
LEMMA ExecutionSucceedsSound ==
  ASSUME Inv, NEW c \in Chains, ExecutionSucceeds(c)
  PROVE  Inv'
<1>1. /\ tx # <<>> /\ Top.chain = c /\ Top.op \in {"execute", "retry"}
      /\ Settle(c, ledger[c], Caller)
  BY DEF ExecutionSucceeds
<1>2. /\ StackOK(emitted, tx) /\ StackOK(emitted, Caller)
      /\ Caller = Under(tx) /\ Top = tx[Len(tx)]
      /\ \A i \in DOMAIN tx : tx[i].chain = c
      /\ \A i \in DOMAIN Caller : Caller[i].chain = c
  BY <1>1, TopSound
<1>3. StateOK(emitted, c, ledger[c], {}, tx) /\ tx[Len(tx)].op \in {"execute", "retry"}
  BY <1>1, <1>2 DEF Inv
<1>4. StateOK(emitted, c, ledger[c], {}, Caller)
  BY <1>1, <1>2, <1>3, PoppedState
<1> QED BY <1>1, <1>2, <1>4, SettleSound

\* The destination contract fails: a delivery stores the failure, a retry reverts.
LEMMA ExecutionFailsSound ==
  ASSUME Inv, NEW c \in Chains, ExecutionFails(c)
  PROVE  Inv'
<1> DEFINE f == Top
           l == f.saved
           k == StoreFailed(l, f.id, f.msg)
<1>1. /\ tx # <<>> /\ Top.chain = c /\ f.op \in {"execute", "retry"}
      /\ Settle(c, IF f.op = "execute" THEN k ELSE l, Caller)
  BY DEF ExecutionFails
<1>2. /\ StackOK(emitted, Caller)
      /\ FrameOK(emitted, f)
      /\ StateOK(emitted, c, l, OpenIDs(f), Caller)
      /\ \A i \in DOMAIN tx : tx[i].chain = c
      /\ \A i \in DOMAIN Caller : Caller[i].chain = c
  BY <1>1, TopSound
<1>3. CASE f.op = "retry"
  <2>1. Settle(c, l, Caller) /\ OpenIDs(f) = {}
    BY <1>1, <1>3 DEF OpenIDs
  <2> HIDE DEF f, l
  <2>2. StateOK(emitted, c, l, {}, Caller)
    BY <1>2, <2>1
  <2> QED BY <1>2, <2>1, <2>2, SettleSound
<1>4. CASE f.op = "execute"
  <2>1. Settle(c, k, Caller) /\ OpenIDs(f) = {f.id} /\ f.chain = c
    BY <1>1, <1>4 DEF OpenIDs
  <2>2. UniqueIDs(emitted)
    BY IDsUnique
  <2> HIDE DEF f
  <2>3. /\ IsDelivery(emitted, c, f.id[1], f.msg, f.id) /\ f.msg.payload
        /\ f.id \in DOMAIN l.received
    BY <1>2, <1>4, <2>1 DEF FrameOK, IsDelivery
  <2> HIDE DEF l
  <2>4. /\ StateOK(emitted, c, l, {f.id}, Caller)
        /\ Good(emitted, c, l, {f.id}, SendingOf(Caller, c), DueOf(Caller, c))
    BY <1>2, <2>1 DEF StateOK
  <2>5. /\ Good(emitted, c, k, {}, SendingOf(Caller, c), DueOf(Caller, c))
        /\ \A a \in Assets : Owes(k, a) = Owes(l, a)
    BY <2>2, <2>3, <2>4, FailedSound
  <2>6. k.sentMessageInfo = l.sentMessageInfo
    BY <2>4 DEF StoreFailed, Good, IsLedger
  <2> HIDE DEF k
  <2>7. \A a \in Assets : Owes(k, a) <= Owes(l, a)
    <3>1. Amounts(l.sentMessageInfo) /\ IsLedger(l)
      BY <2>4, FiniteFees DEF Good
    <3>2. \A a \in Assets : Owes(l, a) \in Nat
      BY <3>1, OwesType
    <3>3. \A n \in Nat : n <= n
      OBVIOUS
    <3> QED BY <2>5, <3>2, <3>3
  <2>8. StateOK(emitted, c, k, {}, Caller)
    BY <1>2, <2>4, <2>5, <2>6, <2>7, StateKept
  <2> QED BY <1>2, <2>1, <2>8, SettleSound
<1> QED BY <1>1, <1>3, <1>4

\* redeemRelayerRewards, up to the transfer of the reward, keeps the invariant, whatever call is
\* open.
LEMMA RedeemRewardsSound ==
  ASSUME Inv, NEW c \in Chains, NEW relayer \in Relayers, NEW asset \in Assets,
         RedeemRelayerRewards(c, relayer, asset)
  PROVE  Inv'
<1> DEFINE l == ledger[c]
           reward == l.relayerRewardAmounts[relayer][asset]
           k == RewardZeroed(l, relayer, asset)
           fee == [asset |-> asset, amount |-> reward]
           f == [op |-> "redeem", chain |-> c, saved |-> l, relayer |-> relayer, fee |-> fee]
           due == DueOf(tx, c)
           more == More(due, relayer, asset, reward)
           t == Append(tx, f)
<1>1. CanCall(c) /\ Settle(c, k, t)
  BY DEF RedeemRelayerRewards
<1>2. StackOK(emitted, tx) /\ StateOK(emitted, c, l, {}, tx)
  BY DEF Inv
<1>3. Good(emitted, c, l, {}, SendingOf(tx, c), due)
  BY <1>2 DEF StateOK
<1>4. /\ f.op = "redeem" /\ f.chain = c /\ f.saved = l /\ f.relayer = relayer
      /\ f.fee.asset = asset /\ f.fee.amount = reward
  OBVIOUS
<1> HIDE DEF l, fee, f
<1>5. reward \in Nat
  BY <1>3 DEF Good, IsLedger, RewardAddresses
<1>6. FrameOK(emitted, f) /\ ~IsFee(f) /\ OpenIDs(f) = {}
  BY <1>4, <1>5 DEF FrameOK, IsFee, OpenIDs
<1> HIDE DEF reward, due
<1>7. /\ Good(emitted, c, k, {}, SendingOf(tx, c), more)
      /\ \A a \in Assets : Owes(k, a) + more.all[a] = Owes(l, a) + due.all[a]
      /\ k.sentMessageInfo = l.sentMessageInfo
  BY <1>3, RedeemSound DEF reward
<1> HIDE DEF k
<1>8. \A i \in DOMAIN tx : tx[i].chain = c
  BY <1>1, CallChain DEF CanCall
<1>9. StackOK(emitted, t) /\ \A i \in DOMAIN t : t[i].chain = c
  <2>1. StateOK(emitted, f.chain, f.saved, OpenIDs(f), tx)
    BY <1>2, <1>4, <1>6
  <2>2. \A i \in DOMAIN tx : tx[i].chain = f.chain
    BY <1>4, <1>8
  <2>3. /\ StackOK(emitted, Append(tx, f))
        /\ \A i \in DOMAIN Append(tx, f) : Append(tx, f)[i].chain = f.chain
    <3> HIDE DEF t, more
    <3>1. IsFee(f) => \A i \in DOMAIN tx : ~IsFee(tx[i])
      BY <1>6
    <3>2. StackOK(emitted, tx) /\ FrameOK(emitted, f)
      BY <1>2, <1>6
    <3> QED BY <2>1, <2>2, <3>1, <3>2, PushSound
  <2> QED BY <1>4, <2>3
<1>10. SendingOf(t, c) = SendingOf(tx, c) /\ DueOf(t, c) = more
  <2>1. SendingOf(t, c) = SendingOf(tx, c) \cup {}
    BY <1>2, <1>4, PushSending DEF StackOK
  <2>2. DueOf(t, c) = more
    BY <1>2, <1>4, <1>6, PushDue DEF due
  <2> QED BY <2>1, <2>2
<1>11. \A i \in DOMAIN t : IsFee(t[i]) => i \in DOMAIN tx /\ t[i] = tx[i]
  <2>1. /\ DOMAIN tx = 1 .. Len(tx) /\ DOMAIN t = 1 .. Len(tx) + 1 /\ Len(tx) \in Nat
        /\ t[Len(tx) + 1] = f /\ \A i \in DOMAIN tx : t[i] = tx[i]
    BY <1>2, PushParts DEF StackOK
  <2> HIDE DEF t
  <2>2. \A i \in DOMAIN t : i \in DOMAIN tx \/ i = Len(tx) + 1
    BY <2>1
  <2> QED BY <1>6, <2>1, <2>2
<1> HIDE DEF t, more
<1>12. ASSUME NEW i \in DOMAIN t, IsFee(t[i]) PROVE Payable(k, t[i], more)
  <2>1. i \in DOMAIN tx /\ t[i] = tx[i]
    BY <1>11, <1>12
  <2>2. FrameOK(emitted, tx[i]) /\ IsFee(tx[i]) /\ Payable(l, tx[i], due)
    BY <1>2, <1>8, <1>12, <2>1 DEF StackOK, StateOK, due
  <2>3. \A a \in Assets : Owes(k, a) + more.all[a] <= Owes(l, a) + due.all[a]
    <3> SUFFICES ASSUME NEW a \in Assets
                 PROVE  Owes(k, a) + more.all[a] <= Owes(l, a) + due.all[a]
      OBVIOUS
    <3>1. Amounts(l.sentMessageInfo)
      BY <1>3, FiniteFees DEF Good
    <3>2. Owes(l, a) \in Nat /\ due.all[a] \in Nat
      BY <1>3, <3>1, OwesType DEF Good, IsDue
    <3>3. Owes(k, a) + more.all[a] = Owes(l, a) + due.all[a]
      BY <1>7
    <3> QED BY <3>2, <3>3
  <2>4. Payable(k, tx[i], more)
    BY <1>3, <1>7, <2>2, <2>3, PayableKept
  <2> QED BY <2>1, <2>4
<1>13. StateOK(emitted, c, k, {}, t)
  BY <1>7, <1>10, <1>12 DEF StateOK
<1> QED BY <1>1, <1>8, <1>9, <1>13, SettleSound

\* A fee token's transfer returns: the reward is paid.
LEMMA RedeemReturnsSound ==
  ASSUME Inv, NEW c \in Chains, RedeemReturns(c)
  PROVE  Inv'
<1> DEFINE f == Top
           asset == f.fee.asset
           reward == f.fee.amount
           relayer == f.relayer
           l == ledger[c]
           k == [l EXCEPT !.balance[asset] = @ - reward, !.redeemed[relayer][asset] = @ + reward]
           due == DueOf(Caller, c)
           more == More(due, relayer, asset, reward)
<1>1. tx # <<>> /\ f.chain = c /\ f.op = "redeem" /\ Settle(c, k, Caller)
  BY DEF RedeemReturns
<1>2. /\ StackOK(emitted, tx) /\ StackOK(emitted, Caller)
      /\ Caller = Under(tx) /\ f = tx[Len(tx)]
      /\ FrameOK(emitted, f)
      /\ StateOK(emitted, c, f.saved, OpenIDs(f), Caller)
      /\ \A i \in DOMAIN tx : tx[i].chain = c
      /\ \A i \in DOMAIN Caller : Caller[i].chain = c
  BY <1>1, TopSound
<1>3. StateOK(emitted, c, l, {}, tx)
  BY DEF Inv
<1> HIDE DEF f, l
<1>4. relayer \in Relayers /\ asset \in Assets /\ reward \in Nat
  BY <1>1, <1>2 DEF FrameOK
<1>5. DueOf(tx, c) = more /\ SendingOf(tx, c) = SendingOf(Caller, c)
  <2>1. DueOf(tx, c) = more
    BY <1>1, <1>2, PopDue
  <2>2. SendingOf(tx, c)
          = SendingOf(Caller, c) \cup (IF f.op = "send" /\ f.chain = c THEN {f.msg} ELSE {})
    <3>1. IsStack(tx) /\ tx # <<>> /\ Caller = Under(tx)
      BY <1>1, <1>2 DEF StackOK
    <3>2. SendingOf(tx, c)
            = SendingOf(Caller, c) \cup (IF tx[Len(tx)].op = "send" /\ tx[Len(tx)].chain = c
                                        THEN {tx[Len(tx)].msg} ELSE {})
      BY <3>1, PopSending
    <3> QED BY <1>2, <3>2
  <2>3. f.op # "send"
    BY <1>1
  <2> QED BY <2>1, <2>2, <2>3
<1>6. IsDue(due)
  BY <1>2 DEF StateOK, Good
<1> HIDE DEF asset, reward, relayer, due
<1>7. Good(emitted, c, l, {}, SendingOf(Caller, c), more)
  BY <1>3, <1>5 DEF StateOK
<1>8. /\ Good(emitted, c, k, {}, SendingOf(Caller, c), due)
      /\ \A a \in Assets : /\ Owes(k, a) = Owes(l, a) /\ Owes(l, a) \in Nat
                            /\ due.all[a] <= more.all[a]
      /\ k.sentMessageInfo = l.sentMessageInfo
  <2>1. k = Paid(l, relayer, asset, reward)
    BY DEF Paid
  <2>2. more = More(due, relayer, asset, reward)
    OBVIOUS
  <2> HIDE DEF k, more
  <2>3. /\ c \in Chains /\ IsDue(due)
        /\ relayer \in Relayers /\ asset \in Assets /\ reward \in Nat
        /\ Good(emitted, c, l, {}, SendingOf(Caller, c), more)
    BY <1>4, <1>6, <1>7
  <2>4. Good(emitted, c, k, {}, SendingOf(Caller, c), due) /\ PaysLess(l, k, due, more)
    BY <2>1, <2>2, <2>3, PaidSound
  <2> QED BY <2>4 DEF PaysLess
<1>9. \A i \in DOMAIN Caller : i \in DOMAIN tx /\ Caller[i] = tx[i]
  BY <1>1, <1>2, PopSound
<1> HIDE DEF k, more
<1>10. ASSUME NEW i \in DOMAIN Caller, IsFee(Caller[i]) PROVE Payable(k, Caller[i], due)
  <2>1. FrameOK(emitted, Caller[i]) /\ Payable(l, Caller[i], more)
    <3>1. Caller[i] = tx[i] /\ i \in DOMAIN tx /\ tx[i].chain = c /\ FrameOK(emitted, tx[i])
      BY <1>2, <1>9 DEF StackOK
    <3>2. Payable(l, tx[i], DueOf(tx, c))
      BY <1>3, <1>10, <3>1 DEF StateOK
    <3> QED BY <1>5, <3>1, <3>2
  <2>2. \A a \in Assets : Owes(k, a) + due.all[a] <= Owes(l, a) + more.all[a]
    <3> SUFFICES ASSUME NEW a \in Assets
                 PROVE  Owes(k, a) + due.all[a] <= Owes(l, a) + more.all[a]
      OBVIOUS
    <3>1. due.all[a] \in Nat /\ more.all[a] \in Nat
      BY <1>7, <1>8 DEF Good, IsDue
    <3>2. Owes(k, a) = Owes(l, a) /\ Owes(l, a) \in Nat /\ due.all[a] <= more.all[a]
      BY <1>8
    <3> QED BY <3>1, <3>2
  <2> QED BY <1>7, <1>8, <1>10, <2>1, <2>2, PayableKept
<1>11. StateOK(emitted, c, k, {}, Caller)
  BY <1>8, <1>10 DEF StateOK, due
<1> QED BY <1>1, <1>2, <1>11, SettleSound

-----------------------------------------------------------------------------
\* A chain that has stored nothing is sound.
LEMMA EmptySound ==
  ASSUME NEW c \in Chains
  PROVE  Good(ForeignMessages, c, EmptyLedger, {}, {}, NoDue)
<1> DEFINE l == EmptyLedger
<1>1. /\ l.messageNonce = 0 /\ l.receiptQueues = [s \in Chains |-> <<>>]
      /\ l.sentMessageInfo = NoEntries /\ l.receivedFailedMessageHashes = NoEntries
      /\ l.received = NoEntries /\ l.executed = NoEntries /\ l.receiptsReceived = NoEntries
      /\ l.relayerRewardAmounts = [r \in RewardAddresses |-> [a \in Assets |-> 0]]
      /\ l.balance = [a \in Assets |-> 0]
      /\ l.redeemed = [r \in Relayers |-> [a \in Assets |-> 0]]
      /\ l.outbox = {}
  BY DEF EmptyLedger
<1>2. l = [messageNonce |-> l.messageNonce, receiptQueues |-> l.receiptQueues,
           sentMessageInfo |-> l.sentMessageInfo,
           receivedFailedMessageHashes |-> l.receivedFailedMessageHashes,
           received |-> l.received, relayerRewardAmounts |-> l.relayerRewardAmounts,
           balance |-> l.balance, redeemed |-> l.redeemed, executed |-> l.executed,
           receiptsReceived |-> l.receiptsReceived, outbox |-> l.outbox]
  BY DEF EmptyLedger
<1> HIDE DEF l
<1>3. DOMAIN NoEntries = {} /\ \A S : NoEntries \in [DOMAIN NoEntries -> S]
  BY DEF NoEntries
<1>4. IsLedger(l)
  <2>1. <<>> \in Receipts
    BY DEF Receipts
  <2>2. l.receiptQueues \in [Chains -> Receipts]
    BY <1>1, <2>1
  <2>3. /\ l.relayerRewardAmounts \in [RewardAddresses -> [Assets -> Nat]]
        /\ l.balance \in [Assets -> Nat]
        /\ l.redeemed \in [Relayers -> [Assets -> Nat]]
    BY <1>1
  <2>4. /\ l.sentMessageInfo \in [DOMAIN l.sentMessageInfo ->
                                   [msg : Messages, asset : Assets \cup {NoAsset}, amount : Nat]]
        /\ l.receivedFailedMessageHashes \in [DOMAIN l.receivedFailedMessageHashes -> Messages]
        /\ l.received \in [DOMAIN l.received -> RewardAddresses]
        /\ l.executed \in [DOMAIN l.executed -> Nat]
        /\ l.receiptsReceived \in [DOMAIN l.receiptsReceived ->
              [relayer : RewardAddresses, asset : Assets \cup {NoAsset}, amount : Nat]]
    BY <1>1, <1>3
  <2>5. l.messageNonce \in Nat /\ l.outbox \subseteq Messages
    BY <1>1
  <2> QED BY <1>2, <2>2, <2>3, <2>4, <2>5 DEF IsLedger
<1>5. \A s, m : Warp(s, m) \notin ForeignMessages
  BY ForeignAssumption DEF Warp
<1>6. \A m : ~Logged(ForeignMessages, c, l, m)
  BY <1>1, <1>5 DEF Logged
<1>7. Numbered(ForeignMessages, c, l, {})
  <2>1. IsFiniteSet({})
    BY FS_EmptySet
  <2> QED BY <1>1, <1>3, <1>6, <2>1 DEF Numbered
<1>8. \A S \in SUBSET {} : Fees(NoEntries, S) = 0
  BY TotalEmpty DEF Fees
<1>9. Covered(l, NoDue)
  <2> SUFFICES ASSUME NEW a \in Assets PROVE l.balance[a] >= Owes(l, a) + NoDue.all[a]
    BY DEF Covered
  <2>4. NoDue.all[a] = 0
    BY DEF NoDue
  <2>1. FeesHeld(l, a) = 0
    <3>1. {id \in DOMAIN NoEntries : NoEntries[id].asset = a} = {}
      BY <1>3
    <3>2. Fees(NoEntries, {}) = 0
      BY <1>8
    <3> QED BY <1>1, <3>1, <3>2 DEF FeesHeld
  <2>2. RewardsHeld(l, a) = 0
    <3> DEFINE rewards == [r \in RewardAddresses |-> l.relayerRewardAmounts[r][a]]
    <3>1. \A r \in RewardAddresses : rewards[r] = 0
      BY <1>1
    <3> HIDE DEF rewards
    <3>2. Total(rewards, RewardAddresses) = 0
      BY <3>1, TotalZero
    <3> QED BY <3>2 DEF RewardsHeld, rewards
  <2>3. l.balance[a] = 0
    BY <1>1
  <2> QED BY <2>1, <2>2, <2>3, <2>4 DEF Owes
<1>10. PaidOut(l, NoDue)
  <2> SUFFICES ASSUME NEW r \in Relayers, NEW a \in Assets
      PROVE  l.relayerRewardAmounts[r][a] + l.redeemed[r][a] + NoDue.by[r][a]
               = Fees(l.receiptsReceived, {id \in DOMAIN l.receiptsReceived :
                                             /\ l.receiptsReceived[id].relayer = r
                                             /\ l.receiptsReceived[id].asset = a})
    BY DEF PaidOut
  <2>5. NoDue.by[r][a] = 0
    BY DEF NoDue
  <2>1. {id \in DOMAIN NoEntries : NoEntries[id].relayer = r /\ NoEntries[id].asset = a} = {}
    BY <1>3
  <2>2. Fees(NoEntries, {}) = 0
    BY <1>8
  <2>3. l.relayerRewardAmounts[r][a] = 0 /\ l.redeemed[r][a] = 0
    BY <1>1 DEF RewardAddresses
  <2>4. Fees(l.receiptsReceived, {id \in DOMAIN l.receiptsReceived :
                                    /\ l.receiptsReceived[id].relayer = r
                                    /\ l.receiptsReceived[id].asset = a}) = 0
    <3>1. l.receiptsReceived = NoEntries
      BY <1>1
    <3> QED BY <2>1, <2>2, <3>1
  <2> QED BY <2>3, <2>4, <2>5
<1>13. IsDue(NoDue)
  BY DEF NoDue, IsDue
<1>11. Recorded(ForeignMessages, c, l, {})
  BY <1>1, <1>6 DEF Recorded, Carries
<1>12. /\ FromLog(ForeignMessages, c, l) /\ OneOutcome(ForeignMessages, c, l, {})
       /\ Kept(ForeignMessages, c, l, {}) /\ Receipted(ForeignMessages, c, l)
  BY <1>1, <1>3, <1>5 DEF FromLog, OneOutcome, Kept, Receipted
<1> QED BY <1>4, <1>7, <1>9, <1>10, <1>11, <1>12, <1>13 DEF Good, l

\* The initial states satisfy the invariant.
LEMMA InitSound == Init => Inv
<1> SUFFICES ASSUME Init PROVE Inv
  OBVIOUS
<1>1. /\ ledger = [c \in Chains |-> EmptyLedger] /\ tx = <<>>
      /\ emitted = ForeignMessages /\ signable = ForeignMessages
  BY DEF Init
<1>2. LogSound(emitted) /\ signable \subseteq emitted /\ DOMAIN ledger = Chains
  BY <1>1, ForeignAssumption DEF LogSound
<1>3. StackOK(emitted, tx)
  BY <1>1 DEF StackOK, IsStack
<1>4. ASSUME NEW c \in Chains PROVE StateOK(emitted, c, ledger[c], {}, tx)
  <2>1. SendingOf(tx, c) = {}
    BY <1>1 DEF SendingOf
  <2>2. Good(emitted, c, ledger[c], {}, {}, DueOf(tx, c))
    <3>1. DueOf(tx, c) = NoDue
      BY <1>1, NothingDue
    <3> QED BY <1>1, <3>1, EmptySound
  <2>3. Good(emitted, c, ledger[c], {}, SendingOf(tx, c), DueOf(tx, c))
    BY <2>1, <2>2
  <2> QED BY <1>1, <2>3 DEF StateOK
<1> QED BY <1>2, <1>3, <1>4 DEF Inv

\* Every step keeps the invariant.
LEMMA NextSound == Inv /\ [Next]_vars => Inv'
<1> SUFFICES ASSUME Inv, [Next]_vars PROVE Inv'
  OBVIOUS
<1>1. ASSUME NEW c \in Chains, Sends(c) PROVE Inv'
  <2>1. PICK d \in Chains, payload \in BOOLEAN, allowed \in AllowedRelayerLists, fee \in FeeInfos[c] :
          SendCrossChainMessage(c, d, payload, allowed, fee)
    BY <1>1 DEF Sends
  <2>2. allowed \in SUBSET Relayers
    BY BoundAssumption
  <2> QED BY <2>1, <2>2, SendCrossChainSound
<1>2. ASSUME NEW c \in Chains, SendsReceipts(c) PROVE Inv'
  <2>1. PICK s \in Chains, n \in 0 .. MaxSpecified, allowed \in AllowedRelayerLists, fee \in FeeInfos[c] :
          \E ids \in [1 .. n -> DOMAIN ledger[c].received] :
            SendSpecifiedReceipts(c, s, ids, allowed, fee)
    BY <1>2 DEF SendsReceipts
  <2>2. PICK ids \in [1 .. n -> DOMAIN ledger[c].received] :
          SendSpecifiedReceipts(c, s, ids, allowed, fee)
    BY <2>1
  <2>3. allowed \in SUBSET Relayers /\ n \in Nat
    BY BoundAssumption
  <2> QED BY <2>2, <2>3, SendSpecifiedSound
<1>3. ASSUME NEW c \in Chains, NEW id, RetrySendCrossChainMessage(c, id) PROVE Inv'
  BY <1>3, RetrySendSound
<1>4. ASSUME NEW c \in Chains, NEW id, NEW fee \in FeeInfos[c], AddFeeAmount(c, id, fee) PROVE Inv'
  BY <1>4, AddFeeSound
<1>5. ASSUME NEW c \in Chains, NEW s, NEW n, Receives(c, s, n) PROVE Inv'
  BY <1>5, ReceiveSound DEF Receives
<1>6. ASSUME NEW c \in Chains, NEW id, RetryMessageExecution(c, id) PROVE Inv'
  BY <1>6, RetryExecutionSound
<1>7. ASSUME NEW c \in Chains, NEW r \in Relayers, NEW a \in Assets, RedeemRelayerRewards(c, r, a)
      PROVE  Inv'
  BY <1>7, RedeemRewardsSound
<1>8. ASSUME NEW c \in Chains, CallReturns(c) PROVE Inv'
  BY <1>8, TransferReturnsSound, RedeemReturnsSound, TransferRevertsSound, ExecutionSucceedsSound,
     ExecutionFailsSound DEF CallReturns
<1>9. ASSUME NEW w, ValidatorChurn(w) PROVE Inv'
  BY <1>9 DEF ValidatorChurn, Inv
<1>10. CASE UNCHANGED vars
  BY <1>10 DEF vars, Inv
<1>11. CASE Next
  <2>1. \/ \E c \in Chains : Sends(c) \/ SendsReceipts(c) \/ CallReturns(c)
        \/ \E c \in Chains : \E id : RetrySendCrossChainMessage(c, id)
        \/ \E c \in Chains : \E id : \E fee \in FeeInfos[c] : AddFeeAmount(c, id, fee)
        \/ \E c \in Chains : \E s, n : Receives(c, s, n)
        \/ \E c \in Chains : \E id : RetryMessageExecution(c, id)
        \/ \E c \in Chains : \E r \in Relayers, a \in Assets : RedeemRelayerRewards(c, r, a)
        \/ \E w : ValidatorChurn(w)
    BY <1>11 DEF Next
  <2> QED BY <1>1, <1>2, <1>3, <1>4, <1>5, <1>6, <1>7, <1>8, <1>9, <2>1
<1> QED BY <1>10, <1>11

(***************************************************************************)
(* The invariant holds in every reachable state of every instance.         *)
(***************************************************************************)
THEOREM Invariance == Spec => []Inv
<1> QED BY InitSound, NextSound, PTL DEF Spec

\* A teleporter message of the log is the message of a chain.
LEMMA LoggedWarp ==
  ASSUME Inv, NEW w \in emitted, w.teleporter
  PROVE  \E s \in Chains, m \in Messages :
           /\ w = Warp(s, m) /\ w.source = s /\ w.msg = m /\ m.destination \in Chains
           /\ Warp(s, m) \in emitted
<1>1. PICK s \in Chains, m \in Messages : w = Warp(s, m)
  BY DEF Inv, LogSound
<1>2. w.source = s /\ w.msg = m /\ m.destination \in Chains
  BY <1>1 DEF Warp, Messages
<1> QED BY <1>1, <1>2

\* What the invariant says of the storage of a chain.
LEMMA LedgerSound ==
  ASSUME Inv, NEW c \in Chains
  PROVE  Good(emitted, c, ledger[c], {}, SendingOf(tx, c), DueOf(tx, c))
BY DEF Inv, StateOK

(***************************************************************************)
(* Every function of the contract keeps the types of what it stores, in    *)
(* the storage that a revert restores too.                                 *)
(***************************************************************************)
THEOREM TypeCorrect == Spec => []TypeOK
<1>1. ASSUME Inv PROVE TypeOK
  <2>1. \A c \in Chains : IsLedger(ledger[c])
    BY <1>1, LedgerSound DEF Good
  <2>2. \A i \in DOMAIN tx : tx[i].chain \in Chains /\ IsLedger(tx[i].saved)
    BY <1>1 DEF Inv, StackOK, FrameOK, StateOK, Good
  <2> QED BY <1>1, <2>1, <2>2 DEF Inv, TypeOK
<1> QED BY <1>1, Invariance, PTL

(***************************************************************************)
(* A messenger can always pay the rewards that it owes and the fees of the *)
(* messages that wait for their receipts, whichever of its functions a fee *)
(* token or a destination contract calls in between.                       *)
(***************************************************************************)
THEOREM Solvency == Spec => []Solvent
<1>1. ASSUME Inv PROVE Solvent
  BY <1>1, LedgerSound DEF Solvent, Good, Covered, Owes, DueOf
<1> QED BY <1>1, Invariance, PTL

(***************************************************************************)
(* A received message with a payload is executed once or can be retried,   *)
(* never both, however the calls of destination contracts nest and fail.   *)
(***************************************************************************)
THEOREM OutcomeOnce == Spec => []ExactlyOneOutcome
<1>1. ASSUME Inv PROVE ExactlyOneOutcome
  <2> SUFFICES ASSUME NEW w \in emitted, w.teleporter
      PROVE  LET id == IDOf(w.source, w.msg)
                 l == ledger[w.msg.destination]
                 failures == IF id \in DOMAIN l.receivedFailedMessageHashes THEN 1 ELSE 0
             IN Runs(l, id) + failures = IF w.msg.payload /\ id \in DOMAIN l.received THEN 1 ELSE 0
    BY DEF ExactlyOneOutcome
  <2>1. PICK s \in Chains, m \in Messages :
          /\ w = Warp(s, m) /\ w.source = s /\ w.msg = m /\ m.destination \in Chains
          /\ Warp(s, m) \in emitted
    BY <1>1, LoggedWarp
  <2>2. OneOutcome(emitted, m.destination, ledger[m.destination], {})
    BY <1>1, <2>1, LedgerSound DEF Good
  <2>3. Runs(ledger[m.destination], IDOf(s, m)) + Failures(ledger[m.destination], IDOf(s, m))
          = IF m.payload /\ IDOf(s, m) \in DOMAIN ledger[m.destination].received \ {} THEN 1 ELSE 0
    BY <2>1, <2>2 DEF OneOutcome
  <2> QED BY <2>1, <2>3 DEF Failures
<1> QED BY <1>1, Invariance, PTL

(***************************************************************************)
(* A message stops being retryable only when it was received, and the      *)
(* relayer that its destination recorded is the one that is paid.          *)
(***************************************************************************)
THEOREM Acknowledgment == Spec => []AcknowledgedOnlyIfReceived
<1>1. ASSUME Inv PROVE AcknowledgedOnlyIfReceived
  <2> SUFFICES ASSUME NEW w \in emitted, w.teleporter
      PROVE  LET id == IDOf(w.source, w.msg)
                 source == ledger[w.source]
                 destination == ledger[w.msg.destination]
             IN \/ id \in DOMAIN source.sentMessageInfo
                \/ /\ id \in DOMAIN destination.received
                   /\ id \in DOMAIN source.receiptsReceived
                   /\ source.receiptsReceived[id].relayer = destination.received[id]
    BY DEF AcknowledgedOnlyIfReceived
  <2>1. PICK s \in Chains, m \in Messages :
          /\ w = Warp(s, m) /\ w.source = s /\ w.msg = m /\ m.destination \in Chains
          /\ Warp(s, m) \in emitted
    BY <1>1, LoggedWarp
  <2> DEFINE id == IDOf(s, m)
             d == m.destination
  <2>2. /\ Numbered(emitted, s, ledger[s], SendingOf(tx, s))
        /\ Receipted(emitted, s, ledger[s])
        /\ Recorded(emitted, d, ledger[d], SendingOf(tx, d))
    BY <1>1, <2>1, LedgerSound DEF Good
  <2>3. id[1] = s /\ id[2] = d /\ id[3] = m.nonce /\ id = MessageID(s, d, id[3])
    BY DEF IDOf, MessageID
  <2>4. id \in DOMAIN ledger[s].sentMessageInfo \/ id \in DOMAIN ledger[s].receiptsReceived
    BY <2>1, <2>2 DEF Numbered, Logged
  <2> HIDE DEF id, d
  <2>5. ASSUME id \in DOMAIN ledger[s].receiptsReceived
        PROVE  /\ id \in DOMAIN ledger[d].received
               /\ ledger[s].receiptsReceived[id].relayer = ledger[d].received[id]
    <3>1. PICK n \in Messages :
            /\ Warp(id[2], n) \in emitted /\ n.destination = s
            /\ \E i \in DOMAIN n.receipts :
                 /\ n.receipts[i].nonce = id[3]
                 /\ n.receipts[i].relayer = ledger[s].receiptsReceived[id].relayer
      BY <2>2, <2>5 DEF Receipted
    <3>2. PICK i \in DOMAIN n.receipts :
            /\ n.receipts[i].nonce = id[3]
            /\ n.receipts[i].relayer = ledger[s].receiptsReceived[id].relayer
      BY <3>1
    <3>3. Carries(emitted, d, ledger[d], SendingOf(tx, d), n)
      BY <2>3, <3>1 DEF Carries, Logged
    <3>4. Records(ledger[d], d, s, n.receipts[i])
      BY <2>2, <3>1, <3>3 DEF Recorded
    <3>5. MessageID(s, d, n.receipts[i].nonce) = id
      BY <2>3, <3>2
    <3> QED BY <3>2, <3>4, <3>5 DEF Records
  <2> QED BY <2>1, <2>4, <2>5 DEF id, d
<1> QED BY <1>1, Invariance, PTL

(***************************************************************************)
(* What a relayer was paid and may still redeem is what the receipts that  *)
(* name it were worth.                                                     *)
(***************************************************************************)
THEOREM RewardsExact == Spec => []RewardsMatchReceipts
<1>1. ASSUME Inv PROVE RewardsMatchReceipts
  BY <1>1, LedgerSound DEF RewardsMatchReceipts, Good, PaidOut, DueOf
<1> QED BY <1>1, Invariance, PTL

(***************************************************************************)
(* The receipt of a received message waits, or is in a message that was    *)
(* sent or is being sent: a fee transfer that fails puts it back.          *)
(***************************************************************************)
THEOREM ReceiptsKept == Spec => []NoReceiptLost
<1>1. ASSUME Inv PROVE NoReceiptLost
  <2> SUFFICES ASSUME NEW w \in emitted, w.teleporter,
                      IDOf(w.source, w.msg) \in DOMAIN ledger[w.msg.destination].received
      PROVE  LET d == w.msg.destination
                 id == IDOf(w.source, w.msg)
                 l == ledger[d]
                 sending == {tx[i].msg : i \in {j \in DOMAIN tx : tx[j].op = "send"
                                                                  /\ tx[j].chain = d}}
                 sent == {v.msg : v \in {u \in emitted : u.teleporter /\ u.source = d}}
                 carried == {m \in sent \cup l.outbox \cup sending : m.destination = w.source}
                 receipt == [nonce |-> w.msg.nonce, relayer |-> l.received[id]]
             IN \/ receipt \in Range(l.receiptQueues[w.source])
                \/ \E m \in carried : receipt \in Range(m.receipts)
    BY DEF NoReceiptLost
  <2> DEFINE s == w.source
             d == w.msg.destination
             id == IDOf(s, w.msg)
             l == ledger[d]
             sending == {tx[i].msg : i \in {j \in DOMAIN tx : tx[j].op = "send" /\ tx[j].chain = d}}
             sent == {v.msg : v \in {u \in emitted : u.teleporter /\ u.source = d}}
             carried == {m \in sent \cup l.outbox \cup sending : m.destination = s}
             receipt == [nonce |-> w.msg.nonce, relayer |-> l.received[id]]
  <2>1. d \in Chains
    BY <1>1, LoggedWarp
  <2>2. Kept(emitted, d, l, SendingOf(tx, d))
    BY <1>1, <2>1, LedgerSound DEF Good
  <2>3. id[1] = s /\ ReceiptFor(l, id) = receipt /\ id \in DOMAIN l.received
    BY DEF IDOf, MessageID, ReceiptFor
  <2>4. SendingOf(tx, d) = sending
    BY DEF SendingOf
  <2>5. \A m : Warp(d, m) \in emitted => m \in sent
    <3> SUFFICES ASSUME NEW m, Warp(d, m) \in emitted PROVE m \in sent
      OBVIOUS
    <3>1. Warp(d, m).teleporter /\ Warp(d, m).source = d /\ Warp(d, m).msg = m
      BY DEF Warp
    <3> QED BY <3>1
  <2> HIDE DEF s, d, id, l, sending, sent, receipt
  <2>6. \A m : Carries(emitted, d, l, sending, m) => m \in sent \cup l.outbox \cup sending
    BY <2>5 DEF Carries, Logged
  <2>7. \/ \E i \in DOMAIN l.receiptQueues[s] : l.receiptQueues[s][i] = receipt
        \/ \E m \in Messages : /\ Carries(emitted, d, l, sending, m)
                               /\ m.destination = s
                               /\ \E i \in DOMAIN m.receipts : m.receipts[i] = receipt
    BY <2>2, <2>3, <2>4 DEF Kept
  <2>8. receipt \in Range(l.receiptQueues[s]) \/ \E m \in carried : receipt \in Range(m.receipts)
    BY <2>6, <2>7 DEF Range
  <2> QED BY <2>8 DEF s, d, id, l, sending, sent, receipt
<1> QED BY <1>1, Invariance, PTL

(***************************************************************************)
(* A fee is added to a message that is still waiting for its receipt, also *)
(* when the fee token calls back while it transfers the fee.               *)
(***************************************************************************)
THEOREM FeeTarget == Spec => []FeeTargetPending
<1>1. ASSUME Inv PROVE FeeTargetPending
  <2> SUFFICES ASSUME NEW i \in DOMAIN tx, tx[i].op = "addFee"
      PROVE  tx[i].id \in DOMAIN ledger[tx[i].chain].sentMessageInfo
    BY DEF FeeTargetPending
  <2>1. tx[i].chain \in Chains /\ IsFee(tx[i])
    BY <1>1 DEF Inv, StackOK, FrameOK, IsFee
  <2>2. Payable(ledger[tx[i].chain], tx[i], DueOf(tx, tx[i].chain))
    BY <1>1, <2>1 DEF Inv, StateOK
  <2> QED BY <2>2 DEF Payable
<1> QED BY <1>1, Invariance, PTL

-----------------------------------------------------------------------------
\* The messengers as a channel (MessageChannel).

\* A storage that follows base in a transaction: nothing is received or executed less, and what is
\* received more has one of the IDs.
Advances(ids, base, l) ==
  /\ DOMAIN base.received \subseteq DOMAIN l.received
  /\ DOMAIN l.received \subseteq DOMAIN base.received \cup ids
  /\ \A id : Runs(base, id) # 0 => Runs(l, id) # 0

SameOutcomes(base, l) ==
  /\ l.executed = base.executed
  /\ l.receivedFailedMessageHashes = base.receivedFailedMessageHashes

\* How a step of chain c leaves its storage: a call without an external call, one that makes an
\* external call, and the return of one, which may revert.
Direct(c, l, stack) == stack = tx /\ Advances(SentIDs, ledger[c], l)

Opens(c, l, stack) ==
  \E f : /\ stack = Append(tx, f)
         /\ f.chain = c
         /\ SameOutcomes(ledger[c], f.saved)
         /\ Advances(SentIDs, ledger[c], f.saved)
         /\ Advances(SentIDs, f.saved, l)

Closes(c, l, stack) ==
  /\ tx # <<>> /\ stack = Caller
  /\ Advances(SentIDs, ledger[c], l) \/ Advances(SentIDs, Top.saved, l)

CallStep(c, l, stack) ==
  /\ Settle(c, l, stack)
  /\ \A i \in DOMAIN tx : tx[i].chain = c
  /\ Direct(c, l, stack) \/ Opens(c, l, stack) \/ Closes(c, l, stack)

IsCallStep == \E c \in Chains : \E l, stack : CallStep(c, l, stack)

LEMMA AdvancesSame ==
  ASSUME NEW ids, NEW base, NEW l, l.received = base.received, l.executed = base.executed
  PROVE  Advances(ids, base, l)
BY DEF Advances, Runs

LEMMA AdvancesOn ==
  ASSUME NEW ids, NEW a, NEW b, NEW l, Advances(ids, a, b), Advances(ids, b, l)
  PROVE  Advances(ids, a, l)
BY DEF Advances

\* A message is sent: the outcomes of others are not touched.
LEMMA SendAdvances ==
  ASSUME Inv, NEW c \in Chains, CanCall(c), NEW queues,
         NEW l, l = [ledger[c] EXCEPT !.receiptQueues = queues],
         NEW destination, NEW payload, NEW allowed, NEW fee, NEW receipts,
         SendTeleporterMessage(c, l, destination, payload, allowed, fee, receipts)
  PROVE  IsCallStep
<1> DEFINE numbered == [l EXCEPT !.messageNonce = @ + 1]
<1>1. IsLedger(ledger[c])
  BY DEF Inv, StateOK, Good
<1>2. \A i \in DOMAIN tx : tx[i].chain = c
  BY CallChain DEF CanCall
<1>3. /\ numbered.received = ledger[c].received
      /\ numbered.executed = ledger[c].executed
  BY <1>1 DEF IsLedger
<1>4. ASSUME NEW info, NEW outbox,
             NEW k, k = [numbered EXCEPT !.sentMessageInfo = info, !.outbox = outbox],
             Settle(c, k, tx)
      PROVE  IsCallStep
  <2>1. k.received = ledger[c].received /\ k.executed = ledger[c].executed
    BY <1>1, <1>4 DEF IsLedger
  <2>2. Direct(c, k, tx)
    BY <2>1, AdvancesSame DEF Direct
  <2> QED BY <1>2, <1>4, <2>2 DEF IsCallStep, CallStep
<1>5. ASSUME NEW f, f.chain = c, f.saved = ledger[c], Settle(c, numbered, Append(tx, f))
      PROVE  IsCallStep
  <2>1. Advances(SentIDs, ledger[c], numbered) /\ Advances(SentIDs, ledger[c], ledger[c])
    BY <1>3, AdvancesSame
  <2> HIDE DEF numbered
  <2>2. Opens(c, numbered, Append(tx, f))
    BY <1>5, <2>1 DEF Opens, SameOutcomes
  <2> QED BY <1>2, <1>5, <2>2 DEF IsCallStep, CallStep
<1> DEFINE msg == [nonce |-> l.messageNonce + 1, destination |-> destination, payload |-> payload,
                   allowed |-> allowed, receipts |-> receipts]
<1>6. IF fee.amount = 0
      THEN Settle(c, StoreSent(numbered, c, msg, fee.asset, 0), tx)
      ELSE Settle(c, numbered,
                  Append(tx, [op |-> "send", chain |-> c, saved |-> ledger[c], msg |-> msg,
                              id |-> IDOf(c, msg), fee |-> fee, before |-> l.balance[fee.asset]]))
  BY DEF SendTeleporterMessage
<1> HIDE DEF msg, numbered
<1>7. CASE fee.amount = 0
  BY <1>4, <1>6, <1>7 DEF StoreSent
<1>8. CASE fee.amount # 0
  <2> DEFINE f == [op |-> "send", chain |-> c, saved |-> ledger[c], msg |-> msg,
                   id |-> IDOf(c, msg), fee |-> fee, before |-> l.balance[fee.asset]]
  <2>1. f.chain = c /\ f.saved = ledger[c] /\ Settle(c, numbered, Append(tx, f))
    BY <1>6, <1>8
  <2> HIDE DEF f
  <2> QED BY <1>5, <2>1
<1> QED BY <1>7, <1>8

\* A call that changes neither what was received nor what was executed.
LEMMA QuietAdvances ==
  ASSUME Inv, NEW c \in Chains, CanCall(c), NEW l, Settle(c, l, tx),
         l.received = ledger[c].received, l.executed = ledger[c].executed
  PROVE  IsCallStep
<1>1. \A i \in DOMAIN tx : tx[i].chain = c
  BY CallChain DEF CanCall
<1>2. Direct(c, l, tx)
  BY AdvancesSame DEF Direct
<1> QED BY <1>1, <1>2 DEF IsCallStep, CallStep

\* An external call is made: what is received or failed before it is a step of its own.
LEMMA CallAdvances ==
  ASSUME Inv, NEW c \in Chains, CanCall(c), NEW f, NEW l, Settle(c, l, Append(tx, f)),
         f.chain = c, SameOutcomes(ledger[c], f.saved),
         Advances(SentIDs, ledger[c], f.saved), Advances(SentIDs, f.saved, l)
  PROVE  IsCallStep
<1>1. \A i \in DOMAIN tx : tx[i].chain = c
  BY CallChain DEF CanCall
<1>2. Opens(c, l, Append(tx, f))
  BY DEF Opens
<1> QED BY <1>1, <1>2 DEF IsCallStep, CallStep

\* An external call returns.
LEMMA ReturnAdvances ==
  ASSUME Inv, NEW c \in Chains, tx # <<>>, Top.chain = c, NEW l, Settle(c, l, Caller),
         Advances(SentIDs, ledger[c], l) \/ Advances(SentIDs, Top.saved, l)
  PROVE  IsCallStep
<1>1. \A i \in DOMAIN tx : tx[i].chain = c
  BY CallChain
<1>2. Closes(c, l, Caller)
  BY DEF Closes
<1> QED BY <1>1, <1>2 DEF IsCallStep, CallStep

\* One more execution.
LEMMA ExecutedAdvances ==
  ASSUME NEW ids, NEW l, IsLedger(l), NEW id
  PROVE  Advances(ids, l, Executed(l, id))
<1> DEFINE executed == Put(l.executed, id, Runs(l, id) + 1)
           k == Executed(l, id)
<1>1. Runs(l, id) \in Nat
  BY DEF IsLedger, Runs
<1>2. k.received = l.received /\ k.executed = executed
  <2>1. k = [l EXCEPT !.executed = executed]
    BY DEF Executed
  <2> HIDE DEF executed, k
  <2> QED BY <2>1 DEF IsLedger
<1>3. executed[id] # 0 /\ \A x \in DOMAIN l.executed : x # id => executed[x] = l.executed[x]
  BY <1>1 DEF Put
<1>4. DOMAIN executed = DOMAIN l.executed \cup {id}
  BY DEF Put
<1> HIDE DEF executed, k
<1>5. \A x : Runs(l, x) # 0 => Runs(k, x) # 0
  BY <1>2, <1>3, <1>4 DEF Runs
<1> QED BY <1>2, <1>5 DEF Advances, k

\* What receipts and the delivery of a message do to what was received and to outcomes.
LEMMA MarkedFields ==
  ASSUME NEW c, NEW l, IsLedger(l), NEW source, NEW receipts
  PROVE  LET k == MarkReceipts(l, c, source, receipts)
         IN SameOutcomes(l, k) /\ k.received = l.received
BY DEF MarkReceipts, IsLedger, SameOutcomes

LEMMA ReceivedFields ==
  ASSUME NEW l, IsLedger(l), NEW source, NEW msg, NEW id, NEW deliverer, NEW rewardAddress
  PROVE  LET k == MarkReceived(l, source, msg, id, deliverer, rewardAddress)
         IN SameOutcomes(l, k) /\ k.received = Put(l.received, id, rewardAddress)
BY DEF MarkReceived, IsLedger, SameOutcomes

\* receiveCrossChainMessage
LEMMA ReceiveAdvances ==
  ASSUME Inv, NEW c \in Chains, NEW w, NEW deliverer, NEW rewardAddress \in RewardAddresses,
         ReceiveCrossChainMessage(c, w, deliverer, rewardAddress)
  PROVE  IsCallStep
<1> DEFINE id == IDOf(w.source, w.msg)
           marked == MarkReceipts(ledger[c], c, w.source, w.msg.receipts)
           l == MarkReceived(marked, w.source, w.msg, id, deliverer, rewardAddress)
           f == [op |-> "execute", chain |-> c, saved |-> l, id |-> id, msg |-> w.msg]
           sending == SendingOf(tx, c)
           due == DueOf(tx, c)
<1>1. /\ CanCall(c)
      /\ w \in signable /\ w.teleporter /\ w.msg.destination = c
      /\ id \notin DOMAIN ledger[c].received
  BY DEF ReceiveCrossChainMessage, Verified
<1>2. IF w.msg.payload
      THEN \/ Settle(c, StoreFailed(l, id, w.msg), tx)
           \/ Settle(c, Executed(l, id), Append(tx, f))
      ELSE Settle(c, l, tx)
  BY DEF ReceiveCrossChainMessage, Execute, Executed
<1>3. w \in emitted /\ id \in SentIDs
  BY <1>1 DEF Inv, SentIDs
<1>4. w.source \in Chains /\ w.msg \in Messages /\ Warp(w.source, w.msg) \in emitted
  <2>1. PICK s \in Chains, m \in Messages : w = Warp(s, m)
    BY <1>1, <1>3 DEF Inv, LogSound
  <2> QED BY <1>3, <2>1 DEF Warp
<1>5. IsDelivery(emitted, c, w.source, w.msg, id)
  BY <1>1, <1>4 DEF IsDelivery
<1>6. f.chain = c /\ f.saved = l
  OBVIOUS
<1> HIDE DEF id, f
<1>7. Good(emitted, c, ledger[c], {}, sending, due) /\ UniqueIDs(emitted)
  BY IDsUnique DEF Inv, StateOK
<1>8. Good(emitted, c, marked, {}, sending, due) /\ marked.received = ledger[c].received
  <2>1. marked = MarkReceipts(ledger[c], c, w.source, w.msg.receipts)
    OBVIOUS
  <2>2. /\ Good(emitted, c, ledger[c], {}, sending, due)
        /\ w.source \in Chains /\ w.msg \in Messages
        /\ Warp(w.source, w.msg) \in emitted /\ w.msg.destination = c
    BY <1>1, <1>4, <1>7
  <2> HIDE DEF marked, sending, due, l
  <2> QED BY <2>1, <2>2, MarkSound
<1>9. /\ SameOutcomes(ledger[c], l)
      /\ l.received = Put(ledger[c].received, id, rewardAddress)
  <2>1. IsLedger(ledger[c]) /\ IsLedger(marked)
    BY <1>7, <1>8 DEF Good
  <2>2. SameOutcomes(ledger[c], marked) /\ marked.received = ledger[c].received
    BY <2>1, MarkedFields
  <2> HIDE DEF marked
  <2>3. SameOutcomes(marked, l) /\ l.received = Put(marked.received, id, rewardAddress)
    BY <2>1, ReceivedFields
  <2> HIDE DEF l
  <2> QED BY <2>2, <2>3 DEF SameOutcomes
<1>10. IsLedger(l)
  <2>1. IsReceived(marked, l, w.source, w.msg, id, deliverer, rewardAddress)
    BY DEF IsReceived
  <2>2. id \notin DOMAIN marked.received
    BY <1>1, <1>8 DEF id
  <2> HIDE DEF marked, l, sending, due
  <2>3. Good(emitted, c, l, {id}, sending, due)
    BY <1>5, <1>7, <1>8, <2>1, <2>2, ReceivedSound, ZenonT(60)
  <2> QED BY <2>3 DEF Good
<1> HIDE DEF marked, l, sending, due
<1>11. Advances(SentIDs, ledger[c], l)
  BY <1>3, <1>9 DEF Advances, SameOutcomes, Runs, Put
<1>12. CASE Settle(c, l, tx)
  BY <1>1, <1>11, <1>12, CallChain DEF IsCallStep, CallStep, CanCall, Direct
<1>13. CASE Settle(c, StoreFailed(l, id, w.msg), tx)
  <2> DEFINE k == StoreFailed(l, id, w.msg)
  <2>1. k.received = l.received /\ k.executed = l.executed
    BY <1>10 DEF StoreFailed, IsLedger
  <2> HIDE DEF k
  <2>2. Direct(c, k, tx)
    BY <1>11, <2>1, AdvancesSame, AdvancesOn DEF Direct
  <2> QED BY <1>1, <1>13, <2>2, CallChain DEF IsCallStep, CallStep, CanCall, k
<1>14. CASE Settle(c, Executed(l, id), Append(tx, f))
  BY <1>1, <1>6, <1>9, <1>10, <1>11, <1>14, ExecutedAdvances, CallAdvances
<1> QED BY <1>2, <1>12, <1>13, <1>14

\* retryMessageExecution
LEMMA RetryExecutionAdvances ==
  ASSUME Inv, NEW c \in Chains, NEW id, RetryMessageExecution(c, id)
  PROVE  IsCallStep
<1> DEFINE l == ledger[c]
           k == ClearFailed(l, id)
           f == [op |-> "retry", chain |-> c, saved |-> l, id |-> id,
                 msg |-> l.receivedFailedMessageHashes[id]]
<1>1. CanCall(c) /\ Settle(c, Executed(k, id), Append(tx, f))
  BY DEF RetryMessageExecution, Execute, Executed
<1>2. f.chain = c /\ f.saved = l
  OBVIOUS
<1> HIDE DEF f
<1>3. IsLedger(l)
  BY DEF Inv, StateOK, Good
<1>4. /\ k.received = l.received /\ k.executed = l.executed
      /\ IsLedger(k)
  BY <1>3 DEF ClearFailed, IsLedger, Drop, Restrict
<1> HIDE DEF k
<1>5. Advances(SentIDs, l, Executed(k, id))
  BY <1>4, AdvancesSame, ExecutedAdvances, AdvancesOn
<1>6. Advances(SentIDs, l, l)
  BY AdvancesSame
<1> QED BY <1>1, <1>2, <1>5, <1>6, CallAdvances DEF SameOutcomes

\* sendCrossChainMessage and sendSpecifiedReceipts
LEMMA SendsAdvance ==
  ASSUME Inv, NEW c \in Chains, Sends(c) \/ SendsReceipts(c)
  PROVE  IsCallStep
<1>1. IsLedger(ledger[c])
  BY DEF Inv, StateOK, Good
<1>2. CASE Sends(c)
  <2>1. PICK d, payload, allowed, fee : SendCrossChainMessage(c, d, payload, allowed, fee)
    BY <1>2 DEF Sends
  <2> DEFINE out == OutstandingReceipts(ledger[c].receiptQueues[d])
             queues == [ledger[c].receiptQueues EXCEPT ![d] = out.rest]
             l == [ledger[c] EXCEPT !.receiptQueues = queues]
  <2>2. /\ CanCall(c)
        /\ SendTeleporterMessage(c, [ledger[c] EXCEPT !.receiptQueues[d] = out.rest],
                                 d, payload, allowed, fee, out.batch)
    BY <2>1 DEF SendCrossChainMessage
  <2> HIDE DEF out
  <2>3. l = [ledger[c] EXCEPT !.receiptQueues[d] = out.rest]
    OBVIOUS
  <2>4. SendTeleporterMessage(c, l, d, payload, allowed, fee, out.batch)
    BY <2>2, <2>3
  <2>5. l = [ledger[c] EXCEPT !.receiptQueues = queues]
    OBVIOUS
  <2> HIDE DEF queues, l
  <2> QED BY <2>2, <2>4, <2>5, SendAdvances
<1>3. CASE SendsReceipts(c)
  <2>1. PICK s, n, allowed, fee, ids : SendSpecifiedReceipts(c, s, ids, allowed, fee)
    BY <1>3 DEF SendsReceipts
  <2> DEFINE receipts == [i \in DOMAIN ids |->
                            [nonce |-> ids[i][3], relayer |-> ledger[c].received[ids[i]]]]
  <2>2. CanCall(c) /\ SendTeleporterMessage(c, ledger[c], s, FALSE, allowed, fee, receipts)
    BY <2>1 DEF SendSpecifiedReceipts
  <2>3. ledger[c] = [ledger[c] EXCEPT !.receiptQueues = ledger[c].receiptQueues]
    BY <1>1 DEF IsLedger
  <2> HIDE DEF receipts
  <2> QED BY <2>2, <2>3, SendAdvances
<1> QED BY <1>2, <1>3

\* The fee token or the destination contract returns or reverts.
LEMMA CallReturnsAdvances ==
  ASSUME Inv, NEW c \in Chains, CallReturns(c)
  PROVE  IsCallStep
<1>1. IsLedger(ledger[c]) /\ tx # <<>> /\ Top.chain = c
  BY DEF Inv, StateOK, Good, CallReturns, TransferReturns, RedeemReturns, TransferReverts,
         ExecutionSucceeds, ExecutionFails
<1>2. IsLedger(Top.saved)
  <2>1. Len(tx) \in DOMAIN tx
    BY <1>1, PopSound DEF Inv
  <2> QED BY <2>1 DEF Inv, StackOK, StateOK, Good, Top
<1>3. CASE TransferReturns(c)
  <2> DEFINE asset == Top.fee.asset
             info == ledger[c].sentMessageInfo
  <2>1. PICK credited :
          LET l == [ledger[c] EXCEPT !.balance[asset] = @ + credited]
              adjusted == l.balance[asset] - Top.before
          IN Settle(c,
                    IF Top.op = "send"
                    THEN StoreSent(l, c, Top.msg, asset, adjusted)
                    ELSE [l EXCEPT !.sentMessageInfo[Top.id].amount = @ + adjusted],
                    Caller)
    BY <1>3 DEF TransferReturns
  <2> DEFINE balance == [ledger[c].balance EXCEPT ![asset] = @ + credited]
             l == [ledger[c] EXCEPT !.balance = balance]
             adjusted == l.balance[asset] - Top.before
             raised == [l.sentMessageInfo EXCEPT ![Top.id].amount = @ + adjusted]
             k == IF Top.op = "send" THEN StoreSent(l, c, Top.msg, asset, adjusted)
                  ELSE [l EXCEPT !.sentMessageInfo = raised]
  <2>2. Settle(c, k, Caller)
    BY <2>1
  <2>3. l.received = ledger[c].received /\ l.executed = ledger[c].executed
    <3> HIDE DEF balance
    <3> QED BY <1>1 DEF IsLedger
  <2>4. k.received = ledger[c].received /\ k.executed = ledger[c].executed
    <3>1. ASSUME NEW i, NEW o
          PROVE  LET j == [l EXCEPT !.sentMessageInfo = i, !.outbox = o]
                 IN j.received = ledger[c].received /\ j.executed = ledger[c].executed
      <4> HIDE DEF balance
      <4> QED BY <1>1 DEF IsLedger
    <3>2. ASSUME NEW i
          PROVE  LET j == [l EXCEPT !.sentMessageInfo = i]
                 IN j.received = ledger[c].received /\ j.executed = ledger[c].executed
      <4> HIDE DEF balance
      <4> QED BY <1>1 DEF IsLedger
    <3> HIDE DEF l, raised, adjusted
    <3>3. CASE Top.op = "send"
      BY <3>1, <3>3 DEF StoreSent
    <3>4. CASE Top.op # "send"
      BY <3>2, <3>4
    <3> QED BY <3>3, <3>4
  <2> HIDE DEF k
  <2> QED BY <1>1, <2>2, <2>4, AdvancesSame, ReturnAdvances
<1>4. CASE TransferReverts(c)
  <2>1. Settle(c, Top.saved, Caller) /\ Advances(SentIDs, Top.saved, Top.saved)
    BY <1>4, AdvancesSame DEF TransferReverts
  <2> QED BY <1>1, <2>1, ReturnAdvances
<1>5. CASE ExecutionSucceeds(c)
  <2>1. Settle(c, ledger[c], Caller) /\ Advances(SentIDs, ledger[c], ledger[c])
    BY <1>5, AdvancesSame DEF ExecutionSucceeds
  <2> QED BY <1>1, <2>1, ReturnAdvances
<1>6. CASE ExecutionFails(c)
  <2> DEFINE k == IF Top.op = "execute" THEN StoreFailed(Top.saved, Top.id, Top.msg) ELSE Top.saved
  <2>1. Settle(c, k, Caller)
    BY <1>6 DEF ExecutionFails
  <2>2. k.received = Top.saved.received /\ k.executed = Top.saved.executed
    BY <1>2 DEF StoreFailed, IsLedger
  <2> HIDE DEF k
  <2> QED BY <1>1, <2>1, <2>2, AdvancesSame, ReturnAdvances
<1>7. CASE RedeemReturns(c)
  <2> DEFINE k == [ledger[c] EXCEPT !.balance[Top.fee.asset] = @ - Top.fee.amount,
                                    !.redeemed[Top.relayer][Top.fee.asset] = @ + Top.fee.amount]
  <2>1. Settle(c, k, Caller)
    BY <1>7 DEF RedeemReturns
  <2>2. k.received = ledger[c].received /\ k.executed = ledger[c].executed
    BY <1>1 DEF IsLedger
  <2> HIDE DEF k
  <2> QED BY <1>1, <2>1, <2>2, AdvancesSame, ReturnAdvances
<1> QED BY <1>3, <1>4, <1>5, <1>6, <1>7 DEF CallReturns

\* Every step is one of a call, or leaves the storage and the log alone.
LEMMA NextAdvances ==
  ASSUME Inv, [Next]_vars
  PROVE  IsCallStep \/ UNCHANGED <<ledger, tx, emitted>>
<1>1. ASSUME NEW c \in Chains, NEW id, RetrySendCrossChainMessage(c, id) PROVE IsCallStep
  <2> DEFINE l == [ledger[c] EXCEPT !.outbox = @ \cup {ledger[c].sentMessageInfo[id].msg}]
  <2>1. CanCall(c) /\ Settle(c, l, tx)
    BY <1>1 DEF RetrySendCrossChainMessage
  <2>2. l.received = ledger[c].received /\ l.executed = ledger[c].executed
    BY DEF Inv, StateOK, Good, IsLedger
  <2> HIDE DEF l
  <2> QED BY <2>1, <2>2, QuietAdvances
<1>2. ASSUME NEW c \in Chains, NEW id, NEW fee, AddFeeAmount(c, id, fee) PROVE IsCallStep
  <2> DEFINE l == ledger[c]
             f == [op |-> "addFee", chain |-> c, saved |-> l, id |-> id, fee |-> fee,
                   before |-> l.balance[fee.asset]]
  <2>1. CanCall(c) /\ Settle(c, l, Append(tx, f)) /\ f.chain = c /\ f.saved = l
    BY <1>2 DEF AddFeeAmount
  <2>2. Advances(SentIDs, l, l)
    BY AdvancesSame
  <2> HIDE DEF f
  <2> QED BY <2>1, <2>2, CallAdvances DEF SameOutcomes
<1>3. ASSUME NEW c \in Chains, NEW r, NEW a, RedeemRelayerRewards(c, r, a) PROVE IsCallStep
  <2> DEFINE l == ledger[c]
             k == RewardZeroed(l, r, a)
             f == [op |-> "redeem", chain |-> c, saved |-> l, relayer |-> r,
                   fee |-> [asset |-> a, amount |-> l.relayerRewardAmounts[r][a]]]
  <2>1. CanCall(c) /\ Settle(c, k, Append(tx, f)) /\ f.chain = c /\ f.saved = l
    BY <1>3 DEF RedeemRelayerRewards
  <2>2. k.received = l.received /\ k.executed = l.executed
    BY DEF Inv, StateOK, Good, IsLedger, RewardZeroed
  <2> HIDE DEF f, k
  <2>3. Advances(SentIDs, l, k) /\ Advances(SentIDs, l, l)
    BY <2>2, AdvancesSame
  <2> QED BY <2>1, <2>3, CallAdvances DEF SameOutcomes
<1>4. ASSUME NEW c \in Chains, NEW s, NEW n, Receives(c, s, n) PROVE IsCallStep
  BY <1>4, ReceiveAdvances DEF Receives
<1>5. CASE Next
  <2>1. \/ \E c \in Chains : Sends(c) \/ SendsReceipts(c)
        \/ \E c \in Chains : CallReturns(c)
        \/ \E c \in Chains : \E id : RetrySendCrossChainMessage(c, id)
        \/ \E c \in Chains : \E id, fee : AddFeeAmount(c, id, fee)
        \/ \E c \in Chains : \E s, n : Receives(c, s, n)
        \/ \E c \in Chains : \E id : RetryMessageExecution(c, id)
        \/ \E c \in Chains : \E r, a : RedeemRelayerRewards(c, r, a)
        \/ \E w : ValidatorChurn(w)
    BY <1>5 DEF Next
  <2>2. ASSUME NEW w, ValidatorChurn(w) PROVE UNCHANGED <<ledger, tx, emitted>>
    BY <2>2 DEF ValidatorChurn
  <2> QED BY <1>1, <1>2, <1>3, <1>4, <2>1, <2>2, SendsAdvance, CallReturnsAdvances,
             RetryExecutionAdvances
<1> QED BY <1>5 DEF vars

\* The storages of the transaction in progress follow the one it started from.
Rising ==
  tx # <<>> =>
    LET base == tx[1].saved
    IN /\ Advances(SentIDs, base, ledger[tx[1].chain])
       /\ \A i \in DOMAIN tx : Advances(SentIDs, base, tx[i].saved)

LEMMA FirstFrame ==
  ASSUME NEW t, IsStack(t), t # <<>>
  PROVE  1 \in DOMAIN t /\ Len(t) \in DOMAIN t
<1>1. PICK S : t \in Seq(S)
  BY StackIsSeq
<1> QED BY <1>1

\* A transaction that goes on keeps what it started from, and nothing is settled meanwhile.
LEMMA CallStepStays ==
  ASSUME Inv, Rising, NEW c \in Chains, NEW l, NEW stack, CallStep(c, l, stack), stack # <<>>
  PROVE  /\ Rising'
         /\ emitted' = emitted
         /\ \A d \in Chains : SameOutcomes(Settled(d), Settled(d)')
<1>1. /\ tx' = stack /\ emitted' = emitted
      /\ ledger' = [ledger EXCEPT ![c] = l] /\ DOMAIN ledger = Chains
      /\ \A i \in DOMAIN tx : tx[i].chain = c
  BY DEF CallStep, Settle, Inv
<1>2. SentIDs' = SentIDs
  BY <1>1 DEF SentIDs
<1>3. ledger'[c] = l /\ \A d \in Chains : d # c => ledger'[d] = ledger[d]
  BY <1>1
<1>4. IsStack(tx)
  BY DEF Inv, StackOK
<1>5. ASSUME NEW base, stack[1].chain = c, stack[1].saved = base, Advances(SentIDs, base, l),
             \A i \in DOMAIN stack : Advances(SentIDs, base, stack[i].saved)
      PROVE  Rising'
  BY <1>1, <1>2, <1>3, <1>5 DEF Rising
<1>6. ASSUME stack[1].chain = c, SameOutcomes(Settled(c), stack[1].saved)
      PROVE  \A d \in Chains : SameOutcomes(Settled(d), Settled(d)')
  <2> SUFFICES ASSUME NEW d \in Chains PROVE SameOutcomes(Settled(d), Settled(d)')
    OBVIOUS
  <2>1. CASE d = c
    BY <1>1, <1>6, <2>1 DEF Settled
  <2>2. CASE d # c
    <3>1. Settled(d)' = ledger[d]
      BY <1>1, <1>3, <1>6, <2>2 DEF Settled
    <3>2. Settled(d) = ledger[d]
      BY <1>1, <1>4, <2>2, FirstFrame DEF Settled
    <3> QED BY <3>1, <3>2 DEF SameOutcomes
  <2> QED BY <2>1, <2>2
<1>7. ASSUME tx # <<>>
      PROVE  /\ 1 \in DOMAIN tx /\ tx[1].chain = c /\ Settled(c) = tx[1].saved
             /\ Advances(SentIDs, tx[1].saved, ledger[c])
             /\ \A i \in DOMAIN tx : Advances(SentIDs, tx[1].saved, tx[i].saved)
  BY <1>1, <1>4, <1>7, FirstFrame DEF Settled, Rising
<1>8. CASE Direct(c, l, stack)
  <2>1. stack = tx /\ Advances(SentIDs, ledger[c], l)
    BY <1>8 DEF Direct
  <2>2. Advances(SentIDs, tx[1].saved, l)
    BY <1>7, <2>1, AdvancesOn
  <2> QED BY <1>1, <1>5, <1>6, <1>7, <2>1, <2>2 DEF SameOutcomes
<1>9. CASE Opens(c, l, stack)
  <2>1. PICK f : /\ stack = Append(tx, f) /\ f.chain = c
                 /\ SameOutcomes(ledger[c], f.saved)
                 /\ Advances(SentIDs, ledger[c], f.saved)
                 /\ Advances(SentIDs, f.saved, l)
    BY <1>9 DEF Opens
  <2>2. /\ DOMAIN tx = 1 .. Len(tx) /\ Len(tx) \in Nat
        /\ DOMAIN stack = 1 .. Len(tx) + 1
        /\ stack[Len(tx) + 1] = f
        /\ \A i \in DOMAIN tx : stack[i] = tx[i]
    BY <1>4, <2>1, PushParts
  <2>3. CASE tx = <<>>
    <3>1. Len(tx) = 0
      BY <2>3
    <3>2. stack[1] = f /\ \A i \in DOMAIN stack : stack[i] = f
      BY <2>2, <3>1
    <3>3. Settled(c) = ledger[c]
      BY <2>3 DEF Settled
    <3>4. Advances(SentIDs, f.saved, f.saved)
      BY AdvancesSame
    <3> QED BY <1>1, <1>5, <1>6, <2>1, <3>2, <3>3, <3>4
  <2>4. CASE tx # <<>>
    <3>1. stack[1] = tx[1]
      BY <1>7, <2>2, <2>4
    <3>2. Advances(SentIDs, tx[1].saved, f.saved) /\ Advances(SentIDs, tx[1].saved, l)
      BY <1>7, <2>1, <2>4, AdvancesOn
    <3>3. \A i \in DOMAIN stack : Advances(SentIDs, tx[1].saved, stack[i].saved)
      <4>1. \A i \in DOMAIN stack : i \in DOMAIN tx \/ i = Len(tx) + 1
        BY <2>2
      <4> QED BY <1>7, <2>2, <2>4, <3>2, <4>1
    <3> QED BY <1>1, <1>5, <1>6, <1>7, <2>4, <3>1, <3>2, <3>3 DEF SameOutcomes
  <2> QED BY <2>3, <2>4
<1>10. CASE Closes(c, l, stack)
  <2>1. /\ tx # <<>> /\ stack = Under(tx)
        /\ Advances(SentIDs, ledger[c], l) \/ Advances(SentIDs, tx[Len(tx)].saved, l)
    BY <1>10 DEF Closes, Caller, Under, Top
  <2>2. /\ IsStack(stack) /\ Len(tx) \in DOMAIN tx
        /\ \A i \in DOMAIN stack : stack[i] = tx[i] /\ i \in DOMAIN tx
    <3>1. /\ IsStack(stack) /\ Len(tx) \in DOMAIN tx /\ DOMAIN tx = 1 .. Len(tx)
          /\ DOMAIN stack = 1 .. Len(tx) - 1
          /\ \A i \in DOMAIN stack : stack[i] = tx[i]
      BY <1>4, <2>1, PopParts
    <3>2. Len(tx) \in Nat
      BY <1>4 DEF IsStack
    <3> QED BY <3>1, <3>2
  <2>3. stack[1] = tx[1]
    BY <2>2, FirstFrame
  <2>4. Advances(SentIDs, tx[1].saved, l)
    BY <1>7, <2>1, <2>2, AdvancesOn
  <2>5. \A i \in DOMAIN stack : Advances(SentIDs, tx[1].saved, stack[i].saved)
    BY <1>7, <2>1, <2>2
  <2> QED BY <1>1, <1>5, <1>6, <1>7, <2>1, <2>3, <2>4, <2>5 DEF SameOutcomes
<1> QED BY <1>8, <1>9, <1>10 DEF CallStep

\* The storage in which a transaction ends follows the one that it started from.
LEMMA CallStepEnds ==
  ASSUME Inv, Rising, NEW c \in Chains, NEW l, CallStep(c, l, <<>>)
  PROVE  Advances(SentIDs, Settled(c), l)
<1>1. IsStack(tx) /\ \A i \in DOMAIN tx : tx[i].chain = c
  BY DEF CallStep, Inv, StackOK
<1>2. ASSUME tx # <<>>
      PROVE  /\ Settled(c) = tx[1].saved
             /\ Advances(SentIDs, tx[1].saved, ledger[c])
             /\ Len(tx) \in DOMAIN tx
             /\ \A i \in DOMAIN tx : Advances(SentIDs, tx[1].saved, tx[i].saved)
  BY <1>1, <1>2, FirstFrame DEF Settled, Rising
<1>3. CASE Direct(c, l, <<>>)
  BY <1>3 DEF Direct, Settled
<1>4. CASE Opens(c, l, <<>>)
  <2>1. PICK f : Append(tx, f) = <<>>
    BY <1>4 DEF Opens
  <2> QED BY <1>1, <2>1, PushParts
<1>5. CASE Closes(c, l, <<>>)
  BY <1>2, <1>5, AdvancesOn DEF Closes, Top
<1> QED BY <1>3, <1>4, <1>5 DEF CallStep

\* The sent messages by ID, and what is known of the outcome of one.
LEMMA SentParts ==
  ASSUME Inv
  PROVE  /\ \A id \in SentIDs : \E s \in Chains, m \in Messages :
              id = IDOf(s, m) /\ Warp(s, m) \in emitted /\ id[2] = m.destination /\ id[2] \in Chains
         /\ \A s \in Chains, m \in Messages : Warp(s, m) \in emitted => IDOf(s, m) \in SentIDs
<1>1. ASSUME NEW id \in SentIDs
      PROVE  \E s \in Chains, m \in Messages :
               id = IDOf(s, m) /\ Warp(s, m) \in emitted /\ id[2] = m.destination /\ id[2] \in Chains
  <2>1. PICK w \in emitted : w.teleporter /\ id = IDOf(w.source, w.msg)
    BY DEF SentIDs
  <2>2. PICK s \in Chains, m \in Messages :
          /\ w = Warp(s, m) /\ w.source = s /\ w.msg = m /\ m.destination \in Chains
          /\ Warp(s, m) \in emitted
    BY <2>1, LoggedWarp
  <2> QED BY <2>1, <2>2 DEF IDOf, MessageID
<1>2. ASSUME NEW s \in Chains, NEW m \in Messages, Warp(s, m) \in emitted
      PROVE  IDOf(s, m) \in SentIDs
  <2>1. Warp(s, m).teleporter /\ Warp(s, m).source = s /\ Warp(s, m).msg = m
    BY DEF Warp
  <2> QED BY <1>2, <2>1 DEF SentIDs
<1> QED BY <1>1, <1>2

\* What a settled storage has received was sent, and has one outcome.
LEMMA SettledSound ==
  ASSUME Inv, NEW c \in Chains
  PROVE  /\ IsLedger(Settled(c))
         /\ DOMAIN Settled(c).received \subseteq SentIDs
         /\ DOMAIN Settled(c).executed \subseteq DOMAIN Settled(c).received
         /\ DOMAIN Settled(c).receivedFailedMessageHashes \subseteq DOMAIN Settled(c).received
         /\ \E open : OneOutcome(emitted, c, Settled(c), open)
<1>1. PICK open, sending, due : Good(emitted, c, Settled(c), open, sending, due)
  <2>1. CASE tx # <<>> /\ tx[1].chain = c
    <3>1. 1 \in DOMAIN tx
      BY <2>1, FirstFrame DEF Inv, StackOK
    <3>2. StateOK(emitted, c, tx[1].saved, OpenIDs(tx[1]), SubSeq(tx, 1, 1 - 1))
      BY <2>1, <3>1 DEF Inv, StackOK
    <3> QED BY <2>1, <3>2 DEF Settled, StateOK
  <2>2. CASE ~(tx # <<>> /\ tx[1].chain = c)
    BY <2>2 DEF Inv, StateOK, Settled
  <2> QED BY <2>1, <2>2
<1>2. DOMAIN Settled(c).received \subseteq SentIDs
  BY <1>1, SentParts DEF Good, FromLog
<1> QED BY <1>1, <1>2 DEF Good, FromLog

\* One message in a transaction: it is executed once at most, fails before that only, and stops
\* being a failed one by being executed.
LEMMA OutcomeMoves ==
  ASSUME NEW ids, NEW base, NEW l, IsLedger(base), IsLedger(l), Advances(ids, base, l),
         NEW id, NEW payload, NEW open,
         Runs(base, id) + Failures(base, id)
           = IF payload /\ id \in DOMAIN base.received \ open THEN 1 ELSE 0,
         Runs(l, id) + Failures(l, id) = IF payload /\ id \in DOMAIN l.received THEN 1 ELSE 0
  PROVE  /\ Runs(l, id) # Runs(base, id) => Runs(base, id) = 0 /\ Runs(l, id) = 1
         /\ Failures(base, id) = 0 /\ Failures(l, id) = 1 => Runs(base, id) = 0 /\ Runs(l, id) = 0
         /\ Failures(base, id) = 1 /\ Failures(l, id) = 0 => Runs(l, id) # Runs(base, id)
<1>1. Runs(base, id) \in Nat /\ Runs(l, id) \in Nat
  BY DEF IsLedger, Runs
<1>2. Failures(base, id) \in 0 .. 1 /\ Failures(l, id) \in 0 .. 1
  BY DEF Failures
<1>3. DOMAIN base.received \subseteq DOMAIN l.received
      /\ (Runs(base, id) # 0 => Runs(l, id) # 0)
  BY DEF Advances
<1> QED BY <1>1, <1>2, <1>3

\* A transaction that ends is one of the channel.
LEMMA CallStepIsTransaction ==
  ASSUME Inv, Inv', Rising, NEW c \in Chains, NEW l, CallStep(c, l, <<>>)
  PROVE  Channels!Transaction(c)
<1> DEFINE base == Settled(c)
<1>1. /\ tx' = <<>>
      /\ emitted' = emitted \cup {Warp(c, m) : m \in l.outbox}
      /\ ledger' = [ledger EXCEPT ![c] = [l EXCEPT !.outbox = {}]]
      /\ \A i \in DOMAIN tx : tx[i].chain = c
      /\ DOMAIN ledger = Chains
  BY DEF CallStep, Settle, Warp, Inv
<1>2. Advances(SentIDs, base, l)
  BY CallStepEnds
<1>3. \A d \in Chains : Settled(d)' = ledger'[d]
  BY <1>1 DEF Settled
<1>4. \A d \in Chains : d # c => Settled(d)' = Settled(d)
  <2> SUFFICES ASSUME NEW d \in Chains, d # c PROVE Settled(d)' = Settled(d)
    OBVIOUS
  <2>1. Settled(d) = ledger[d]
    BY <1>1, FirstFrame DEF Settled, Inv, StackOK
  <2> QED BY <1>1, <1>3, <2>1
<1> DEFINE k == Settled(c)'
<1>5. k = [l EXCEPT !.outbox = {}]
  BY <1>1, <1>3
<1>6. /\ IsLedger(k) /\ OneOutcome(emitted', c, k, {})
      /\ DOMAIN k.executed \subseteq DOMAIN k.received
      /\ DOMAIN k.receivedFailedMessageHashes \subseteq DOMAIN k.received
  BY <1>3 DEF Inv, StateOK, Good, FromLog
<1>7. k.received = l.received /\ k.executed = l.executed
  <2>1. {"received", "executed"} \subseteq DOMAIN k
    BY <1>6 DEF IsLedger
  <2>2. DOMAIN k = DOMAIN l
    BY <1>5
  <2> HIDE DEF k
  <2> QED BY <1>5, <2>1, <2>2
<1>8. Advances(SentIDs, base, k)
  BY <1>2, <1>7 DEF Advances, Runs
<1>9. /\ IsLedger(base) /\ DOMAIN base.received \subseteq SentIDs
      /\ \E open : OneOutcome(emitted, c, base, open)
  BY SettledSound
<1>10. emitted \subseteq emitted'
  BY <1>1
<1>11. SentIDs \subseteq SentIDs'
  BY <1>10 DEF SentIDs
<1>12. \A id \in SentIDs' \ SentIDs : id[1] = c /\ id[2] \in Chains
  <2> SUFFICES ASSUME NEW id \in SentIDs' \ SentIDs PROVE id[1] = c /\ id[2] \in Chains
    OBVIOUS
  <2>1. PICK w \in emitted' : w.teleporter /\ id = IDOf(w.source, w.msg)
    BY DEF SentIDs
  <2>2. w \notin emitted
    BY <2>1 DEF SentIDs
  <2>3. PICK m \in l.outbox : w = Warp(c, m)
    BY <1>1, <2>1, <2>2
  <2>4. m \in Messages
    <3>1. \E s \in Chains, n \in Messages : w = Warp(s, n)
      BY <2>1 DEF Inv, LogSound
    <3> QED BY <2>3, <3>1 DEF Warp
  <2> QED BY <2>1, <2>3, <2>4 DEF Warp, IDOf, MessageID, Messages
<1> HIDE DEF base, k
<1> DEFINE tried(d) == DOMAIN d.executed \cup DOMAIN d.receivedFailedMessageHashes
<1>13. \A d \in Chains : tried(Settled(d)') \subseteq SentIDs
  <2> SUFFICES ASSUME NEW d \in Chains,
                      NEW id \in tried(Settled(d)')
      PROVE  id \in SentIDs
    OBVIOUS
  <2>1. CASE d = c
    BY <1>6, <1>8, <1>9, <2>1 DEF Advances, k
  <2>2. CASE d # c
    BY <1>4, <2>2, SettledSound
  <2> QED BY <2>1, <2>2
<1> DEFINE now == [id \in SentIDs |-> Runs(Settled(id[2]), id)]
           then == [id \in SentIDs' |-> Runs(Settled(id[2])', id)]
           failing == {id \in SentIDs : id \in DOMAIN Settled(id[2]).receivedFailedMessageHashes}
           failingThen == {id \in SentIDs' : id \in DOMAIN Settled(id[2])'.receivedFailedMessageHashes}
           done == {id \in SentIDs : then[id] # now[id]}
<1>14. ASSUME NEW id \in SentIDs' \ SentIDs PROVE id[1] = c /\ then[id] = 0 /\ id \notin failingThen
  BY <1>12, <1>13 DEF Runs
<1>15. ASSUME NEW id \in SentIDs
       PROVE  /\ id \in done => id[2] = c /\ now[id] = 0 /\ then[id] = 1
              /\ id \in failingThen \ failing => id \notin done /\ id[2] = c /\ now[id] = 0
              /\ id \in failing \ failingThen => id \in done
  <2>1. PICK s \in Chains, m \in Messages :
          id = IDOf(s, m) /\ Warp(s, m) \in emitted /\ id[2] = m.destination /\ id[2] \in Chains
    BY SentParts
  <2>2. /\ now[id] = Runs(Settled(id[2]), id) /\ then[id] = Runs(Settled(id[2])', id)
        /\ id \in failing <=> id \in DOMAIN Settled(id[2]).receivedFailedMessageHashes
        /\ id \in failingThen <=> id \in DOMAIN Settled(id[2])'.receivedFailedMessageHashes
        /\ id \in done <=> then[id] # now[id]
    BY <1>11
  <2> HIDE DEF now, then, failing, failingThen, done
  <2>3. CASE id[2] # c
    BY <1>4, <2>1, <2>2, <2>3
  <2>4. CASE id[2] = c
    <3>1. PICK open : OneOutcome(emitted, c, base, open)
      BY <1>9
    <3>2. /\ Runs(k, id) # Runs(base, id) => Runs(base, id) = 0 /\ Runs(k, id) = 1
          /\ Failures(base, id) = 0 /\ Failures(k, id) = 1 => Runs(base, id) = 0 /\ Runs(k, id) = 0
          /\ Failures(base, id) = 1 /\ Failures(k, id) = 0 => Runs(k, id) # Runs(base, id)
      <4>1. Runs(base, id) + Failures(base, id)
              = IF m.payload /\ id \in DOMAIN base.received \ open THEN 1 ELSE 0
        BY <2>1, <2>4, <3>1 DEF OneOutcome
      <4>2. Runs(k, id) + Failures(k, id) = IF m.payload /\ id \in DOMAIN k.received THEN 1 ELSE 0
        BY <1>6, <1>10, <2>1, <2>4 DEF OneOutcome
      <4> QED BY <1>6, <1>8, <1>9, <4>1, <4>2, OutcomeMoves
    <3>3. /\ now[id] = Runs(base, id) /\ then[id] = Runs(k, id)
          /\ id \in failing <=> Failures(base, id) = 1
          /\ id \in failingThen <=> Failures(k, id) = 1
      BY <2>2, <2>4 DEF Failures, base, k
    <3>4. Failures(base, id) \in {0, 1} /\ Failures(k, id) \in {0, 1}
      BY DEF Failures
    <3> QED BY <2>2, <2>4, <3>2, <3>3, <3>4
  <2> QED BY <2>3, <2>4
<1>16. DOMAIN now = SentIDs /\ DOMAIN then = SentIDs'
  OBVIOUS
<1>17. failingThen \subseteq SentIDs'
  OBVIOUS
<1>18. failing \subseteq SentIDs
  OBVIOUS
<1>19. done \subseteq SentIDs
  OBVIOUS
<1>20. Channels!Sent = SentIDs /\ Channels!Sent' = SentIDs' /\ Channels!Done = done
  BY DEF Channels!Sent, Channels!Done
<1>21. Channels!Sends(c)
  BY <1>11, <1>14, <1>20 DEF Channels!Sends
<1>22. Channels!Executes(c)
  <2>1. \A id \in done : id[2] = c /\ now[id] = 0 /\ then[id] = 1
    BY <1>15, <1>19
  <2> QED BY <1>20, <2>1 DEF Channels!Executes
<1>23. Channels!Fails(c)
  <2>1. \A id \in failingThen \ failing : id \in SentIDs \ done /\ id[2] = c /\ now[id] = 0
    BY <1>14, <1>15, <1>17
  <2>2. failing \ failingThen \subseteq done
    BY <1>15, <1>18
  <2> QED BY <1>20, <2>1, <2>2 DEF Channels!Fails
<1> QED BY <1>21, <1>22, <1>23 DEF Channels!Transaction

\* A step of the messengers is a transaction of the channel, or none of its business.
LEMMA StepIsTransaction ==
  ASSUME Inv, Inv', Rising, [Next]_vars
  PROVE  Rising' /\ [\E c \in Chains : Channels!Transaction(c)]_(Channels!channelVars)
<1>1. CASE UNCHANGED <<ledger, tx, emitted>>
  BY <1>1 DEF Rising, SentIDs, Settled, Channels!channelVars
<1>2. CASE IsCallStep
  <2>1. PICK c \in Chains : \E l, stack : CallStep(c, l, stack)
    BY <1>2 DEF IsCallStep
  <2>2. PICK l, stack : CallStep(c, l, stack)
    BY <2>1
  <2>3. CASE stack = <<>>
    <3>1. tx' = <<>>
      BY <2>3, <2>2 DEF CallStep, Settle
    <3>2. Channels!Transaction(c)
      BY <2>3, <2>2, CallStepIsTransaction
    <3> QED BY <3>1, <3>2 DEF Rising
  <2>4. CASE stack # <<>>
    <3>1. /\ Rising' /\ emitted' = emitted
          /\ \A d \in Chains : SameOutcomes(Settled(d), Settled(d)')
      BY <2>4, <2>2, CallStepStays
    <3>2. SentIDs' = SentIDs
      BY <3>1 DEF SentIDs
    <3>3. \A id \in SentIDs :
            /\ Runs(Settled(id[2])', id) = Runs(Settled(id[2]), id)
            /\ Settled(id[2])'.receivedFailedMessageHashes
                 = Settled(id[2]).receivedFailedMessageHashes
      <4> SUFFICES ASSUME NEW id \in SentIDs
          PROVE  /\ Runs(Settled(id[2])', id) = Runs(Settled(id[2]), id)
                 /\ Settled(id[2])'.receivedFailedMessageHashes
                      = Settled(id[2]).receivedFailedMessageHashes
        OBVIOUS
      <4>1. id[2] \in Chains
        BY SentParts
      <4> QED BY <3>1, <4>1 DEF SameOutcomes, Runs
    <3>4. UNCHANGED Channels!channelVars
      BY <3>2, <3>3 DEF Channels!channelVars
    <3> QED BY <3>1, <3>4
  <2> QED BY <2>3, <2>4
<1> QED BY <1>1, <1>2, NextAdvances

(***************************************************************************)
(* The messengers keep what they promise to applications: a message is     *)
(* executed at most once and only after it was sent, and one that failed   *)
(* stays until it has been executed, however calls nest and revert.        *)
(***************************************************************************)
THEOREM ChannelImplemented == Spec => ChannelSpec
<1> DEFINE Strong == Inv /\ Rising
<1>1. Init => Rising /\ Channels!ChannelInit
  <2> SUFFICES ASSUME Init PROVE Rising /\ Channels!ChannelInit
    OBVIOUS
  <2>1. tx = <<>> /\ SentIDs = {}
    BY ForeignAssumption DEF Init, SentIDs
  <2> QED BY <2>1 DEF Rising, Channels!ChannelInit
<1>2. Strong /\ [Next]_vars => Strong'
  BY NextSound, StepIsTransaction
<1>3. Strong /\ Strong' /\ [Next]_vars
        => [\E c \in Chains : Channels!Transaction(c)]_(Channels!channelVars)
  BY StepIsTransaction
<1> QED BY <1>1, <1>2, <1>3, InitSound, PTL DEF Spec, ChannelSpec, Channels!Channel
=============================================================================
