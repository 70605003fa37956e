---------------------------- MODULE ReceiptQueue ----------------------------
(***************************************************************************)
(* The queue of receipts that a TeleporterMessenger keeps for one source   *)
(* chain (contracts/teleporter/ReceiptQueue.sol): a mapping from indices   *)
(* to receipts with the indices of its head and its tail.  A slot of the   *)
(* mapping that was never written, or was deleted, reads as zero.          *)
(***************************************************************************)
EXTENDS Integers, Sequences, Functions

CONSTANTS
  Receipt,             \* the receipts of messages from the source chain
  ZeroReceipt,         \* what an empty slot reads as
  MaximumReceiptCount, \* _MAXIMUM_RECEIPT_COUNT
  MaxEnqueued          \* bound: the number of receipts enqueued

ASSUME QueueAssumption ==
  MaximumReceiptCount \in Nat \ {0} /\ MaxEnqueued \in Nat /\ ZeroReceipt \notin Receipt

VARIABLES
  first, \* index of the head
  last,  \* index after the tail
  data,  \* the slots that hold a receipt
  batch  \* the receipts that the last message took

vars == <<first, last, data, batch>>

Init == first = 0 /\ last = 0 /\ data = [i \in {} |-> ZeroReceipt] /\ batch = <<>>

Slot(i) == IF i \in DOMAIN data THEN data[i] ELSE ZeroReceipt

\* size
Size == last - first

\* getReceiptAtIndex, for an index below the size.
ReceiptAtIndex(index) == Slot(first + index)

\* enqueue
Enqueue(receipt) ==
  /\ last < MaxEnqueued
  /\ data' = [i \in DOMAIN data \cup {last} |-> IF i = last THEN receipt ELSE data[i]]
  /\ last' = last + 1
  /\ UNCHANGED <<first, batch>>

BatchSize == IF MaximumReceiptCount < Size THEN MaximumReceiptCount ELSE Size

\* Mutant: a slot is read after the head has moved.
ReceiptsAfterHeadMoved ==
  /\ batch' = [k \in 1 .. BatchSize |-> Slot(first + k)]
  /\ data' = Restrict(data, DOMAIN data \ (first .. first + BatchSize - 1))
  /\ first' = first + BatchSize
  /\ UNCHANGED last

\* getOutstandingReceiptsToSend: BatchSize calls of dequeue, each of which deletes the slot of the
\* head and moves the head on.
GetOutstandingReceiptsToSend ==
  /\ batch' = [k \in 1 .. BatchSize |-> Slot(first + k - 1)]
  /\ data' = Restrict(data, DOMAIN data \ (first .. first + BatchSize - 1))
  /\ first' = first + BatchSize
  /\ UNCHANGED last

Next == GetOutstandingReceiptsToSend \/ \E receipt \in Receipt : Enqueue(receipt)

Spec == Init /\ [][Next]_vars

----------------------------------------------------------------------------

\* The head does not pass the tail, and the slots in use are those from the head to the tail: no
\* waiting receipt is deleted and no slot that was sent is left in storage.
SlotsInUse ==
  /\ first \in Nat /\ last \in Nat /\ first <= last
  /\ DOMAIN data = first .. last - 1
  /\ data \in [DOMAIN data -> Receipt]
  /\ batch \in Seq(Receipt)

\* The queue as getReceiptAtIndex shows it.
Contents == [k \in 1 .. Size |-> ReceiptAtIndex(k - 1)]

FIFO == INSTANCE ReceiptFIFO WITH queue <- Contents

\* Every receipt is sent once and in order, in batches that are full while receipts remain: the
\* mapping and its two indices behave as a FIFO queue.
FIFOSpec == FIFO!Spec

=============================================================================
