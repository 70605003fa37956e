---------------------------- MODULE ReceiptFIFO ----------------------------
(***************************************************************************)
(* What a receipt queue promises: receipts leave in the order in which     *)
(* they came, each of them once, in batches of bounded size.               *)
(***************************************************************************)
EXTENDS Integers, Sequences

CONSTANTS Receipt,            \* the receipts that may be queued
          MaximumReceiptCount \* the size of a full batch

VARIABLES queue, \* receipts waiting, oldest first
          batch  \* the receipts of the last message sent

Smaller(m, n) == IF m < n THEN m ELSE n

Init == queue = <<>> /\ batch = <<>>

Enqueue(receipt) ==
  /\ queue' = Append(queue, receipt)
  /\ UNCHANGED batch

TakeBatch ==
  LET size == Smaller(MaximumReceiptCount, Len(queue))
  IN /\ batch' = SubSeq(queue, 1, size)
     /\ queue' = SubSeq(queue, size + 1, Len(queue))

Next == TakeBatch \/ \E receipt \in Receipt : Enqueue(receipt)

Spec == Init /\ [][Next]_<<queue, batch>>

=============================================================================
