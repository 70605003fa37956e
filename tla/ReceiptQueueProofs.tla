------------------------- MODULE ReceiptQueueProofs -------------------------
(* The receipt queue implements the FIFO queue, for every batch size and any number of receipts. *)
EXTENDS ReceiptQueue, SequenceTheorems, TLAPS

\* The slots in use are those from the head to the tail (enqueue, dequeue).
THEOREM SlotsInUseInvariant == Spec => []SlotsInUse
<1>1. Init => SlotsInUse
  BY DEF Init, SlotsInUse
<1>2. SlotsInUse /\ [Next]_vars => SlotsInUse'
  <2> SUFFICES ASSUME SlotsInUse, [Next]_vars
               PROVE  SlotsInUse'
    OBVIOUS
  <2>1. ASSUME NEW receipt \in Receipt, Enqueue(receipt)
        PROVE  SlotsInUse'
    BY <2>1 DEF SlotsInUse, Enqueue
  <2>2. CASE GetOutstandingReceiptsToSend
    <3>1. BatchSize \in Nat /\ BatchSize <= last - first
      BY QueueAssumption DEF SlotsInUse, BatchSize, Size
    <3>2. first' \in Nat /\ last' \in Nat /\ first' <= last'
      BY <2>2, <3>1 DEF SlotsInUse, GetOutstandingReceiptsToSend
    <3>3. /\ DOMAIN data' = first' .. last' - 1
          /\ data' \in [DOMAIN data' -> Receipt]
      BY <2>2, <3>1 DEF SlotsInUse, GetOutstandingReceiptsToSend, Restrict
    <3>4. batch' \in Seq(Receipt)
      <4>1. \A k \in 1 .. BatchSize : Slot(first + k - 1) \in Receipt
        BY <3>1 DEF SlotsInUse, Slot
      <4>2. batch' \in [1 .. BatchSize -> Receipt]
        BY <2>2, <4>1 DEF GetOutstandingReceiptsToSend
      <4> QED BY <3>1, <4>2
    <3> QED BY <3>2, <3>3, <3>4 DEF SlotsInUse
  <2>3. CASE UNCHANGED vars
    BY <2>3 DEF SlotsInUse, vars
  <2> QED BY <2>1, <2>2, <2>3 DEF Next
<1> QED BY <1>1, <1>2, PTL DEF Spec

\* Waiting receipts are seen in the order of their indices.
LEMMA ContentsIsSequence ==
  ASSUME SlotsInUse
  PROVE  /\ Contents \in Seq(Receipt)
         /\ Len(Contents) = last - first
         /\ \A k \in 1 .. last - first : Contents[k] = data[first + k - 1]
<1>1. \A k \in 1 .. Size : ReceiptAtIndex(k - 1) = data[first + k - 1]
                           /\ data[first + k - 1] \in Receipt
  BY DEF SlotsInUse, Size, ReceiptAtIndex, Slot
<1>2. Size \in Nat
  BY DEF SlotsInUse, Size
<1>3. Contents \in [1 .. Size -> Receipt]
  BY <1>1 DEF Contents
<1> QED BY <1>1, <1>2, <1>3 DEF Contents, Size

\* The queue of indices and slots implements the FIFO queue (the whole of ReceiptQueue.sol).
THEOREM Refinement == Spec => FIFOSpec
<1>1. Init => FIFO!Init
  BY DEF Init, FIFO!Init, Contents, Size
<1>2. SlotsInUse /\ SlotsInUse' /\ [Next]_vars => [FIFO!Next]_<<Contents, batch>>
  <2> SUFFICES ASSUME SlotsInUse, SlotsInUse', [Next]_vars
               PROVE  [FIFO!Next]_<<Contents, batch>>
    OBVIOUS
  <2> DEFINE after == Contents'
  <2>a. /\ Contents \in Seq(Receipt) /\ Len(Contents) = last - first
        /\ \A k \in 1 .. last - first : Contents[k] = data[first + k - 1]
    BY ContentsIsSequence
  <2>b. /\ after \in Seq(Receipt) /\ Len(after) = last' - first'
        /\ \A k \in 1 .. last' - first' : after[k] = data'[first' + k - 1]
    <3>1. \A k \in 1 .. Size' : /\ ReceiptAtIndex(k - 1)' = data'[first' + k - 1]
                                /\ data'[first' + k - 1] \in Receipt
      BY DEF SlotsInUse, Size, ReceiptAtIndex, Slot
    <3>2. Size' \in Nat
      BY DEF SlotsInUse, Size
    <3>3. after \in [1 .. Size' -> Receipt]
      BY <3>1 DEF Contents
    <3> QED BY <3>1, <3>2, <3>3 DEF Contents, Size
  <2> HIDE DEF after
  <2>1. ASSUME NEW receipt \in Receipt, Enqueue(receipt)
        PROVE  FIFO!Enqueue(receipt)
    <3>1. after = Append(Contents, receipt)
      <4>1. first' = first /\ last' = last + 1 /\ data'[last] = receipt
            /\ \A i \in first .. last - 1 : data'[i] = data[i]
        BY <2>1 DEF Enqueue, SlotsInUse
      <4>2. /\ Append(Contents, receipt) \in Seq(Receipt)
            /\ Len(Append(Contents, receipt)) = last - first + 1
            /\ \A k \in 1 .. last - first : Append(Contents, receipt)[k] = Contents[k]
            /\ Append(Contents, receipt)[last - first + 1] = receipt
        BY <2>a DEF SlotsInUse
      <4>3. ASSUME NEW k \in 1 .. Len(after)
            PROVE  after[k] = Append(Contents, receipt)[k]
        <5>1. k \in 1 .. last - first + 1 /\ after[k] = data'[first + k - 1]
          BY <4>1, <2>b DEF SlotsInUse
        <5>2. CASE k = last - first + 1
          BY <5>1, <5>2, <4>1, <4>2 DEF SlotsInUse
        <5>3. CASE k # last - first + 1
          <6>1. k \in 1 .. last - first /\ first + k - 1 \in first .. last - 1
            BY <5>1, <5>3, SMTT(20) DEF SlotsInUse
          <6> QED BY <6>1, <5>1, <4>1, <4>2, <2>a
        <5> QED BY <5>2, <5>3
      <4>4. Len(after) = Len(Append(Contents, receipt))
        BY <4>1, <4>2, <2>b DEF SlotsInUse
      <4> QED BY <4>2, <4>3, <4>4, <2>b, SeqEqual
    <3> QED BY <2>1, <3>1 DEF after, Enqueue, FIFO!Enqueue
  <2>2. ASSUME GetOutstandingReceiptsToSend
        PROVE  FIFO!TakeBatch
    <3> DEFINE size == FIFO!Smaller(MaximumReceiptCount, Len(Contents))
    <3>1. BatchSize = size /\ size \in Nat /\ size <= last - first
      BY <2>a, QueueAssumption DEF BatchSize, Size, FIFO!Smaller, SlotsInUse
    <3> HIDE DEF size
    <3>2. batch' = SubSeq(Contents, 1, size)
      <4>1. \A k \in 1 .. size : Slot(first + k - 1) = Contents[k]
        BY <3>1, <2>a DEF Slot, SlotsInUse
      <4> QED BY <2>2, <3>1, <4>1, <2>a DEF GetOutstandingReceiptsToSend
    <3>3. after = SubSeq(Contents, size + 1, Len(Contents))
      <4>1. first' = first + size /\ last' = last
        BY <2>2, <3>1 DEF GetOutstandingReceiptsToSend
      <4>2. \A i \in first' .. last' - 1 : data'[i] = data[i]
        BY <2>2, <3>1 DEF GetOutstandingReceiptsToSend, SlotsInUse, Restrict
      <4> DEFINE rest == SubSeq(Contents, size + 1, Len(Contents))
      <4>3. /\ rest \in Seq(Receipt)
            /\ Len(rest) = last - first - size
            /\ \A k \in 1 .. last - first - size : rest[k] = Contents[size + 1 + k - 1]
        <5>1. /\ size + 1 \in Int /\ Len(Contents) \in Int
              /\ \A i \in size + 1 .. Len(Contents) : Contents[i] \in Receipt
          BY <3>1, <2>a DEF SlotsInUse
        <5>2. /\ rest \in Seq(Receipt)
              /\ Len(rest) = IF size + 1 <= Len(Contents) THEN Len(Contents) - (size + 1) + 1 ELSE 0
              /\ \A i \in 1 .. Len(Contents) - (size + 1) + 1 : rest[i] = Contents[size + 1 + i - 1]
          BY <5>1, SubSeqProperties
        <5>3. Len(Contents) - (size + 1) + 1 = last - first - size
          BY <3>1, <2>a DEF SlotsInUse
        <5> HIDE DEF rest
        <5> QED BY <5>2, <5>3, <3>1, <2>a, SMTT(20) DEF SlotsInUse
      <4> HIDE DEF rest
      <4>4. Len(after) = Len(rest)
        BY <4>1, <4>3, <3>1, <2>b DEF SlotsInUse
      <4>5. ASSUME NEW k \in 1 .. Len(after)
            PROVE  after[k] = rest[k]
        <5>1. k \in 1 .. last - first - size /\ rest[k] = Contents[size + 1 + k - 1]
          BY <4>3, <4>4
        <5>2. size + 1 + k - 1 \in 1 .. last - first
          BY <5>1, <3>1 DEF SlotsInUse
        <5>3. rest[k] = data[first' + k - 1]
          <6>1. Contents[size + 1 + k - 1] = data[first + (size + 1 + k - 1) - 1]
            BY <5>2, <2>a
          <6>2. first + (size + 1 + k - 1) - 1 = first' + k - 1
            BY <5>1, <4>1, <3>1 DEF SlotsInUse
          <6> QED BY <5>1, <6>1, <6>2
        <5>4. first' + k - 1 \in first' .. last' - 1 /\ after[k] = data'[first' + k - 1]
          BY <5>1, <4>1, <2>b, <3>1 DEF SlotsInUse
        <5> QED BY <5>3, <5>4, <4>2
      <4>6. after = rest
        BY <4>3, <4>4, <4>5, <2>b, SeqEqual
      <4> QED BY <4>6 DEF rest
    <3> QED BY <3>2, <3>3 DEF after, size, FIFO!TakeBatch
  <2>3. CASE UNCHANGED vars
    BY <2>3 DEF vars, Contents, Size, ReceiptAtIndex, Slot
  <2> QED BY <2>1, <2>2, <2>3 DEF Next, FIFO!Next
<1> QED BY <1>1, <1>2, SlotsInUseInvariant, PTL DEF Spec, FIFOSpec, FIFO!Spec

=============================================================================
