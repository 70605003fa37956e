SPECIFICATION Spec
CONSTANTS
  Receipt = {r1, r2}
  ZeroReceipt = zero
  MaximumReceiptCount = 2
  MaxEnqueued = 6
PROPERTY FIFOSpec
CHECK_DEADLOCK FALSE
