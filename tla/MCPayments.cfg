CONSTANTS
  o1 = o1
  p1 = p1
  p2 = p2
  Orders = {o1}
  Payments = {p1, p2}
  PaymentOrder <- MCPaymentOrder
  FullTotal = 3
  DiscountedTotal = 2
  PartialAmounts = {1}
  PartialRefundMayFail = TRUE
SYMMETRY MCSymmetry
SPECIFICATION Spec
INVARIANTS
  NoPaidPendingOrder
  RefundsWereAsked
  
CHECK_DEADLOCK FALSE
