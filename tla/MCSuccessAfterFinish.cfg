CONSTANTS
  o1 = o1
  p1 = p1
  p2 = p2
  Orders = {o1}
  PaymentOrder <- MCPaymentOrder
  Payments = {p1}
  FullTotal = 3
  DiscountedTotal = 2
  PartialAmounts = {1}
  PartialRefundMayFail = TRUE
SPECIFICATION Spec
PROPERTIES
  NoSuccessAfterFinish
CHECK_DEADLOCK FALSE
