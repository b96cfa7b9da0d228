CONSTANTS
  o1 = o1
  o2 = o2
  o3 = o3
  u1 = u1
  u2 = u2
  c1 = c1
  Orders = {o1, o2, o3}
  Users = {u1, u2}
  Coupons = {c1, c2}
  c2 = c2
  NoCoupon = NoCoupon
  UserOf <- MCUserOf
  Subtotal <- MCSubtotal
  DeliveryCost <- MCDeliveryCost
  Terms <- MCTerms
  MaxLimit = 1
SPECIFICATION Spec
INVARIANTS
  TimesUsedMatchesUsages
  DiscountMatchesUsage
PROPERTIES
  NoUseBeyondLimits
  ConfirmedUseStays
CHECK_DEADLOCK FALSE
