CONSTANTS
  o1 = o1
  o2 = o2
  a = a
  b = b
  w1 = w1
  w2 = w2
  Orders = {o1, o2}
  Variants = {a, b}
  Workers = {w1, w2}
  Ordered <- MCOrdered
  ItemOrder <- MCItemOrder
  MaxItemQuantity = 1
  MaxStock = 2
  RestockAmounts = {1}
  InitialStock <- MCInitialStock
SYMMETRY MCSymmetry
SPECIFICATION Spec
INVARIANTS
  OrdersNeverInCycle
PROPERTIES
  ImplementsOrderStock
CHECK_DEADLOCK FALSE
