CONSTANTS
  o1 = o1
  o2 = o2
  a = a
  b = b
  Orders = {o1, o2}
  Variants = {a, b}
  Ordered <- MCOrdered
  MaxItemQuantity = 2
  MaxStock = 4
  RestockAmounts = {1}
  InitialStock <- MCInitialStock
SPECIFICATION Spec
INVARIANTS
  ReservedMatchesMovements
  QuantityMatchesMovements
  StatusMatchesMovements
  UndoFitsChecks
PROPERTIES
  KeepsPromise
CHECK_DEADLOCK FALSE
