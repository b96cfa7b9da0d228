CONSTANTS
  day = day
  week = week
  Requests = {r1, r2}
  Orders = {o1, o2}
  Customers = {b1, b2}
  Kinds = {k1, k2}
  UnitPrices = {3}
  Quantities = {2}
  Discounts = {0, 1}
  Periods = {day, week}
  Step <- MCStep
  LastDay = 3
  Nonces = {n1, n2}
  Tolerance = 1
  Retention = 2
  Patience = 1
  MaxClock = 4
  CeleryWorkers = {c1}
  MaxNotes = 2
  MaxValue = 2
  MaxAddresses = 3
  MaxKey = 3
  Web = {t1}
  Parent = Parent
  Given = {1}
  MaxIds = 5
  MaxMessages = 2
  MaxDepth = 2
  Checkouts = {d1}
  Zones = {1, 2}
  Methods = {m1, m2}
  Places = {"a", "b"}
  NoPlace = "none"
  MaxShippingCost = 3
  Coverages <- MCCoverages
  Tariffs <- MCTariffs
  Purchases <- MCPurchases
  MaxOld = 2
  MaxPk = 3
  MaxTaken = 3
SPECIFICATION Spec
SYMMETRY Symmetry
INVARIANTS
  
  
  ToldOnce
  ChangesKept
  OneDefault
  
  IdsFollowWork
  DeliveryAgrees
  NumbersIdentify
PROPERTIES
  ReadStaysRead
  ReturnCancels
CHECK_DEADLOCK FALSE
