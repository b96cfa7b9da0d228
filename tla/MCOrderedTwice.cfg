CONSTANTS
  c1 = c1
  c2 = c2
  c3 = c3
  v1 = v1
  v2 = v2
  v3 = v3
  r1 = r1
  r2 = r2
  u1 = u1
  g1 = g1
  Carts = {c1, c2}
  Users = {u1}
  Guests = {g1}
  Variants = {v1, v2}
  Requests = {r1, r2}
  Nobody = Nobody
  MaxItems = 2
  MaxQuantity = 1
  Changing = {v1}
  MaxStock = 1
  MaxOrders = 2
SPECIFICATION Spec
PROPERTIES
  OrdersFromActiveCarts
CHECK_DEADLOCK FALSE
