-------------------------- MODULE FulfilmentProofs --------------------------
(***************************************************************************)
(* Theorems about Fulfilment, for any set of orders.  OrderKeepsUp is not  *)
(* inductive: the row that create_shipment inserts, and the one that       *)
(* cleanup_stale_shipments saves, belong to orders that were checked some  *)
(* steps before.                                                           *)
(***************************************************************************)
EXTENDS Fulfilment, TLAPS

\* What was read without a lock and is used later is still so.
ReadingsHold ==
  /\ \A o \in creating : status[o] # "PENDING"
  /\ \A o \in listed : shipment[o] # "none"

IInv == TypeOK /\ ReadingsHold /\ OrderKeepsUp

-----------------------------------------------------------------------------
\* An order never goes back to PENDING, and is CONFIRMED only from there.
LEMMA OrderAdvances ==
  ASSUME NEW s \in Statuses, NEW t \in OrderStatusTransitions[s]
  PROVE  t \in Statuses \ {"PENDING"} /\ (t = "CONFIRMED" => s = "PENDING")
BY DEF Statuses, OrderStatusTransitions

LEMMA SyncedStep ==
  ASSUME TypeOK, NEW o \in Orders, NEW new
  PROVE  /\ Synced(o, new) \in [Orders -> Statuses]
         /\ \A p \in Orders \ {o} : Synced(o, new)[p] = status[p]
         /\ Synced(o, new)[o] # status[o]
              => /\ Synced(o, new)[o] = OrderStatusMap[new]
                 /\ Synced(o, new)[o] \notin {"PENDING", "CONFIRMED"}
<1>1. CASE /\ new \in DOMAIN OrderStatusMap
           /\ OrderStatusMap[new] \in OrderStatusTransitions[status[o]]
  <2>1. Synced(o, new) = [status EXCEPT ![o] = OrderStatusMap[new]]
    BY <1>1 DEF Synced
  <2>2. OrderStatusMap[new] \in Statuses \ {"PENDING", "CONFIRMED"}
    BY <1>1 DEF OrderStatusMap, Statuses
  <2> QED BY <2>1, <2>2 DEF TypeOK
<1>2. CASE ~(/\ new \in DOMAIN OrderStatusMap
             /\ OrderStatusMap[new] \in OrderStatusTransitions[status[o]])
  BY <1>2 DEF Synced, TypeOK
<1> QED BY <1>1, <1>2

\* A shipment that sets out takes its order from CONFIRMED to PROCESSING.
LEMMA SetsOut ==
  ASSUME TypeOK, NEW o \in Orders, status[o] = "CONFIRMED"
  PROVE  Synced(o, "in_transit")[o] = "PROCESSING"
BY DEF TypeOK, Synced, OrderStatusMap, OrderStatusTransitions

-----------------------------------------------------------------------------
LEMMA InvInit == Init => IInv
BY DEF Init, IInv, TypeOK, ReadingsHold, OrderKeepsUp, Statuses

\* Steps of orders: the shipments' side stays as it is.
LEMMA OrderStep ==
  ASSUME IInv, NEW o \in Orders, NEW new \in Statuses, TransitionOrder(o, new)
  PROVE  IInv'
<1>1. new \in Statuses \ {"PENDING"} /\ (new = "CONFIRMED" => status[o] = "PENDING")
  BY OrderAdvances DEF TransitionOrder, IInv, TypeOK
<1> QED BY <1>1 DEF TransitionOrder, IInv, TypeOK, ReadingsHold, OrderKeepsUp

LEMMA ShipmentStep ==
  ASSUME IInv, NEW o \in Orders, NEW new \in ShipmentStatuses,
         TransitionShipment(o, new)
  PROVE  IInv'
<1>1. /\ shipment' = [shipment EXCEPT ![o] = new]
      /\ status' = Synced(o, new)
      /\ UNCHANGED <<creating, listed>>
      /\ new \in ShipmentStatusTransitions[shipment[o]]
  BY DEF TransitionShipment
<1>2. TypeOK'
  BY <1>1, SyncedStep DEF IInv, TypeOK
<1>3. shipment[o] # "none" /\ status[o] # "PENDING"
  BY <1>1 DEF IInv, TypeOK, OrderKeepsUp, ShipmentStatusTransitions
<1>4. ReadingsHold'
  BY <1>1, <1>3, SyncedStep DEF IInv, TypeOK, ReadingsHold, ShipmentStatuses
<1>5. ASSUME new \in {"in_transit", "out_for_delivery", "failed", "delivered"}
      PROVE  status'[o] # "CONFIRMED"
  <2>1. CASE shipment[o] = "preparing"
    <3>1. new = "in_transit"
      BY <1>1, <1>5, <2>1 DEF ShipmentStatusTransitions
    <3> QED BY <1>1, <3>1, SyncedStep, SetsOut DEF IInv
  <2>2. CASE shipment[o] # "preparing"
    <3>1. shipment[o] \in {"in_transit", "out_for_delivery", "failed"}
      BY <1>1, <1>5, <2>2 DEF IInv, TypeOK, ShipmentStatuses, ShipmentStatusTransitions
    <3>2. status[o] # "CONFIRMED"
      BY <3>1 DEF IInv, OrderKeepsUp
    <3> QED BY <1>1, <3>2, SyncedStep DEF IInv
  <2> QED BY <2>1, <2>2
<1>6. OrderKeepsUp'
  <2> SUFFICES ASSUME NEW p \in Orders
               PROVE  /\ shipment'[p] # "none" => status'[p] # "PENDING"
                      /\ shipment'[p] \in {"in_transit", "out_for_delivery",
                                           "failed", "delivered"}
                           => status'[p] # "CONFIRMED"
    BY DEF OrderKeepsUp
  <2>1. CASE p = o
    BY <1>1, <1>3, <1>5, <2>1, SyncedStep DEF IInv, TypeOK
  <2>2. CASE p # o
    <3>1. shipment'[p] = shipment[p] /\ status'[p] = status[p]
      BY <1>1, <2>2, SyncedStep DEF IInv, TypeOK
    <3> QED BY <3>1 DEF IInv, OrderKeepsUp
  <2> QED BY <2>1, <2>2
<1> QED BY <1>2, <1>4, <1>6 DEF IInv

LEMMA InvStep == IInv /\ [Next]_vars => IInv'
<1> SUFFICES ASSUME IInv, [Next]_vars PROVE IInv'
  OBVIOUS
<1> USE DEF IInv, TypeOK, ReadingsHold, OrderKeepsUp
<1>1. ASSUME NEW o \in Orders, CheckOrder(o) PROVE IInv'
  BY <1>1 DEF CheckOrder
<1>2. ASSUME NEW o \in Orders, InsertShipment(o) PROVE IInv'
  BY <1>2 DEF InsertShipment, ShipmentStatuses
<1>3. ASSUME NEW o \in Orders, ListStale(o) PROVE IInv'
  BY <1>3 DEF ListStale
<1>4. ASSUME NEW o \in Orders, ReturnStale(o) PROVE IInv'
  BY <1>4 DEF ReturnStale, ShipmentStatuses
<1>5. CASE UNCHANGED vars
  BY <1>5 DEF vars
<1> HIDE DEF IInv, TypeOK, ReadingsHold, OrderKeepsUp
<1> QED
  BY <1>1, <1>2, <1>3, <1>4, <1>5, OrderStep, ShipmentStep DEF Next, OrderNext

\* Goods never get ahead of their order, although neither the check of
\* create_shipment nor the query of cleanup_stale_shipments locks anything
\* (create_shipment, ShippingService.transition_status).
THEOREM ShipmentsFollow == Spec => []OrderKeepsUp
<1>1. IInv => OrderKeepsUp
  BY DEF IInv
<1> QED BY <1>1, InvInit, InvStep, PTL DEF Spec

-----------------------------------------------------------------------------
\* What a returned shipment does to its order, whatever the order is at
\* (_sync_order_status).
LEMMA ReturnedSync ==
  ASSUME TypeOK, NEW o \in Orders
  PROVE  Synced(o, "returned")[o] \in {"CANCELLED", "DELIVERED"}
<1>1. CASE status[o] \in {"DELIVERED", "CANCELLED"}
  BY <1>1 DEF Synced, OrderStatusMap, OrderStatusTransitions, TypeOK
<1>2. CASE status[o] \notin {"DELIVERED", "CANCELLED"}
  BY <1>2 DEF Synced, OrderStatusMap, OrderStatusTransitions, TypeOK, Statuses
<1> QED BY <1>1, <1>2

\* A shipment that comes back by its own transition cancels its order in the
\* same step.
THEOREM ReturnsCancel == Spec => ReturnCancels
<1> DEFINE Cancels ==
      \A o \in Orders :
        /\ shipment[o] # "returned" /\ shipment'[o] = "returned"
        /\ listed' = listed
        => status'[o] \in {"CANCELLED", "DELIVERED"}
<1>1. TypeOK /\ [Next]_vars => Cancels
  <2> SUFFICES ASSUME TypeOK, [Next]_vars, NEW o \in Orders,
                      shipment[o] # "returned", shipment'[o] = "returned",
                      listed' = listed
               PROVE  status'[o] \in {"CANCELLED", "DELIVERED"}
    OBVIOUS
  <2>1. PICK p \in Orders : OrderNext(p)
    BY DEF Next, vars
  <2>2. CASE \E new \in Statuses : TransitionOrder(p, new)
    BY <2>2 DEF TransitionOrder
  <2>3. CASE CheckOrder(p) \/ ListStale(p)
    BY <2>3 DEF CheckOrder, ListStale
  <2>4. CASE InsertShipment(p)
    BY <2>4 DEF InsertShipment, TypeOK
  <2>5. CASE ReturnStale(p)
    BY <2>5 DEF ReturnStale
  <2>6. ASSUME NEW new \in ShipmentStatuses, TransitionShipment(p, new)
        PROVE  status'[o] \in {"CANCELLED", "DELIVERED"}
    <3>1. p = o /\ new = "returned"
      BY <2>6 DEF TransitionShipment, TypeOK
    <3> QED BY <2>6, <3>1, ReturnedSync DEF TransitionShipment
  <2> QED BY <2>1, <2>2, <2>3, <2>4, <2>5, <2>6 DEF OrderNext
<1>2. Spec => []IInv
  BY InvInit, InvStep, PTL DEF Spec
<1>3. IInv => TypeOK
  BY DEF IInv
<1>4. Spec => [][Cancels]_vars
  BY <1>1, <1>2, <1>3, PTL DEF Spec
<1> QED BY <1>4 DEF ReturnCancels
=============================================================================
