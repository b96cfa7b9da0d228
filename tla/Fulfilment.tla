----------------------------- MODULE Fulfilment -----------------------------
(***************************************************************************)
(* Shipments and the orders they carry.  ShippingService moves a shipment  *)
(* through its own statuses and, in the same transaction, asks             *)
(* OrderService to move or cancel the order; a refusal of the order is     *)
(* logged and the shipment goes on.  create_shipment reads the order       *)
(* without a lock, and the command cleanup_stale_shipments saves the rows  *)
(* it has read before, outside ShippingService.                            *)
(*                                                                         *)
(* A transition locks the Shipment row, then the Order row, until COMMIT:  *)
(* it is one action.  Stock, coupon and refunds of the order are those of  *)
(* the other modules.                                                      *)
(***************************************************************************)
EXTENDS Integers, FiniteSets

CONSTANT Orders

VARIABLES
  status,    \* Order.status
  shipment,  \* Shipment.status, or "none"
  creating,  \* orders for which create_shipment has passed its checks
  listed     \* orders whose shipment cleanup_stale_shipments has selected

vars == <<status, shipment, creating, listed>>

Statuses ==
  {"PENDING", "CONFIRMED", "PROCESSING", "SHIPPED", "DELIVERED", "CANCELLED"}

OrderStatusTransitions ==
  [PENDING    |-> {"CONFIRMED", "CANCELLED"},
   CONFIRMED  |-> {"PROCESSING", "CANCELLED"},
   PROCESSING |-> {"SHIPPED", "CANCELLED"},
   SHIPPED    |-> {"DELIVERED", "CANCELLED"},
   DELIVERED  |-> {},
   CANCELLED  |-> {}]

ShipmentStatuses ==
  {"preparing", "in_transit", "out_for_delivery", "delivered", "failed", "returned"}

ShipmentStatusTransitions ==
  [none             |-> {},
   preparing        |-> {"in_transit", "returned"},
   in_transit       |-> {"out_for_delivery", "failed", "returned"},
   out_for_delivery |-> {"delivered", "failed"},
   failed           |-> {"in_transit", "returned"},
   delivered        |-> {},
   returned         |-> {}]

\* Mutant: a return asks nothing of the order.
ForwardStatusMap == [in_transit |-> "PROCESSING", delivered |-> "DELIVERED"]

\* The order status that a shipment status asks for.
OrderStatusMap ==
  [in_transit |-> "PROCESSING", delivered |-> "DELIVERED", returned |-> "CANCELLED"]

-----------------------------------------------------------------------------
\* OrderService, for staff, the customer, payments and cleanup_stale_orders.

TransitionOrder(o, new) ==
  /\ new \in OrderStatusTransitions[status[o]]
  /\ status' = [status EXCEPT ![o] = new]
  /\ UNCHANGED <<shipment, creating, listed>>

\* Mutant: the status of the order is not checked.
CheckShipmentOnly(o) ==
  /\ shipment[o] = "none"
  /\ creating' = creating \cup {o}
  /\ UNCHANGED <<status, shipment, listed>>

\* create_shipment: the checks, and then the row, one for each order.
CheckOrder(o) ==
  /\ shipment[o] = "none" /\ status[o] # "PENDING"
  /\ creating' = creating \cup {o}
  /\ UNCHANGED <<status, shipment, listed>>

InsertShipment(o) ==
  /\ o \in creating
  /\ creating' = creating \ {o}
  /\ shipment' = IF shipment[o] = "none"
                   THEN [shipment EXCEPT ![o] = "preparing"] ELSE shipment
  /\ UNCHANGED <<status, listed>>

\* _sync_order_status: the order moves if its own rules allow it.
Synced(o, new) ==
  IF /\ new \in DOMAIN OrderStatusMap
     /\ OrderStatusMap[new] \in OrderStatusTransitions[status[o]]
    THEN [status EXCEPT ![o] = OrderStatusMap[new]]
    ELSE status

TransitionShipment(o, new) ==
  /\ new \in ShipmentStatusTransitions[shipment[o]]
  /\ shipment' = [shipment EXCEPT ![o] = new]
  /\ status' = Synced(o, new)
  /\ UNCHANGED <<creating, listed>>

\* cleanup_stale_shipments: the query, and then the save of each row.
ListStale(o) ==
  /\ shipment[o] = "preparing" /\ o \notin listed
  /\ listed' = listed \cup {o}
  /\ UNCHANGED <<status, shipment, creating>>

ReturnStale(o) ==
  /\ o \in listed
  /\ listed' = listed \ {o}
  /\ shipment' = [shipment EXCEPT ![o] = "returned"]
  /\ UNCHANGED <<status, creating>>

Init ==
  /\ status = [o \in Orders |-> "PENDING"]
  /\ shipment = [o \in Orders |-> "none"]
  /\ creating = {} /\ listed = {}

OrderNext(o) ==
  \/ \E new \in Statuses : TransitionOrder(o, new)
  \/ CheckOrder(o)
  \/ InsertShipment(o)
  \/ \E new \in ShipmentStatuses : TransitionShipment(o, new)
  \/ ListStale(o)
  \/ ReturnStale(o)

Next == \E o \in Orders : OrderNext(o)

Spec == Init /\ [][Next]_vars

-----------------------------------------------------------------------------
TypeOK ==
  /\ status \in [Orders -> Statuses]
  /\ shipment \in [Orders -> ShipmentStatuses \cup {"none"}]
  /\ creating \subseteq Orders /\ listed \subseteq Orders

\* Goods do not leave the warehouse for an order that is not at least being
\* processed, and nothing is packed for an unpaid one, although the check of
\* create_shipment is done on a row that is not locked and the refusals of
\* the order are ignored (create_shipment, _sync_order_status).
OrderKeepsUp ==
  \A o \in Orders :
    /\ shipment[o] # "none" => status[o] # "PENDING"
    /\ shipment[o] \in {"in_transit", "out_for_delivery", "failed", "delivered"}
         => status[o] # "CONFIRMED"

\* A shipment that comes back cancels its order in the same step, so that
\* stock and money are given back (ShippingService.transition_status).
ReturnCancels ==
  [][\A o \in Orders :
       /\ shipment[o] # "returned" /\ shipment'[o] = "returned"
       /\ listed' = listed
       => status'[o] \in {"CANCELLED", "DELIVERED"}]_vars
=============================================================================
