--------------------------- MODULE DeliveryTariffs ---------------------------
(***************************************************************************)
(* What a delivery costs: in the quote a customer sees, in the order that  *)
(* is placed, and on the shipment, while staff edit zones and methods.     *)
(*                                                                         *)
(* Every reading is a query of its own (READ COMMITTED): a zone by the     *)
(* region, else one by the city, then the first method of the zone.        *)
(*                                                                         *)
(* Abstractions.  Money and weights are small numbers, so that nothing is  *)
(* rounded; regions and cities are places.  Zones are numbered in the      *)
(* order of their names.  The filter by type of delivery, which the        *)
(* checkout does not use, is left out.                                     *)
(***************************************************************************)
EXTENDS Integers, FiniteSets, FiniteSetsExt

CONSTANTS
  Orders, Zones, Methods, Places, NoPlace,
  MaxShippingCost, \* MAX_SHIPPING_COST
  Coverages,       \* sets of places that staff give to a zone
  Tariffs,         \* rows that staff save for a method
  Purchases        \* what is ordered: subtotal, weight, discount, region, city

VARIABLES
  zones,   \* ShippingZone rows
  methods, \* ShippingMethod rows
  orders   \* Order rows, and how far their calculation is

tariffVars == <<zones, methods, orders>>

NoZone == 0
NoMethod == [zone |-> NoZone]
NoLimit == -1 \* a threshold or a maximum that is null
Unplaced == [step |-> "unplaced"]

Smaller(a, b) == IF a < b THEN a ELSE b

-----------------------------------------------------------------------------
\* ShippingMethod.calculate_cost.
CalculateCost(method, total, weight) ==
  LET cost == method.base + method.perKg * weight
  IN IF method.threshold # NoLimit /\ total >= method.threshold THEN 0
     ELSE IF method.maximum # NoLimit THEN Smaller(cost, method.maximum) ELSE cost

\* ShippingZone.contains_region.
ContainsRegion(z, place) == place # NoPlace /\ place \in zones[z].places

\* _resolve_zone, by the name of a place: the first active zone that has it.
ResolveZone(place) ==
  LET found == {z \in Zones : zones[z].active /\ ContainsRegion(z, place)}
  IN IF found = {} THEN NoZone ELSE Min(found)

\* ShippingMethodQuerySet: active(), for_zone().  The zone may be inactive.
ActiveFor(z) == {m \in Methods : methods[m].zone = z /\ methods[m].active}

\* The methods that may be the first of `ordering'; nothing decides a tie.
FirstOf(ms) ==
  {m \in ms : \A n \in ms : \/ methods[m].rank < methods[n].rank
                            \/ /\ methods[m].rank = methods[n].rank
                               /\ methods[m].base <= methods[n].base}

\* calculate_shipping_cost: the costs of all the methods of the zone.
Quote(place, total, weight) ==
  LET z == ResolveZone(place)
  IN IF z = NoZone THEN {}
     ELSE {[method |-> m, cost |-> CalculateCost(methods[m], total, weight)] : m \in ActiveFor(z)}

-----------------------------------------------------------------------------
\* create_order, up to the cost of the delivery.
Place(o, bought) ==
  /\ orders[o] = Unplaced
  /\ orders' = [orders EXCEPT ![o] =
       [step |-> "region", bought |-> bought, zone |-> NoZone, method |-> NoMethod,
        delivery |-> 0, shipment |-> {}, edited |-> FALSE]]
  /\ UNCHANGED <<zones, methods>>

\* The zone of the region, else of the city.
ResolveBy(o, step, place, otherwise) ==
  LET z == ResolveZone(place)
  IN /\ orders[o].step = step
     /\ orders' = [orders EXCEPT ![o].zone = z,
                                 ![o].step = IF z # NoZone THEN "method" ELSE otherwise]
     /\ UNCHANGED <<zones, methods>>

\* Mutant: no zone for the region, no cost.
RegionOnly(o) ==
  /\ orders[o] # Unplaced
  /\ ResolveBy(o, "region", orders[o].bought.region, "priced")

ResolveRegion(o) ==
  /\ orders[o] # Unplaced
  /\ ResolveBy(o, "region", orders[o].bought.region,
               IF orders[o].bought.city # NoPlace THEN "city" ELSE "priced")

ResolveCity(o) ==
  /\ orders[o] # Unplaced
  /\ ResolveBy(o, "city", orders[o].bought.city, "priced")

\* calculate_order_delivery_cost, from the zone on.
PriceDelivery(o) ==
  /\ orders[o].step = "method"
  /\ LET row == orders[o]
         found == FirstOf(ActiveFor(row.zone))
         Cost(m) == CalculateCost(methods[m], row.bought.subtotal, row.bought.weight)
     IN orders' \in
          IF found = {} THEN {[orders EXCEPT ![o].step = "priced"]}
          ELSE {[orders EXCEPT ![o].step = "priced", ![o].method = m,
                               ![o].delivery = Smaller(Cost(m), MaxShippingCost)] : m \in found}
  /\ UNCHANGED <<zones, methods>>

\* Order.recalculate_total.
Total(row) == row.bought.subtotal + row.delivery - row.bought.discount

\* create_shipment, by staff: any method, and the total of the order.
CreateShipment(o, m, weight) ==
  LET cost == CalculateCost(methods[m], Total(orders[o]), weight)
  IN /\ orders[o].step = "priced" /\ orders[o].shipment = {}
     /\ methods[m] # NoMethod /\ cost <= MaxShippingCost
     /\ orders' = [orders EXCEPT ![o].shipment = {[method |-> m, cost |-> cost, weight |-> weight]}]
     /\ UNCHANGED <<zones, methods>>

-----------------------------------------------------------------------------
\* The admin.  The orders remember that the tariffs are no longer those of
\* their calculation.
Edited == orders' = [o \in Orders |-> IF orders[o] = Unplaced THEN Unplaced
                                      ELSE [orders[o] EXCEPT !.edited = TRUE]]

SaveZone(z, active, places) ==
  /\ zones' = [zones EXCEPT ![z] = [active |-> active, places |-> places]]
  /\ zones' # zones /\ Edited
  /\ UNCHANGED methods

SaveMethod(m, row) ==
  /\ methods' = [methods EXCEPT ![m] = row]
  /\ methods' # methods /\ Edited
  /\ UNCHANGED zones

\* Shipment.method is PROTECTed.
DeleteMethod(m) ==
  /\ methods[m] # NoMethod
  /\ \A o \in Orders : orders[o] # Unplaced => \A s \in orders[o].shipment : s.method # m
  /\ methods' = [methods EXCEPT ![m] = NoMethod]
  /\ Edited
  /\ UNCHANGED zones

-----------------------------------------------------------------------------
Init ==
  /\ zones = [z \in Zones |-> [active |-> TRUE, places |-> {}]]
  /\ methods = [m \in Methods |-> NoMethod]
  /\ orders = [o \in Orders |-> Unplaced]

Next ==
  \/ \E o \in Orders :
       \/ \E bought \in Purchases : Place(o, bought)
       \/ ResolveRegion(o) \/ ResolveCity(o) \/ PriceDelivery(o)
       \/ \E m \in Methods, weight \in {p.weight : p \in Purchases} : CreateShipment(o, m, weight)
  \/ \E z \in Zones, active \in BOOLEAN, places \in Coverages : SaveZone(z, active, places)
  \/ \E m \in Methods : DeleteMethod(m) \/ \E row \in Tariffs : SaveMethod(m, row)

Spec == Init /\ [][Next]_tariffVars

-----------------------------------------------------------------------------
\* What an order may be charged by the quotes for its address.
Quoted(row) ==
  LET Of(place) == Quote(place, row.bought.subtotal, row.bought.weight)
      place == IF ResolveZone(row.bought.region) # NoZone THEN row.bought.region
               ELSE row.bought.city
      first == FirstOf({q.method : q \in Of(place)})
  IN IF first = {} THEN {0}
     ELSE {Smaller(q.cost, MaxShippingCost) : q \in {p \in Of(place) : p.method \in first}}

\* An order is charged what the first method of its quote costs, whichever of
\* its region and its city has a zone, and nothing where there is no quote, if
\* no tariff was edited meanwhile (calculate_order_delivery_cost and
\* calculate_shipping_cost are two pieces of code).  The shipment that follows
\* costs no more than that, although it is computed of the total and not of the
\* subtotal, if it weighs the same and no discount lowers the total
\* (create_shipment).
DeliveryAgrees ==
  \A o \in Orders :
    LET row == orders[o]
    IN (row # Unplaced /\ row.step = "priced") =>
         /\ row.delivery <= MaxShippingCost
         /\ ~row.edited =>
              /\ row.delivery \in Quoted(row)
              /\ \A s \in row.shipment :
                   s.method = row.method /\ s.weight = row.bought.weight /\ row.bought.discount = 0
                     => s.cost <= row.delivery
=============================================================================
