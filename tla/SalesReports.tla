----------------------------- MODULE SalesReports -----------------------------
(***************************************************************************)
(* The sales reports of the dashboard, computed at any moment of a shop's  *)
(* life: orders are placed, delivered and cancelled, and variants that     *)
(* have been sold are deleted.                                             *)
(*                                                                         *)
(* Abstractions.  The reports of one dashboard are computed at one time,   *)
(* while the code asks for the time for each.  Orders have one line.  The  *)
(* limits of the top lists are left out, as is their order.                *)
(***************************************************************************)
EXTENDS Integers, FiniteSets, Functions

CONSTANTS
  Orders,      \* orders that may be placed
  Customers, Categories,
  Prices,      \* unit prices, in hundredths
  Quantities,
  Discounts,   \* what a coupon takes off an order
  Periods,     \* daily, weekly, monthly
  Step,        \* the length of each
  MaxTime      \* bound: the clock

VARIABLES
  clock,    \* timezone.now()
  sales,    \* Order with its line, or Unplaced
  deleted   \* orders whose variant has been deleted (OrderItem.variant is NULL)

saleVars == <<clock, sales, deleted>>

Unplaced == [status |-> "unplaced"]

Placed == {o \in Orders : sales[o] # Unplaced}

-----------------------------------------------------------------------------
\* The life of the orders, as far as the reports see it (module OrderStock).

Place(o, customer, category, price, quantity, discount) ==
  /\ sales[o] = Unplaced
  /\ discount <= price * quantity
  /\ sales' = [sales EXCEPT ![o] =
       [status |-> "pending", at |-> clock, customer |-> customer, category |-> category,
        price |-> price, quantity |-> quantity, total |-> price * quantity - discount]]
  /\ UNCHANGED <<clock, deleted>>

Finish(o, status) ==
  /\ o \in Placed /\ sales[o].status = "pending"
  /\ sales' = [sales EXCEPT ![o].status = status]
  /\ UNCHANGED <<clock, deleted>>

DeleteVariant(o) ==
  /\ o \in Placed
  /\ deleted' = deleted \cup {o}
  /\ UNCHANGED <<clock, sales>>

TimePasses ==
  /\ clock < MaxTime /\ clock' = clock + 1
  /\ UNCHANGED <<sales, deleted>>

-----------------------------------------------------------------------------
\* The reports.

Delivered(S) == {o \in S : sales[o].status = "delivered"}

\* get_sales_summary: from `start' to now, both included.
Summary(start) ==
  LET inPeriod == {o \in Placed : start <= sales[o].at /\ sales[o].at <= clock}
      sold == Delivered(inPeriod)
  IN [total_orders  |-> Cardinality(inPeriod),
      by_status     |-> [s \in {"pending", "delivered", "cancelled"} |->
                           Cardinality({o \in inPeriod : sales[o].status = s})],
      total_revenue |-> SumFunction([o \in sold |-> sales[o].total]),
      items_sold    |-> SumFunction([o \in sold |-> sales[o].quantity])]

\* Mutant: the last point is left out.
PointsBeforeNow(start, step) ==
  [i \in 1..((clock - start) \div step) |-> start + (i - 1) * step]

\* The points of the timeline: while current <= now.
Points(start, step) ==
  [i \in 1..((clock - start) \div step) + 1 |-> start + (i - 1) * step]

\* One point of get_sales_timeline, without its end.
PointOf(current, step) ==
  LET inStep == {o \in Placed : current <= sales[o].at /\ sales[o].at < current + step}
      sold == Delivered(inStep)
  IN [orders_count |-> Cardinality(inStep),
      revenue      |-> SumFunction([o \in sold |-> sales[o].total]),
      items_sold   |-> SumFunction([o \in sold |-> sales[o].quantity])]

Timeline(start, period) ==
  LET points == Points(start, Step[period])
  IN [i \in DOMAIN points |-> PointOf(points[i], Step[period])]

LinePrice(o) == sales[o].price * sales[o].quantity

SoldSince(start) == Delivered({o \in Placed : sales[o].at >= start})

\* get_top_products groups by variant, here one of each order.
TopProducts(start) ==
  [o \in SoldSince(start) |-> [quantity_sold |-> sales[o].quantity, revenue |-> LinePrice(o)]]

\* get_top_categories: a line whose variant is gone has no category.
TopCategories(start) ==
  LET sold == SoldSince(start) \ deleted
  IN [c \in {sales[o].category : o \in sold} |->
        SumFunction([o \in {line \in sold : sales[line].category = c} |-> LinePrice(o)])]

\* get_top_customers.
TopCustomers(start) ==
  LET sold == SoldSince(start)
  IN [c \in {sales[o].customer : o \in sold} |->
        [orders_count |-> Cardinality({o \in sold : sales[o].customer = c}),
         total_spent  |-> SumFunction([o \in {placed \in sold : sales[placed].customer = c} |->
                                         sales[o].total])]]

-----------------------------------------------------------------------------
Init == clock = 0 /\ sales = [o \in Orders |-> Unplaced] /\ deleted = {}

Next ==
  \/ \E o \in Orders, customer \in Customers, category \in Categories,
        price \in Prices, quantity \in Quantities, discount \in Discounts :
       Place(o, customer, category, price, quantity, discount)
  \/ \E o \in Orders :
       Finish(o, "delivered") \/ Finish(o, "cancelled") \/ DeleteVariant(o)
  \/ TimePasses

Spec == Init /\ [][Next]_saleVars

-----------------------------------------------------------------------------
\* The reports of one dashboard agree with each other, for every period they
\* may be asked for: the timeline adds up to the summary, no order is in two
\* of its points or in none, every order of the summary has one of its
\* statuses, the customers have spent the revenue, and the categories have
\* sold what the products have, but for the variants that are gone
\* (AnalyticsService.get_dashboard).
ReportsAgree ==
  \A start \in 0..clock :
    LET summary == Summary(start)
        customers == TopCustomers(start)
        categories == TopCategories(start)
        products == TopProducts(start)
    IN /\ \A period \in Periods :
            LET timeline == Timeline(start, period)
                Total(field) == SumFunction([i \in DOMAIN timeline |-> timeline[i][field]])
            IN /\ Total("orders_count") = summary.total_orders
               /\ Total("revenue") = summary.total_revenue
               /\ Total("items_sold") = summary.items_sold
       /\ SumFunction(summary.by_status) = summary.total_orders
       /\ SumFunction([c \in DOMAIN customers |-> customers[c].total_spent])
            = summary.total_revenue
       /\ SumFunction(categories)
            = SumFunction([o \in DOMAIN products \ deleted |-> products[o].revenue])
=============================================================================
