----------------------------- MODULE OrderStock -----------------------------
(***************************************************************************)
(* The coordination of orders with the warehouse: OrderService moves an    *)
(* order through its statuses and, in the same database transaction,       *)
(* InventoryService reserves, releases or writes off the stock of its      *)
(* items and appends the movements that record it.                         *)
(*                                                                         *)
(* Every action is one committed transaction.  All the transactions lock   *)
(* the Order row and then the Stock rows they touch, until COMMIT; module  *)
(* OrderStockLocks takes them apart lock by lock and shows that they       *)
(* implement the actions of this module.  A transaction that raises is     *)
(* rolled back as a whole: it is a step that changes nothing, which is why *)
(* a failed check is a guard here.                                         *)
(*                                                                         *)
(* Abstractions.  A Stock row that does not exist yet counts as the row    *)
(* (0, 0) that get_or_create inserts.  IN and ADJUSTMENT movements are     *)
(* represented by the sum of their effects, `supplied'.  An item of an     *)
(* order and the movements it gives rise to are identified by the order    *)
(* and the variant: cart items, hence order items, have distinct variants. *)
(***************************************************************************)
EXTENDS Integers, FiniteSets

CONSTANTS
  Orders,           \* the orders placed by checkout
  Variants,         \* product variants, each with at most one Stock row
  Ordered,          \* Ordered[o][v]: OrderItem.quantity, 0 if v is not in o
  MaxItemQuantity,  \* the largest OrderItem.quantity
  MaxStock,         \* the largest value of a PositiveIntegerField
  RestockAmounts,   \* quantities staff may receive from a supplier
  InitialStock      \* InitialStock[v]: quantity before the first order

ASSUME OrdersAssumption == IsFiniteSet(Orders)
ASSUME QuantityAssumption ==
  /\ MaxItemQuantity \in Nat
  /\ Ordered \in [Orders -> [Variants -> 0..MaxItemQuantity]]
ASSUME StockAssumption ==
  /\ MaxStock \in Nat
  /\ RestockAmounts \subseteq Nat \ {0}
  /\ InitialStock \in [Variants -> 0..MaxStock]

VARIABLES
  status,     \* Order.status
  live,       \* the variants the catalog still has
  quantity,   \* Stock.quantity: units on the shelf
  reserved,   \* Stock.reserved_quantity: units of them promised to orders
  movements,  \* StockMovement rows of orders: RESERVE, RELEASE and OUT
  supplied    \* net effect of the IN and ADJUSTMENT movements of a stock

vars == <<status, live, quantity, reserved, movements, supplied>>
stockVars == <<quantity, reserved, movements, supplied>>

Statuses ==
  {"PENDING", "CONFIRMED", "PROCESSING", "SHIPPED", "DELIVERED", "CANCELLED"}

OrderStatusTransitions ==
  [PENDING    |-> {"CONFIRMED", "CANCELLED"},
   CONFIRMED  |-> {"PROCESSING", "CANCELLED"},
   PROCESSING |-> {"SHIPPED", "CANCELLED"},
   SHIPPED    |-> {"DELIVERED", "CANCELLED"},
   DELIVERED  |-> {},
   CANCELLED  |-> {}]

\* The statuses in which an order holds the stock of its items.
Holding == {"CONFIRMED", "PROCESSING", "SHIPPED"}

Kinds == {"RESERVE", "RELEASE", "OUT"}
Movements == [kind : Kinds, order : Orders, stock : Variants]

-----------------------------------------------------------------------------
\* Reading the tables.

Movement(k, o, v) == [kind |-> k, order |-> o, stock |-> v]
Entries(k, o, S) == {Movement(k, o, v) : v \in S}
Has(k, o, v) == Movement(k, o, v) \in movements

\* The items of o whose variant was not deleted (OrderItem.variant not null).
Lines(o) == {v \in live : Ordered[o][v] > 0}

HasReserve(o) == \E m \in movements : m.kind = "RESERVE" /\ m.order = o

\* Mutant: an order that is reserved already is reserved again.
ToReserveAgain(o) == Lines(o)

\* What reserve_stock books: nothing if the order has any RESERVE already.
ToReserve(o) == IF HasReserve(o) THEN {} ELSE Lines(o)

\* The stocks of the RESERVE movements of o that have no paired RELEASE and
\* no paired OUT: what release_stock and commit_stock process.
OpenReserves(o) ==
  {v \in Variants : /\ Has("RESERVE", o, v)
                    /\ ~Has("RELEASE", o, v)
                    /\ ~Has("OUT", o, v)}

Available(v) ==
  IF quantity[v] >= reserved[v] THEN quantity[v] - reserved[v] ELSE 0

Sufficient(o, S) == \A v \in S : Available(v) >= Ordered[o][v]

\* Units of order o that a change to the stocks S adds to stock v.
UnitsIn(o, S, v) == IF v \in S THEN Ordered[o][v] ELSE 0

\* The CHECK constraints of the Stock table: a violating UPDATE raises
\* IntegrityError and the transaction is rolled back.
StockChecks ==
  \A v \in Variants :
    /\ 0 <= reserved[v] /\ reserved[v] <= quantity[v]
    /\ quantity[v] <= MaxStock

-----------------------------------------------------------------------------
\* InventoryService: the part of a transaction that changes the stock.

\* Mutant: what is short is left out, the rest is reserved.
ReservePartly(o) ==
  LET S == {v \in ToReserve(o) : Available(v) >= Ordered[o][v]} IN
  /\ reserved' = [v \in Variants |-> reserved[v] + UnitsIn(o, S, v)]
  /\ movements' = movements \cup Entries("RESERVE", o, S)
  /\ UNCHANGED <<quantity, supplied>>

ReserveStock(o) ==
  LET S == ToReserve(o) IN
  /\ Sufficient(o, S)
  /\ reserved' = [v \in Variants |-> reserved[v] + UnitsIn(o, S, v)]
  /\ movements' = movements \cup Entries("RESERVE", o, S)
  /\ UNCHANGED <<quantity, supplied>>
  /\ StockChecks'

ReleaseStock(o) ==
  LET S == OpenReserves(o) IN
  /\ reserved' = [v \in Variants |-> reserved[v] - UnitsIn(o, S, v)]
  /\ movements' = movements \cup Entries("RELEASE", o, S)
  /\ UNCHANGED <<quantity, supplied>>
  /\ StockChecks'

\* Mutant: the shelf is forgotten.
CommitReserveOnly(o) ==
  LET S == OpenReserves(o) IN
  /\ reserved' = [v \in Variants |-> reserved[v] - UnitsIn(o, S, v)]
  /\ movements' = movements \cup Entries("OUT", o, S)
  /\ UNCHANGED <<quantity, supplied>>

CommitStock(o) ==
  LET S == OpenReserves(o) IN
  /\ reserved' = [v \in Variants |-> reserved[v] - UnitsIn(o, S, v)]
  /\ quantity' = [v \in Variants |-> quantity[v] - UnitsIn(o, S, v)]
  /\ movements' = movements \cup Entries("OUT", o, S)
  /\ UNCHANGED supplied
  /\ StockChecks'

\* reserve_stock and then commit_stock in one transaction.
ReserveAndCommit(o) ==
  LET S == Lines(o) IN
  /\ Sufficient(o, S)
  /\ quantity' = [v \in Variants |-> quantity[v] - UnitsIn(o, S, v)]
  /\ movements' = movements \cup Entries("RESERVE", o, S)
                            \cup Entries("OUT", o, S)
  /\ UNCHANGED <<reserved, supplied>>
  /\ StockChecks'

-----------------------------------------------------------------------------
\* The transactions.

\* OrderService.transition_status; confirm() is the case new = CONFIRMED.
TransitionStatus(o, new) ==
  /\ new # "CANCELLED"
  /\ new \in OrderStatusTransitions[status[o]]
  /\ status' = [status EXCEPT ![o] = new]
  /\ \/ new = "CONFIRMED" /\ ReserveStock(o)
     \/ new = "DELIVERED" /\ CommitStock(o)
     \/ new \in {"PROCESSING", "SHIPPED"} /\ UNCHANGED stockVars
  /\ UNCHANGED live

\* Mutant: the release is left out.
CancelWithoutRelease(o) ==
  /\ "CANCELLED" \in OrderStatusTransitions[status[o]]
  /\ status' = [status EXCEPT ![o] = "CANCELLED"]
  /\ UNCHANGED <<live, stockVars>>

\* OrderService.cancel, without its coupon and its refunds.
Cancel(o) ==
  /\ "CANCELLED" \in OrderStatusTransitions[status[o]]
  /\ status' = [status EXCEPT ![o] = "CANCELLED"]
  /\ ReleaseStock(o)
  /\ UNCHANGED live

\* Mutant: a delivered order without a RESERVE is taken for settled.
ReconcileReserved(o) ==
  /\ \/ status[o] \in Holding /\ ReserveStock(o)
     \/ status[o] = "CANCELLED" /\ ReleaseStock(o)
     \/ status[o] = "DELIVERED" /\ HasReserve(o) /\ CommitStock(o)
  /\ UNCHANGED <<status, live>>

\* InventoryService.reconcile_order: apply what the status asks for.
ReconcileOrder(o) ==
  /\ \/ status[o] \in Holding /\ ReserveStock(o)
     \/ status[o] = "CANCELLED" /\ ReleaseStock(o)
     \/ status[o] = "DELIVERED" /\ HasReserve(o) /\ CommitStock(o)
     \/ status[o] = "DELIVERED" /\ ~HasReserve(o) /\ ReserveAndCommit(o)
  /\ UNCHANGED <<status, live>>

Restock(v, n) ==
  /\ v \in live
  /\ quantity' = [quantity EXCEPT ![v] = @ + n]
  /\ supplied' = [supplied EXCEPT ![v] = @ + n]
  /\ UNCHANGED <<status, live, reserved, movements>>
  /\ StockChecks'

\* Mutant: the units promised to orders are not looked at.
AdjustFreely(v, n) ==
  /\ v \in live
  /\ quantity' = [quantity EXCEPT ![v] = n]
  /\ supplied' = [supplied EXCEPT ![v] = @ + (n - quantity[v])]
  /\ UNCHANGED <<status, live, reserved, movements>>

AdjustStock(v, n) ==
  /\ v \in live
  /\ n # quantity[v]
  /\ n < quantity[v] => n >= reserved[v]
  /\ quantity' = [quantity EXCEPT ![v] = n]
  /\ supplied' = [supplied EXCEPT ![v] = @ + (n - quantity[v])]
  /\ UNCHANGED <<status, live, reserved, movements>>
  /\ StockChecks'

\* CatalogService.delete_variant: the Stock row and its movements go with the
\* variant (CASCADE), the order items stay without it (SET_NULL).
DeleteVariant(v) ==
  /\ v \in live
  /\ live' = live \ {v}
  /\ quantity' = [quantity EXCEPT ![v] = 0]
  /\ reserved' = [reserved EXCEPT ![v] = 0]
  /\ supplied' = [supplied EXCEPT ![v] = 0]
  /\ movements' = {m \in movements : m.stock # v}
  /\ UNCHANGED status

Init ==
  /\ status = [o \in Orders |-> "PENDING"]
  /\ live = Variants
  /\ quantity = InitialStock
  /\ reserved = [v \in Variants |-> 0]
  /\ movements = {}
  /\ supplied = InitialStock

OrderNext(o) ==
  \/ \E new \in Statuses : TransitionStatus(o, new)
  \/ Cancel(o)
  \/ ReconcileOrder(o)

StockNext(v) ==
  \/ \E n \in RestockAmounts : Restock(v, n)
  \/ \E n \in 0..MaxStock : AdjustStock(v, n)
  \/ DeleteVariant(v)

Next ==
  \/ \E o \in Orders : OrderNext(o)
  \/ \E v \in Variants : StockNext(v)

Spec == Init /\ [][Next]_vars

\* Data written before an order's stock operation became part of the
\* transaction of its status (PROD-003): the status may have been committed
\* and the operation lost.  reconcile_order is there to repair such orders.
Behind ==
  [PENDING    |-> {{}},
   CONFIRMED  |-> {{}, {"RESERVE"}},
   PROCESSING |-> {{}, {"RESERVE"}},
   SHIPPED    |-> {{}, {"RESERVE"}},
   DELIVERED  |-> {{}, {"RESERVE"}, {"RESERVE", "OUT"}},
   CANCELLED  |-> {{}, {"RESERVE"}, {"RESERVE", "RELEASE"}}]

-----------------------------------------------------------------------------
\* Properties.

\* The units of the orders, so that a sum of item quantities is the size of a
\* set of units.
Units == Orders \X (1..MaxItemQuantity)

ReservedUnits(v) ==
  {u \in Units : v \in OpenReserves(u[1]) /\ u[2] <= Ordered[u[1]][v]}

ShippedUnits(v) ==
  {u \in Units : Has("OUT", u[1], v) /\ u[2] <= Ordered[u[1]][v]}

\* The kinds of movements that order o has for stock v.
KindsOf(o, v) == {k \in Kinds : Has(k, o, v)}

\* The movements of an item that each status of its order allows.
Booked ==
  [PENDING    |-> {{}},
   CONFIRMED  |-> {{"RESERVE"}},
   PROCESSING |-> {{"RESERVE"}},
   SHIPPED    |-> {{"RESERVE"}},
   DELIVERED  |-> {{"RESERVE", "OUT"}},
   CANCELLED  |-> {{}, {"RESERVE", "RELEASE"}}]

Agrees(o) == \A v \in Lines(o) : KindsOf(o, v) \in Booked[status[o]]

\* Every row has values of its columns' types.
TypeOK ==
  /\ status \in [Orders -> Statuses]
  /\ live \subseteq Variants
  /\ quantity \in [Variants -> Nat]
  /\ reserved \in [Variants -> Nat]
  /\ movements \subseteq Movements
  /\ supplied \in [Variants -> Int]

\* reserved_quantity, which reserve/release/commit change by increments, is
\* exactly the number of units in RESERVE movements still without a pair:
\* nothing is reserved, released or written off twice or lost
\* (inventory_service.py, the pairing of movements).
ReservedMatchesMovements ==
  \A v \in Variants : reserved[v] = Cardinality(ReservedUnits(v))

\* What is on the shelf plus what was shipped to customers is what came in:
\* the movement journal explains the quantity of every stock
\* (stock_movement.py: the journal lets the history be reconstructed).
QuantityMatchesMovements ==
  \A v \in Variants :
    quantity[v] + Cardinality(ShippedUnits(v)) = supplied[v]

\* The stock of an order follows its status: a confirmed order, and only such
\* an order, holds all its items, a delivered one has written all of them off,
\* a cancelled one holds nothing (order_service.py, the PROD-003 contract of
\* _handle_inventory_transition).
StatusMatchesMovements == \A o \in Orders : Agrees(o)

\* RELEASE and OUT are paired with a RESERVE, and never both with the same
\* one; there are no movements for a stock that is gone or an item that is
\* not in the order (release_stock and commit_stock exclude paired RESERVEs).
MovementsPaired ==
  \A o \in Orders, v \in Variants :
    /\ Has("RELEASE", o, v) \/ Has("OUT", o, v) => Has("RESERVE", o, v)
    /\ ~(Has("RELEASE", o, v) /\ Has("OUT", o, v))
    /\ Has("RESERVE", o, v) => v \in Lines(o)

\* A cancellation or a delivery is never refused by the CHECK constraints of
\* Stock: the counters always have room to undo or write off an open reserve
\* (order_service.py: a failed release_stock aborts cancel and its refunds).
UndoFitsChecks ==
  \A o \in Orders : \A v \in OpenReserves(o) :
    Ordered[o][v] <= reserved[v] /\ reserved[v] <= quantity[v]

-----------------------------------------------------------------------------
\* The promise to orders that the counters and the journal implement.

ClaimOf(o, v) ==
  CASE Has("OUT", o, v)       -> "shipped"
    [] Has("RELEASE", o, v)   -> "returned"
    [] v \in OpenReserves(o)  -> "held"
    [] OTHER                  -> "none"

Promise == INSTANCE StockClaims WITH
  listed <- live,
  onHand <- quantity,
  claim <- [o \in Orders |-> [v \in Variants |-> ClaimOf(o, v)]]

\* The warehouse keeps its promise: an item is claimed at most once, with the
\* other items of its order, within what the shelf covers beyond the claims
\* of all other orders, and every claim held can be shipped or given back.
KeepsPromise == Promise!Spec

-----------------------------------------------------------------------------
\* Reconciliation of data that disagrees.

LegacyInit ==
  /\ status \in [Orders -> Statuses]
  /\ live = Variants
  /\ \E booked \in [Orders -> SUBSET Kinds] :
       /\ \A o \in Orders : booked[o] \in Behind[status[o]]
       /\ movements = {m \in Movements : /\ m.kind \in booked[m.order]
                                         /\ Ordered[m.order][m.stock] > 0}
  /\ supplied = InitialStock
  /\ reserved = [v \in Variants |-> Cardinality(ReservedUnits(v))]
  /\ quantity = [v \in Variants |->
                   InitialStock[v] - Cardinality(ShippedUnits(v))]
  /\ StockChecks

\* The command reconcile_order_coordination is run again and again.
Reconciling == \A o \in Orders : WF_vars(ReconcileOrder(o))

LegacySpec == LegacyInit /\ [][Next]_vars /\ Reconciling

\* Reconciliation repairs every order for good, unless the stock it would
\* have to reserve is short again and again (reconcile_order).
Repaired ==
  \A o \in Orders : []<>~Sufficient(o, ToReserve(o)) \/ <>[]Agrees(o)

\* Once the movements of an order agree with its status no later step of any
\* order makes them disagree: reconciliation has not to be done twice.
AgreementKept ==
  [][\A o \in Orders : Agrees(o) => Agrees(o)']_vars
=============================================================================
