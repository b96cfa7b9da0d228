---------------------------- MODULE PublicNumbers ----------------------------
(***************************************************************************)
(* The numbers by which customers refer to orders, payments and shipments. *)
(*                                                                         *)
(* An order and a shipment take their number of a sequence of PostgreSQL,  *)
(* which no ROLLBACK turns back; a payment, and the internal tracking      *)
(* number of a shipment, take the largest one of the table and one more,   *)
(* and fail on UNIQUE if another transaction had the same idea.            *)
(*                                                                         *)
(* Abstractions.  A number is a number; its prefix is the kind of row it   *)
(* belongs to.  Old rows have the same primary key as number, new ones     *)
(* one of a single counter.                                                *)
(***************************************************************************)
EXTENDS Integers, FiniteSets, FiniteSetsExt

CONSTANTS
  Requests, \* requests that may be in flight at the same time
  MaxOld,   \* bound: rows of a kind there were before the sequences
  MaxKey,   \* bound: the last primary key given out
  MaxValue  \* bound: the last value taken of a sequence

VARIABLES
  table,     \* Order, Payment and Shipment rows
  lastValue, \* last_value of the two sequences
  inserting, \* what the requests insert
  lastKey,   \* the last primary key given out
  told       \* history: which row a number was said to belong to

numberVars == <<table, lastValue, inserting, lastKey, told>>

Idle == [step |-> "idle"]
NoTracking == 0
NoOrder == 0

Row(kind, pk, order, number, tracking) ==
  [kind |-> kind, pk |-> pk, order |-> order, number |-> number, tracking |-> tracking]

Of(kind) == {row \in table : row.kind = kind}
Numbers(rows) == {row.number : row \in rows}
Trackings == {row.tracking : row \in Of("shipment")}

-----------------------------------------------------------------------------
\* _get_order, _get_payment, _get_shipment: only numbers of that kind.
ByNumber(kind, number) == {row \in Of(kind) : row.number = number}

\* order_reference_filters: the number of an order, or still its primary key.
OrdersBy(by, row) ==
  IF by = "order_number" THEN ByNumber("order", row.number)
  ELSE {other \in Of("order") : other.pk = row.pk}

\* get_shipment_by_order.
ShipmentsOf(order) == {row \in Of("shipment") : row.order = order}

-----------------------------------------------------------------------------
\* The largest number and one more: Payment.save, and Shipment.save for the
\* internal tracking number.
AfterLargest(numbers) == Max(numbers \cup {0}) + 1

\* Mutant: numbers of orders and shipments as they were made before.
LargestAndOne(kind) == AfterLargest(Numbers(Of(kind)))

\* nextval(): allocate_order_number, allocate_shipment_number.
NextValue(kind) == lastValue[kind] + 1

Take(r, kind, row) ==
  /\ inserting[r] = Idle
  /\ \A k \in DOMAIN lastValue : NextValue(k) <= MaxValue
  /\ lastValue' = [k \in DOMAIN lastValue |-> IF k = kind THEN NextValue(k) ELSE lastValue[k]]
  /\ inserting' = [inserting EXCEPT ![r] = [step |-> "numbered", row |-> row]]
  /\ UNCHANGED <<table, lastKey, told>>

\* Order.save, of a new order.
NumberOrder(r) == Take(r, "order", Row("order", 0, NoOrder, NextValue("order"), NoTracking))

\* create_payment, for an order that the customer has been told of.
NumberPayment(r, by, of) ==
  \E order \in OrdersBy(by, of) :
    Take(r, "payment",
         Row("payment", 0, order.pk, AfterLargest(Numbers(Of("payment"))), NoTracking))

\* create_shipment and Shipment.save.
NumberShipment(r, by, of) ==
  \E order \in OrdersBy(by, of) :
    /\ ShipmentsOf(order.pk) = {}
    /\ Take(r, "shipment",
            Row("shipment", 0, order.pk, NextValue("shipment"), AfterLargest(Trackings)))

\* UNIQUE and foreign keys of the three tables.
Fits(row) ==
  /\ ByNumber(row.kind, row.number) = {}
  /\ row.kind # "order" => \E order \in Of("order") : order.pk = row.order
  /\ row.kind = "shipment" => ShipmentsOf(row.order) = {} /\ row.tracking \notin Trackings

\* INSERT, COMMIT and the answer.
Insert(r) ==
  LET row == [inserting[r].row EXCEPT !.pk = lastKey + 1]
  IN /\ inserting[r] # Idle /\ lastKey < MaxKey
     /\ Fits(row)
     /\ table' = table \cup {row} /\ told' = told \cup {row}
     /\ lastKey' = lastKey + 1
     /\ inserting' = [inserting EXCEPT ![r] = Idle]
     /\ UNCHANGED lastValue

\* It does not fit, or fails for another reason: the number is lost.
Rollback(r) ==
  /\ inserting[r] # Idle
  /\ inserting' = [inserting EXCEPT ![r] = Idle]
  /\ UNCHANGED <<table, lastValue, lastKey, told>>

\* The admin: payments are never deleted and protect their order, a shipment
\* goes with its order.
Delete(row) ==
  /\ row.kind # "payment"
  /\ row.kind = "order" => \A payment \in Of("payment") : payment.order # row.pk
  /\ table' = table \ ({row} \cup IF row.kind = "order" THEN ShipmentsOf(row.pk) ELSE {})
  /\ UNCHANGED <<lastValue, inserting, lastKey, told>>

-----------------------------------------------------------------------------
\* The migrations: the sequence of the orders goes on after the largest number
\* there is, that of the shipments after those which they are given now, in the
\* order of their keys.  With no row there is nothing to go on after.
SetSequence(rows) == Max(Numbers(rows) \cup {0})

OldOrders(numbers) == {Row("order", n, NoOrder, n, NoTracking) : n \in numbers}

\* Payments were never deleted, and shipments are numbered now.
Rank(n, numbers) == Cardinality({m \in numbers : m <= n})
OldPayments(orders) == {Row("payment", o, o, Rank(o, orders), NoTracking) : o \in orders}
Backfilled(orders) == {Row("shipment", o, o, Rank(o, orders), o) : o \in orders}

Migrate(numbers, paid, shipped) ==
  /\ table' = OldOrders(numbers) \cup OldPayments(paid) \cup Backfilled(shipped)
  /\ lastValue' = [order |-> SetSequence(OldOrders(numbers)),
                   shipment |-> SetSequence(Backfilled(shipped))]
  /\ lastKey' = MaxOld /\ told' = table'
  /\ UNCHANGED inserting

\* No key was given out yet by the code that takes numbers of sequences.
Init ==
  /\ table = {} /\ told = {} /\ lastKey = 0
  /\ lastValue = [order |-> 0, shipment |-> 0]
  /\ inserting = [r \in Requests |-> Idle]

Serve ==
  \/ \E r \in Requests :
       \/ NumberOrder(r) \/ Insert(r) \/ Rollback(r)
       \/ \E by \in {"order_number", "order_id"}, of \in {row \in told : row.kind = "order"} :
            NumberPayment(r, by, of) \/ NumberShipment(r, by, of)
  \/ \E row \in table : Delete(row)

Next ==
  \/ /\ lastKey = 0
     /\ \E numbers \in SUBSET (1..MaxOld) :
          \E paid \in SUBSET numbers, shipped \in SUBSET numbers : Migrate(numbers, paid, shipped)
  \/ lastKey > 0 /\ Serve

Spec == Init /\ [][Next]_numberVars

-----------------------------------------------------------------------------
\* A number that someone was told never comes to mean another order, payment
\* or shipment, also when rows are deleted and transactions are rolled back;
\* and the insertion of an order or a shipment never meets its number in the
\* table, neither from before the sequences nor from a transaction that was
\* faster (allocate_order_number: no retry is needed).
NumbersIdentify ==
  /\ \A row \in told : ByNumber(row.kind, row.number) \subseteq {row}
  /\ \A r \in Requests :
       inserting[r] # Idle =>
         LET row == inserting[r].row
         IN row.kind # "payment" =>
              \A old \in told : old.kind = row.kind => old.number # row.number
=============================================================================
