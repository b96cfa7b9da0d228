------------------------ MODULE PaymentCoordination ------------------------
(***************************************************************************)
(* Payments of orders: creation, webhooks of the provider, refunds, the    *)
(* refund obligation a failed refund leaves behind, and the two commands   *)
(* that repair payments.  PaymentService locks one Payment row and, to     *)
(* confirm the order, OrderService locks the Order row in a savepoint.     *)
(*                                                                         *)
(* A transaction that keeps both its locks until it commits is one action. *)
(* Three handlers are not so: create_payment reads the order without a     *)
(* lock; confirm_payment, when the order refuses to be confirmed, has      *)
(* released the Order row with the savepoint and then reads the status     *)
(* without a lock; and the webhook view closes a payment whose order is    *)
(* finished in a second transaction.  They are taken apart below.          *)
(*                                                                         *)
(* Abstractions.  Stock is a confirmation that may be refused (module      *)
(* OrderStock says when); a coupon is a lower total.  Payment events are   *)
(* an audit trail that no code reads, and are left out.                    *)
(***************************************************************************)
EXTENDS Integers, FiniteSets

CONSTANTS
  Orders,
  Payments,             \* rows that create_payment may insert
  PaymentOrder,         \* Payment.order
  FullTotal,            \* Order.total without a coupon
  DiscountedTotal,      \* Order.total with one
  PartialAmounts,       \* amounts below the full one that staff may refund
  PartialRefundMayFail  \* whether the settlement of such a refund may fail

ASSUME PaymentOrderAssumption == PaymentOrder \in [Payments -> Orders]
ASSUME AmountsAssumption ==
  /\ FullTotal \in Nat \ {0} /\ DiscountedTotal \in 1..FullTotal
  /\ PartialAmounts \subseteq Nat \ {0}
  /\ PartialRefundMayFail \in BOOLEAN

VARIABLES
  status,     \* Order.status
  total,      \* Order.total
  pstatus,    \* Payment.status, or "none" before the row exists
  amount,     \* Payment.amount
  refunded,   \* Payment.refund_amount
  required,   \* Payment.refund_required_amount: the total that must be refunded
  handler,    \* where the transaction is that holds the row of a payment
  creating,   \* payments whose create_payment has read the order
  closing,    \* payments whose webhook view is about to call fail_payment
  outcome,    \* what the provider did with the charge
  stale,      \* orders that cleanup_stale_orders has selected
  asked       \* refunds asked for so far, up to the amount of the payment

orderVars == <<status, total, stale>>
moneyVars == <<amount, refunded, required, asked>>
handlerVars == <<handler, creating, closing>>
vars == <<orderVars, pstatus, moneyVars, handlerVars, outcome>>

Statuses ==
  {"PENDING", "CONFIRMED", "PROCESSING", "SHIPPED", "DELIVERED", "CANCELLED"}

OrderStatusTransitions ==
  [PENDING    |-> {"CONFIRMED", "CANCELLED"},
   CONFIRMED  |-> {"PROCESSING", "CANCELLED"},
   PROCESSING |-> {"SHIPPED", "CANCELLED"},
   SHIPPED    |-> {"DELIVERED", "CANCELLED"},
   DELIVERED  |-> {},
   CANCELLED  |-> {}]

Finished == {"DELIVERED", "CANCELLED"}

PaymentStatuses ==
  {"PENDING", "PROCESSING", "SUCCEEDED", "FAILED", "CANCELLED", "REFUNDED"}

PaymentStatusTransitions ==
  [none       |-> {},
   PENDING    |-> {"PROCESSING", "SUCCEEDED", "FAILED", "CANCELLED"},
   PROCESSING |-> {"SUCCEEDED", "FAILED", "CANCELLED"},
   SUCCEEDED  |-> {"REFUNDED"},
   FAILED     |-> {},
   CANCELLED  |-> {},
   REFUNDED   |-> {}]

OrderOf(p) == PaymentOrder[p]
PaymentsOf(o) == {p \in Payments : PaymentOrder[p] = o}
Succeeded(o) == {p \in PaymentsOf(o) : pstatus[p] = "SUCCEEDED"}

\* The row of p can be locked: no transaction holds it.
Unlocked(p) == handler[p] = "free"

CanBecome(p, s) == Unlocked(p) /\ s \in PaymentStatusTransitions[pstatus[p]]

AtMost(m, n) == IF m <= n THEN m ELSE n
AtLeast(m, n) == IF m >= n THEN m ELSE n

-----------------------------------------------------------------------------
\* create_payment.  The order is read, without a lock, before the row is
\* inserted; payments that exist are looked up last.

ReadOrder(p) ==
  /\ pstatus[p] = "none" /\ p \notin creating
  /\ status[OrderOf(p)] = "PENDING"
  /\ amount' = [amount EXCEPT ![p] = total[OrderOf(p)]]
  /\ creating' = creating \cup {p}
  /\ UNCHANGED <<orderVars, pstatus, refunded, required, asked, handler, closing, outcome>>

InsertPayment(p) ==
  /\ p \in creating
  /\ Succeeded(OrderOf(p)) = {}
  /\ pstatus' = [pstatus EXCEPT ![p] = "PENDING"]
  /\ creating' = creating \ {p}
  /\ UNCHANGED <<orderVars, moneyVars, handler, closing, outcome>>

-----------------------------------------------------------------------------
\* The provider, and the webhooks it delivers any number of times.

Provider(p, result) ==
  /\ pstatus[p] # "none" /\ outcome[p] = "none"
  /\ outcome' = [outcome EXCEPT ![p] = result]
  /\ UNCHANGED <<orderVars, pstatus, moneyVars, handlerVars>>

\* process_payment: the payment was handed to the provider.
ProcessPayment(p) ==
  /\ Unlocked(p) /\ pstatus[p] = "PENDING"
  /\ pstatus' = [pstatus EXCEPT ![p] = "PROCESSING"]
  /\ UNCHANGED <<orderVars, moneyVars, handlerVars, outcome>>

\* confirm_payment up to OrderService.confirm, which moves the order on: both
\* rows stay locked and the transaction commits.
ConfirmPayment(p) ==
  /\ outcome[p] = "SUCCEEDED" /\ CanBecome(p, "SUCCEEDED")
  /\ status[OrderOf(p)] = "PENDING"
  /\ pstatus' = [pstatus EXCEPT ![p] = "SUCCEEDED"]
  /\ status' = [status EXCEPT ![OrderOf(p)] = "CONFIRMED"]
  /\ UNCHANGED <<total, stale, moneyVars, handlerVars, outcome>>

\* Mutant: any event of the provider is taken for a success.
AnyEventRefused(p) ==
  /\ CanBecome(p, "SUCCEEDED")
  /\ handler' = [handler EXCEPT ![p] = "refused"]
  /\ UNCHANGED <<orderVars, pstatus, moneyVars, creating, closing, outcome>>

\* ... which refuses: the order is not PENDING, or its stock is short.  The
\* savepoint is rolled back and the Order row is free again, the Payment row
\* is still held.
OrderRefuses(p) ==
  /\ outcome[p] = "SUCCEEDED" /\ CanBecome(p, "SUCCEEDED")
  /\ handler' = [handler EXCEPT ![p] = "refused"]
  /\ UNCHANGED <<orderVars, pstatus, moneyVars, creating, closing, outcome>>

\* Mutant: an order that stayed PENDING is taken for one that staff confirmed.
ReadStatusCarelessly(p) ==
  /\ handler[p] = "refused"
  /\ handler' = [handler EXCEPT ![p] = IF status[OrderOf(p)] \in Finished THEN "free" ELSE "keeping"]
  /\ closing' = IF status[OrderOf(p)] \in Finished THEN closing \cup {p} ELSE closing
  /\ UNCHANGED <<orderVars, pstatus, moneyVars, creating, outcome>>

\* _fresh_order_status, and what is decided by it: to keep SUCCEEDED, or to
\* roll back, and then to close the payment if the order is finished.
ReadFreshStatus(p) ==
  /\ handler[p] = "refused"
  /\ LET s == status[OrderOf(p)] IN
       \/ /\ s \notin Finished \cup {"PENDING"}
          /\ handler' = [handler EXCEPT ![p] = "keeping"]
          /\ UNCHANGED closing
       \/ /\ s = "PENDING"
          /\ handler' = [handler EXCEPT ![p] = "free"]
          /\ UNCHANGED closing
       \/ /\ s \in Finished
          /\ handler' = [handler EXCEPT ![p] = "free"]
          /\ closing' = closing \cup {p}
  /\ UNCHANGED <<orderVars, pstatus, moneyVars, creating, outcome>>

KeepPayment(p) ==
  /\ handler[p] = "keeping"
  /\ pstatus' = [pstatus EXCEPT ![p] = "SUCCEEDED"]
  /\ handler' = [handler EXCEPT ![p] = "free"]
  /\ UNCHANGED <<orderVars, moneyVars, creating, closing, outcome>>

\* Mutant: the view answers, and leaves the payment as it is.
AnswerOnly(p) ==
  /\ p \in closing
  /\ closing' = closing \ {p}
  /\ UNCHANGED <<orderVars, pstatus, moneyVars, handler, creating, outcome>>

\* The view, after OrderConfirmationError for a finished order.
ClosePayment(p) ==
  /\ p \in closing
  /\ Unlocked(p)
  /\ closing' = closing \ {p}
  /\ pstatus' = IF "FAILED" \in PaymentStatusTransitions[pstatus[p]]
                  THEN [pstatus EXCEPT ![p] = "FAILED"] ELSE pstatus
  /\ UNCHANGED <<orderVars, moneyVars, handler, creating, outcome>>

\* The process dies, or the database fails, inside any of these handlers.
Crash(p) ==
  /\ ~Unlocked(p) \/ p \in creating \/ p \in closing
  /\ handler' = [handler EXCEPT ![p] = "free"]
  /\ creating' = creating \ {p}
  /\ closing' = closing \ {p}
  /\ UNCHANGED <<orderVars, pstatus, moneyVars, outcome>>

\* A webhook for a payment that already succeeded confirms an order that is
\* still PENDING (_reconcile_order_confirmation).
ReconfirmOrder(p) ==
  /\ Unlocked(p) /\ pstatus[p] = "SUCCEEDED"
  /\ status[OrderOf(p)] = "PENDING"
  /\ status' = [status EXCEPT ![OrderOf(p)] = "CONFIRMED"]
  /\ UNCHANGED <<total, stale, pstatus, moneyVars, handlerVars, outcome>>

FailPayment(p) ==
  /\ outcome[p] = "FAILED" /\ CanBecome(p, "FAILED")
  /\ pstatus' = [pstatus EXCEPT ![p] = "FAILED"]
  /\ UNCHANGED <<orderVars, moneyVars, handlerVars, outcome>>

\* cancel_payment, for the customer, the provider or cleanup_stale_payments.
CancelPayment(p) ==
  /\ CanBecome(p, "CANCELLED")
  /\ pstatus' = [pstatus EXCEPT ![p] = "CANCELLED"]
  /\ UNCHANGED <<orderVars, moneyVars, handlerVars, outcome>>

-----------------------------------------------------------------------------
\* Refunds.

\* _settle_refund: n more units of p are paid back.
Settle(p, n) ==
  /\ refunded' = [refunded EXCEPT ![p] = @ + n]
  /\ pstatus' = IF refunded[p] + n >= amount[p]
                  THEN [pstatus EXCEPT ![p] = "REFUNDED"] ELSE pstatus

Ask(p, n) == [asked EXCEPT ![p] = AtMost(@ + n, amount[p])]

\* Mutant: a failed refund of a part is recorded as one of the whole.
RefundOwesAll(p, n) ==
  /\ Unlocked(p) /\ pstatus[p] = "SUCCEEDED"
  /\ refunded[p] + n <= amount[p]
  /\ asked' = Ask(p, n)
  /\ required' = [required EXCEPT ![p] = amount[p]]
  /\ UNCHANGED <<orderVars, pstatus, amount, refunded, handlerVars, outcome>>

\* refund_payment for staff.  If the settlement fails, what it should have
\* brought the refunds to is what is required from now on.
RefundPayment(p, n) ==
  /\ Unlocked(p) /\ pstatus[p] = "SUCCEEDED"
  /\ refunded[p] + n <= amount[p]
  /\ asked' = Ask(p, n)
  /\ \/ Settle(p, n) /\ UNCHANGED required
     \/ /\ PartialRefundMayFail \/ n = amount[p]
        /\ required' = [required EXCEPT ![p] = AtLeast(@, refunded[p] + n)]
        /\ UNCHANGED <<pstatus, refunded>>
  /\ UNCHANGED <<orderVars, amount, handlerVars, outcome>>

\* retry_pending_refunds, for one payment; a failure changes nothing.
RetryRefund(p) ==
  /\ Unlocked(p) /\ pstatus[p] = "SUCCEEDED"
  /\ required[p] > refunded[p]
  /\ Settle(p, required[p] - refunded[p])
  /\ UNCHANGED <<orderVars, amount, required, asked, handlerVars, outcome>>

\* The obligation of p once _record_refund_obligation, or its durable twin,
\* has run: the whole amount, unless it takes the one there is for enough.
Obligation(p) ==
  IF required[p] >= amount[p] - refunded[p] THEN required[p] ELSE amount[p]

\* record_refund_failure, for a payment of a cancelled order.
RecordRefundFailure(p) ==
  /\ Unlocked(p) /\ pstatus[p] = "SUCCEEDED"
  /\ status[OrderOf(p)] = "CANCELLED"
  /\ required' = [required EXCEPT ![p] = Obligation(p)]
  /\ asked' = Ask(p, amount[p])
  /\ UNCHANGED <<orderVars, pstatus, amount, refunded, handlerVars, outcome>>

\* reconcile_succeeded_payment.
ReconcileSucceeded(p) == ReconfirmOrder(p) \/ RecordRefundFailure(p)

\* Mutant: cancelled orders are taken for done.
StatusesNotCancelled == {"CONFIRMED", "PROCESSING", "SHIPPED", "DELIVERED"}

\* The orders that reconcile_order_coordination selects, run for all orders.
ReconcileStatuses ==
  {"CONFIRMED", "PROCESSING", "SHIPPED", "DELIVERED", "CANCELLED"}

ReconcileAll(p) ==
  status[OrderOf(p)] \in ReconcileStatuses /\ ReconcileSucceeded(p)

-----------------------------------------------------------------------------
\* Orders.

\* transition_status by staff or by a shipment.
TransitionStatus(o, new) ==
  /\ new # "CANCELLED" /\ new \in OrderStatusTransitions[status[o]]
  /\ status' = [status EXCEPT ![o] = new]
  /\ UNCHANGED <<total, stale, pstatus, moneyVars, handlerVars, outcome>>

\* apply_coupon and remove_coupon.
ChangeCoupon(o, t) ==
  /\ status[o] = "PENDING" /\ t # total[o]
  /\ total' = [total EXCEPT ![o] = t]
  /\ UNCHANGED <<status, stale, pstatus, moneyVars, handlerVars, outcome>>

\* What becomes of a payment that cancel refunds: the refund is settled, its
\* settlement fails, or refund_payment raises (always so once a part was
\* refunded, the full amount being too much) and the obligation is written
\* through a connection of its own, or that fails too.
Refunds(P) ==
  {r \in [P -> {"settled", "failed", "recorded", "lost"}] :
     \A p \in P : r[p] \in {"settled", "failed"} => refunded[p] = 0}

RequiredAfter(r, p) ==
  CASE r[p] = "failed"   -> AtLeast(required[p], amount[p])
    [] r[p] = "recorded" -> Obligation(p)
    [] OTHER             -> required[p]

Update(f, P, g(_)) == [p \in Payments |-> IF p \in P THEN g(p) ELSE f[p]]

\* OrderService.cancel, with the refunds of the payments that have succeeded
\* by then.
CancelOrder(o) ==
  /\ "CANCELLED" \in OrderStatusTransitions[status[o]]
  /\ status' = [status EXCEPT ![o] = "CANCELLED"]
  /\ total' = IF status[o] = "PENDING" THEN [total EXCEPT ![o] = FullTotal] ELSE total
  /\ \E r \in Refunds(Succeeded(o)) :
       LET settled == {p \in Succeeded(o) : r[p] = "settled"} IN
       /\ refunded' = Update(refunded, settled, LAMBDA p : amount[p])
       /\ pstatus' = Update(pstatus, settled, LAMBDA p : "REFUNDED")
       /\ required' = Update(required, Succeeded(o), LAMBDA p : RequiredAfter(r, p))
  /\ asked' = Update(asked, Succeeded(o), LAMBDA p : amount[p])
  /\ UNCHANGED <<amount, handlerVars, outcome>>

\* cancel for the customer or for staff.
Cancel(o) == CancelOrder(o) /\ UNCHANGED stale

\* cleanup_stale_orders selects PENDING orders and then cancels one after the
\* other.
SelectStale(o) ==
  /\ status[o] = "PENDING" /\ o \notin stale
  /\ stale' = stale \cup {o}
  /\ UNCHANGED <<status, total, pstatus, moneyVars, handlerVars, outcome>>

CleanUp(o) ==
  /\ o \in stale
  /\ stale' = stale \ {o}
  /\ \/ CancelOrder(o)
     \/ /\ status[o] \in Finished
        /\ UNCHANGED <<status, total, pstatus, moneyVars, handlerVars, outcome>>

\* cancel fails after an obligation was written: the order stays as it was,
\* the obligation survives.
CancelRolledBack(o) ==
  /\ "CANCELLED" \in OrderStatusTransitions[status[o]]
  /\ \E p \in Succeeded(o) :
       /\ required' = [required EXCEPT ![p] = Obligation(p)]
       /\ asked' = Ask(p, amount[p])
  /\ UNCHANGED <<orderVars, pstatus, amount, refunded, handlerVars, outcome>>

-----------------------------------------------------------------------------
Init ==
  /\ status = [o \in Orders |-> "PENDING"]
  /\ total = [o \in Orders |-> FullTotal]
  /\ pstatus = [p \in Payments |-> "none"]
  /\ amount = [p \in Payments |-> 0]
  /\ refunded = [p \in Payments |-> 0]
  /\ required = [p \in Payments |-> 0]
  /\ handler = [p \in Payments |-> "free"]
  /\ creating = {} /\ closing = {}
  /\ outcome = [p \in Payments |-> "none"]
  /\ asked = [p \in Payments |-> 0]
  /\ stale = {}

\* Rows from before PROD-003: a payment may have succeeded while its order
\* stayed PENDING, or was cancelled without an obligation being recorded.
LegacyInit ==
  /\ status \in [Orders -> {"PENDING", "CONFIRMED", "CANCELLED"}]
  /\ total = [o \in Orders |-> FullTotal]
  /\ pstatus \in [Payments -> {"none", "PENDING", "SUCCEEDED"}]
  /\ amount = [p \in Payments |-> IF pstatus[p] = "none" THEN 0 ELSE FullTotal]
  /\ refunded = [p \in Payments |-> 0]
  /\ required = [p \in Payments |-> 0]
  /\ handler = [p \in Payments |-> "free"]
  /\ creating = {} /\ closing = {}
  /\ outcome = [p \in Payments |->
                  IF pstatus[p] = "SUCCEEDED" THEN "SUCCEEDED" ELSE "none"]
  /\ asked = [p \in Payments |-> 0]
  /\ stale = {}

Webhook(p) ==
  \/ ConfirmPayment(p) \/ OrderRefuses(p) \/ ReadFreshStatus(p)
  \/ KeepPayment(p) \/ ClosePayment(p) \/ ReconfirmOrder(p) \/ FailPayment(p)

PaymentNext(p) ==
  \/ ReadOrder(p) \/ InsertPayment(p) \/ ProcessPayment(p)
  \/ \E result \in {"SUCCEEDED", "FAILED", "CANCELLED"} : Provider(p, result)
  \/ Webhook(p) \/ Crash(p) \/ CancelPayment(p)
  \/ \E n \in PartialAmounts \cup {amount[p]} : RefundPayment(p, n)
  \/ RetryRefund(p) \/ ReconcileSucceeded(p)

OrderNext(o) ==
  \/ \E new \in Statuses : TransitionStatus(o, new)
  \/ \E t \in {FullTotal, DiscountedTotal} : ChangeCoupon(o, t)
  \/ Cancel(o) \/ CancelRolledBack(o)
  \/ SelectStale(o) \/ CleanUp(o)

Next ==
  \/ \E p \in Payments : PaymentNext(p)
  \/ \E o \in Orders : OrderNext(o)

Spec == Init /\ [][Next]_vars

-----------------------------------------------------------------------------
\* Safety.

\* Every row has values of its columns' types, and handlers are where they
\* can be.
TypeOK ==
  /\ status \in [Orders -> Statuses]
  /\ total \in [Orders -> {FullTotal, DiscountedTotal}]
  /\ pstatus \in [Payments -> PaymentStatuses \cup {"none"}]
  /\ \A f \in {amount, refunded, required, asked} : f \in [Payments -> 0..FullTotal]
  /\ handler \in [Payments -> {"free", "refused", "keeping"}]
  /\ creating \subseteq Payments /\ closing \subseteq Payments /\ stale \subseteq Orders
  /\ outcome \in [Payments -> {"none", "SUCCEEDED", "FAILED", "CANCELLED"}]

\* A payment never succeeds while its order stays unpaid: the money state does
\* not run ahead of the order (ARCHITECTURE.md:776, confirm_payment).
NoPaidPendingOrder ==
  \A o \in Orders : status[o] = "PENDING" => Succeeded(o) = {}

\* Nothing is paid back, or owed, that neither staff nor a cancellation asked
\* for: retries and repeated obligations do not add up to more, nor to more
\* than the payment; and a payment is REFUNDED exactly when all of it was paid
\* back, whatever mix of partial refunds, retries and cancellations paid it.
RefundsWereAsked ==
  \A p \in Payments :
    /\ refunded[p] <= asked[p] /\ required[p] <= asked[p] /\ asked[p] <= amount[p]
    /\ pstatus[p] = "REFUNDED" <=> refunded[p] = amount[p] /\ pstatus[p] # "none"

\* The provider charged the customer if a payment has succeeded, and a
\* payment that the provider did not charge is never refunded.
OnlyChargesRefunded ==
  \A p \in Payments :
    pstatus[p] \in {"SUCCEEDED", "REFUNDED"} => outcome[p] = "SUCCEEDED"

-----------------------------------------------------------------------------
\* Liveness.

\* The provider repeats a webhook until it is answered with 200, and the
\* database, the stock and the process do not fail for ever.
WebhooksDelivered ==
  \A p \in Payments :
    /\ SF_vars(ConfirmPayment(p))
    /\ SF_vars(OrderRefuses(p) /\ status[OrderOf(p)] # "PENDING")
    /\ SF_vars(ReadFreshStatus(p))
    /\ SF_vars(KeepPayment(p))
    /\ SF_vars(ClosePayment(p))

\* The commands retry_pending_refunds and reconcile_order_coordination are run
\* again and again, and a refund does not fail for ever.
CommandsRun ==
  \A p \in Payments :
    /\ WF_vars(ReconcileAll(p))
    /\ SF_vars(RetryRefund(p))

FairSpec == Spec /\ WebhooksDelivered /\ CommandsRun

\* The same from data that PROD-003 has not touched yet.
HealingSpec ==
  (Init \/ LegacyInit) /\ [][Next]_vars /\ WebhooksDelivered /\ CommandsRun

\* A charge is eventually accounted for: its payment does not stay PENDING or
\* PROCESSING, whoever else confirms, delivers or cancels the order meanwhile.
ChargeIsSettled ==
  \A p \in Payments :
    outcome[p] = "SUCCEEDED" ~> pstatus[p] \notin {"PENDING", "PROCESSING"}

\* The money of a cancelled order is paid back in full, whatever failed when
\* the order was cancelled and whatever was refunded before: the "silent
\* refund loss on cancellation" of ARCHITECTURE.md:775 cannot happen.
CancelledIsRefunded ==
  \A p \in Payments :
    (pstatus[p] = "SUCCEEDED" /\ status[OrderOf(p)] = "CANCELLED")
      ~> pstatus[p] = "REFUNDED"

-----------------------------------------------------------------------------
\* What the code's documents say and the code does not do.

\* payment_service.py:354 "the order is finished already: SUCCEEDED would be
\* inconsistent": no payment becomes SUCCEEDED once its order is finished.
NoSuccessAfterFinish ==
  [][\A p \in Payments :
       pstatus[p] # "SUCCEEDED" /\ pstatus'[p] = "SUCCEEDED"
         => status[OrderOf(p)] \notin Finished]_vars
=============================================================================
