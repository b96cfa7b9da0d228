--------------------------- MODULE PaymentProofs ---------------------------
(***************************************************************************)
(* Theorems about PaymentCoordination, for any orders, payments, amounts   *)
(* and any number of attempts to pay an order.                             *)
(*                                                                         *)
(* They are proved in three layers, each inductive given the ones below:   *)
(* the types; what is true of a payment whose row or whose order has been  *)
(* read by a transaction that is not finished (Handled), with what it      *)
(* keeps apart from the orders (NoPaidPendingOrder); and the amounts.      *)
(***************************************************************************)
EXTENDS PaymentCoordination, TLAPS

\* What a transaction relies on between two of its steps.  A row is held only
\* while the payment is open and the provider has charged it, and what
\* _fresh_order_status has read stays true, for no order becomes PENDING
\* again; create_payment, which holds nothing, inserts a row that is not there
\* yet, of a positive amount.
Handled ==
  \A p \in Payments :
    /\ handler[p] # "free" =>
         /\ pstatus[p] \in {"PENDING", "PROCESSING"}
         /\ outcome[p] = "SUCCEEDED"
    /\ handler[p] = "keeping" => status[OrderOf(p)] # "PENDING"
    /\ p \in creating => pstatus[p] = "none"
    /\ p \in creating \/ pstatus[p] # "none" => amount[p] > 0

\* A payment that does not exist has no refunds and was not charged.
NothingBefore ==
  \A p \in Payments :
    pstatus[p] = "none" =>
      refunded[p] = 0 /\ required[p] = 0 /\ asked[p] = 0 /\ outcome[p] = "none"

CoordinationInv ==
  /\ TypeOK /\ Handled /\ NothingBefore
  /\ NoPaidPendingOrder /\ OnlyChargesRefunded

IInv == CoordinationInv /\ RefundsWereAsked

-----------------------------------------------------------------------------
\* Types.

LEMMA TypesInit == Init => TypeOK
BY AmountsAssumption DEF Init, TypeOK, Statuses

\* A refund that is asked for, settled or owed stays within the column.
LEMMA RefundTypes ==
  ASSUME TypeOK, NEW p \in Payments,
         \/ \E n \in PartialAmounts \cup {amount[p]} : RefundPayment(p, n)
         \/ RetryRefund(p) \/ RecordRefundFailure(p)
  PROVE  TypeOK'
<1>1. CASE \E n \in PartialAmounts \cup {amount[p]} : RefundPayment(p, n)
  BY <1>1, AmountsAssumption
  DEF RefundPayment, Settle, Ask, AtMost, AtLeast, orderVars, handlerVars, TypeOK, PaymentStatuses
<1>2. CASE RetryRefund(p)
  BY <1>2, AmountsAssumption
  DEF RetryRefund, Settle, orderVars, handlerVars, TypeOK, PaymentStatuses
<1>3. CASE RecordRefundFailure(p)
  BY <1>3, AmountsAssumption
  DEF RecordRefundFailure, Obligation, Ask, AtMost, orderVars, handlerVars, TypeOK
<1> QED BY <1>1, <1>2, <1>3

\* The steps of a payment that is not refunded leave the amounts alone, but
\* for the one that create_payment has read.
LEMMA PaymentTypes ==
  ASSUME TypeOK, NEW p \in Payments, PaymentNext(p)
  PROVE  TypeOK'
<1> USE AmountsAssumption, PaymentOrderAssumption
    DEF TypeOK, orderVars, moneyVars, handlerVars, PaymentStatuses, OrderOf
<1>1. CASE ReadOrder(p)
  BY <1>1 DEF ReadOrder
<1>2. CASE InsertPayment(p) \/ ProcessPayment(p) \/ CancelPayment(p) \/ FailPayment(p)
  BY <1>2 DEF InsertPayment, ProcessPayment, CancelPayment, FailPayment
<1>3. ASSUME NEW result \in {"SUCCEEDED", "FAILED", "CANCELLED"}, Provider(p, result)
      PROVE  TypeOK'
  BY <1>3 DEF Provider
<1>4. CASE ConfirmPayment(p) \/ ReconfirmOrder(p)
  BY <1>4 DEF ConfirmPayment, ReconfirmOrder, Statuses
<1>5. CASE OrderRefuses(p) \/ ReadFreshStatus(p) \/ KeepPayment(p)
  BY <1>5 DEF OrderRefuses, ReadFreshStatus, KeepPayment
<1>6. CASE ClosePayment(p) \/ Crash(p)
  BY <1>6 DEF ClosePayment, Crash
<1> QED BY <1>1, <1>2, <1>3, <1>4, <1>5, <1>6, RefundTypes
        DEF PaymentNext, Webhook, ReconcileSucceeded

\* cancel writes the columns of several payments at once.
LEMMA CancelTypes ==
  ASSUME TypeOK, NEW o \in Orders, CancelOrder(o), stale' \subseteq Orders
  PROVE  TypeOK'
<1> USE AmountsAssumption DEF TypeOK
<1>1. PICK r \in Refunds(Succeeded(o)) :
        LET settled == {p \in Succeeded(o) : r[p] = "settled"} IN
        /\ refunded' = Update(refunded, settled, LAMBDA p : amount[p])
        /\ pstatus' = Update(pstatus, settled, LAMBDA p : "REFUNDED")
        /\ required' = Update(required, Succeeded(o), LAMBDA p : RequiredAfter(r, p))
  BY DEF CancelOrder
<1>2. \A p \in Payments : RequiredAfter(r, p) \in 0..FullTotal
  BY DEF RequiredAfter, Obligation, AtLeast
<1>3. required' \in [Payments -> 0..FullTotal]
  BY <1>1, <1>2 DEF Update
<1>4. refunded' \in [Payments -> 0..FullTotal] /\ asked' \in [Payments -> 0..FullTotal]
  BY <1>1 DEF Update, CancelOrder
<1>5. pstatus' \in [Payments -> PaymentStatuses \cup {"none"}]
  BY <1>1 DEF Update, PaymentStatuses
<1> QED BY <1>3, <1>4, <1>5 DEF CancelOrder, handlerVars, Statuses

LEMMA OrderTypes ==
  ASSUME TypeOK, NEW o \in Orders, OrderNext(o)
  PROVE  TypeOK'
<1> USE AmountsAssumption DEF TypeOK, orderVars, moneyVars, handlerVars
<1>1. ASSUME NEW new \in Statuses, TransitionStatus(o, new)
      PROVE  TypeOK'
  BY <1>1 DEF TransitionStatus
<1>2. ASSUME NEW t \in {FullTotal, DiscountedTotal}, ChangeCoupon(o, t)
      PROVE  TypeOK'
  BY <1>2 DEF ChangeCoupon
<1>3. CASE Cancel(o)
  BY <1>3, CancelTypes DEF Cancel
<1>4. CASE CancelRolledBack(o)
  BY <1>4 DEF CancelRolledBack, Obligation, Ask, AtMost, Succeeded, PaymentsOf
<1>5. CASE SelectStale(o)
  BY <1>5 DEF SelectStale
<1>6. CASE CleanUp(o)
  BY <1>6, CancelTypes DEF CleanUp
<1> QED BY <1>1, <1>2, <1>3, <1>4, <1>5, <1>6 DEF OrderNext

\* The columns and the handlers of every reachable state have their types.
THEOREM TypeCorrect == Spec => []TypeOK
<1>1. TypeOK /\ [Next]_vars => TypeOK'
  <2> SUFFICES ASSUME TypeOK, [Next]_vars PROVE TypeOK'
    OBVIOUS
  <2>1. CASE UNCHANGED vars
    BY <2>1 DEF vars, orderVars, moneyVars, handlerVars, TypeOK
  <2> QED BY <2>1, PaymentTypes, OrderTypes DEF Next
<1> QED BY <1>1, TypesInit, PTL DEF Spec

-----------------------------------------------------------------------------
\* Transactions and orders.

LEMMA CoordinationInit == Init => CoordinationInv
BY TypesInit
DEF Init, CoordinationInv, Handled, NothingBefore, NoPaidPendingOrder,
    OnlyChargesRefunded, Succeeded, PaymentsOf

\* What a step of one payment has to respect: it leaves the orders alone, or
\* confirms the order of the payment, and the rows of the other payments keep
\* their state.
LEMMA PaymentStepKept ==
  ASSUME CoordinationInv, NEW p \in Payments, PaymentNext(p)
  PROVE  CoordinationInv'
<1> USE AmountsAssumption, PaymentOrderAssumption
    DEF CoordinationInv, TypeOK, Handled, NothingBefore, NoPaidPendingOrder,
        OnlyChargesRefunded, Succeeded, PaymentsOf, OrderOf, Unlocked, CanBecome,
        PaymentStatuses, PaymentStatusTransitions, orderVars, moneyVars, handlerVars
<1>0. TypeOK'
  BY PaymentTypes
<1>1. CASE ReadOrder(p)
  BY <1>0, <1>1 DEF ReadOrder
<1>2. CASE InsertPayment(p)
  BY <1>0, <1>2 DEF InsertPayment
<1>3. ASSUME NEW result \in {"SUCCEEDED", "FAILED", "CANCELLED"}, Provider(p, result)
      PROVE  CoordinationInv'
  BY <1>0, <1>3 DEF Provider
<1>4. CASE ProcessPayment(p) \/ CancelPayment(p) \/ FailPayment(p)
  BY <1>0, <1>4 DEF ProcessPayment, CancelPayment, FailPayment
<1>5. CASE ConfirmPayment(p)
  BY <1>0, <1>5 DEF ConfirmPayment
<1>6. CASE ReconfirmOrder(p)
  BY <1>0, <1>6 DEF ReconfirmOrder
<1>7. CASE OrderRefuses(p)
  BY <1>0, <1>7 DEF OrderRefuses
<1>8. CASE ReadFreshStatus(p)
  BY <1>0, <1>8 DEF ReadFreshStatus
<1>9. CASE KeepPayment(p)
  BY <1>0, <1>9 DEF KeepPayment
<1>10. CASE ClosePayment(p)
  BY <1>0, <1>10 DEF ClosePayment
<1>11. CASE Crash(p)
  BY <1>0, <1>11 DEF Crash
<1>12. ASSUME NEW n \in PartialAmounts \cup {amount[p]}, RefundPayment(p, n)
       PROVE  CoordinationInv'
  BY <1>0, <1>12 DEF RefundPayment, Settle, Ask
<1>13. CASE RetryRefund(p)
  BY <1>0, <1>13 DEF RetryRefund, Settle
<1>14. CASE RecordRefundFailure(p)
  BY <1>0, <1>14 DEF RecordRefundFailure, Ask
<1> HIDE DEF CoordinationInv
<1> QED BY <1>1, <1>2, <1>3, <1>4, <1>5, <1>6, <1>7, <1>8, <1>9, <1>10, <1>11,
           <1>12, <1>13, <1>14 DEF PaymentNext, Webhook, ReconcileSucceeded

\* An order never becomes PENDING again, and a cancellation touches payments
\* that have succeeded, whose rows no transaction holds.
LEMMA CancelKept ==
  ASSUME CoordinationInv, NEW o \in Orders, CancelOrder(o), stale' \subseteq Orders
  PROVE  CoordinationInv'
<1>1. PICK settled \in SUBSET Succeeded(o) :
        /\ refunded' = Update(refunded, settled, LAMBDA p : amount[p])
        /\ pstatus' = Update(pstatus, settled, LAMBDA p : "REFUNDED")
        /\ \A p \in Payments \ Succeeded(o) : required'[p] = required[p]
  <2>1. PICK r \in Refunds(Succeeded(o)) :
          LET settled == {p \in Succeeded(o) : r[p] = "settled"} IN
          /\ refunded' = Update(refunded, settled, LAMBDA p : amount[p])
          /\ pstatus' = Update(pstatus, settled, LAMBDA p : "REFUNDED")
          /\ required' = Update(required, Succeeded(o), LAMBDA p : RequiredAfter(r, p))
    BY DEF CancelOrder
  <2>2. \A p \in Payments \ Succeeded(o) : required'[p] = required[p]
    BY <2>1 DEF Update
  <2> QED BY <2>1, <2>2
<1>2. \A p \in Payments :
        /\ pstatus'[p] = IF p \in settled THEN "REFUNDED" ELSE pstatus[p]
        /\ p \notin Succeeded(o) =>
             /\ refunded'[p] = refunded[p] /\ asked'[p] = asked[p]
             /\ required'[p] = required[p]
        /\ p \in Succeeded(o) => pstatus[p] = "SUCCEEDED"
  BY <1>1 DEF Update, CancelOrder, Succeeded
<1>3. /\ status' = [status EXCEPT ![o] = "CANCELLED"]
      /\ UNCHANGED <<amount, handler, creating, closing, outcome>>
  BY DEF CancelOrder, handlerVars
<1>4. TypeOK'
  BY CancelTypes DEF CoordinationInv
<1>5. Handled' /\ NothingBefore'
  BY <1>2, <1>3, PaymentOrderAssumption
  DEF CoordinationInv, TypeOK, Handled, NothingBefore, OrderOf
<1>6. NoPaidPendingOrder'
  BY <1>2, <1>3 DEF CoordinationInv, TypeOK, NoPaidPendingOrder, Succeeded, PaymentsOf
<1>7. OnlyChargesRefunded'
  BY <1>2, <1>3 DEF CoordinationInv, OnlyChargesRefunded
<1> QED BY <1>4, <1>5, <1>6, <1>7 DEF CoordinationInv

LEMMA OrderStepKept ==
  ASSUME CoordinationInv, NEW o \in Orders, OrderNext(o)
  PROVE  CoordinationInv'
<1> USE PaymentOrderAssumption
    DEF TypeOK, Handled, NothingBefore, NoPaidPendingOrder,
        OnlyChargesRefunded, Succeeded, PaymentsOf, OrderOf, orderVars, moneyVars, handlerVars
<1>0. TypeOK'
  BY OrderTypes DEF CoordinationInv
<1>1. ASSUME NEW new \in Statuses, TransitionStatus(o, new)
      PROVE  CoordinationInv'
  <2>1. new # "PENDING"
    BY <1>1 DEF TransitionStatus, OrderStatusTransitions, CoordinationInv, Statuses
  <2> QED BY <1>0, <1>1, <2>1 DEF TransitionStatus, CoordinationInv
<1>2. ASSUME NEW t \in {FullTotal, DiscountedTotal}, ChangeCoupon(o, t)
      PROVE  CoordinationInv'
  BY <1>0, <1>2 DEF ChangeCoupon, CoordinationInv
<1>3. CASE Cancel(o)
  BY <1>3, CancelKept DEF Cancel, CoordinationInv
<1>4. CASE CancelRolledBack(o)
  BY <1>0, <1>4 DEF CancelRolledBack, Ask, CoordinationInv
<1>5. CASE SelectStale(o)
  BY <1>0, <1>5 DEF SelectStale, CoordinationInv
<1>6. CASE CleanUp(o)
  BY <1>0, <1>6, CancelKept DEF CleanUp, CoordinationInv
<1> QED BY <1>1, <1>2, <1>3, <1>4, <1>5, <1>6 DEF OrderNext

LEMMA StutterKept ==
  ASSUME CoordinationInv, UNCHANGED vars
  PROVE  CoordinationInv'
BY DEF vars, orderVars, moneyVars, handlerVars, CoordinationInv, TypeOK, Handled,
   NothingBefore, NoPaidPendingOrder, OnlyChargesRefunded, Succeeded, PaymentsOf, OrderOf

\* The first two layers, from the orders' side as much as from the payments'.
THEOREM CoordinationCorrect == Spec => []CoordinationInv
<1>1. CoordinationInv /\ [Next]_vars => CoordinationInv'
  BY PaymentStepKept, OrderStepKept, StutterKept DEF Next
<1> QED BY <1>1, CoordinationInit, PTL DEF Spec

-----------------------------------------------------------------------------
\* Amounts.

LEMMA AmountsInit == Init => RefundsWereAsked
BY DEF Init, RefundsWereAsked

\* What is left of a payment that has succeeded, so that a settlement of the
\* rest, and only that, makes it REFUNDED.
LEMMA OpenBalance ==
  ASSUME IInv, NEW p \in Payments
  PROVE  /\ refunded[p] \in Nat /\ required[p] \in Nat
         /\ asked[p] \in Nat /\ amount[p] \in Nat
         /\ refunded[p] <= asked[p] /\ required[p] <= asked[p] /\ asked[p] <= amount[p]
         /\ pstatus[p] \notin {"none", "REFUNDED"} => refunded[p] < amount[p]
BY AmountsAssumption DEF IInv, CoordinationInv, TypeOK, RefundsWereAsked

\* The three steps that pay back, or owe, a part of one payment.
LEMMA RefundAmounts ==
  ASSUME IInv, NEW p \in Payments,
         \/ \E n \in PartialAmounts \cup {amount[p]} : RefundPayment(p, n)
         \/ RetryRefund(p) \/ RecordRefundFailure(p)
  PROVE  RefundsWereAsked'
<1> USE AmountsAssumption
    DEF IInv, CoordinationInv, TypeOK, RefundsWereAsked, Ask, AtMost, Settle
<1>1. ASSUME NEW n \in PartialAmounts \cup {amount[p]}, RefundPayment(p, n)
      PROVE  RefundsWereAsked'
  <2>1. n \in Nat /\ pstatus[p] = "SUCCEEDED" /\ refunded[p] + n <= amount[p]
    BY <1>1 DEF RefundPayment
  <2>2. CASE Settle(p, n) /\ UNCHANGED required
    BY <1>1, <2>1, <2>2, OpenBalance DEF RefundPayment
  <2>3. CASE /\ required' = [required EXCEPT ![p] = AtLeast(@, refunded[p] + n)]
             /\ UNCHANGED <<pstatus, refunded>>
    BY <1>1, <2>1, <2>3, OpenBalance DEF RefundPayment, AtLeast
  <2> QED BY <1>1, <2>2, <2>3 DEF RefundPayment
<1>2. CASE RetryRefund(p)
  BY <1>2, OpenBalance DEF RetryRefund
<1>3. CASE RecordRefundFailure(p)
  BY <1>3, OpenBalance DEF RecordRefundFailure, Obligation
<1> HIDE DEF RefundsWereAsked
<1> QED BY <1>1, <1>2, <1>3

LEMMA PaymentAmounts ==
  ASSUME IInv, NEW p \in Payments, PaymentNext(p)
  PROVE  RefundsWereAsked'
<1> USE AmountsAssumption
    DEF IInv, CoordinationInv, TypeOK, RefundsWereAsked, orderVars, moneyVars, handlerVars
<1>1. CASE ReadOrder(p)
  <2>1. PaymentOrder[p] \in Orders /\ total[PaymentOrder[p]] \in Nat
    BY PaymentOrderAssumption
  <2>2. /\ amount' = [amount EXCEPT ![p] = total[PaymentOrder[p]]]
        /\ pstatus[p] = "none" /\ UNCHANGED <<pstatus, refunded, required, asked>>
    BY <1>1 DEF ReadOrder, OrderOf
  <2>3. refunded[p] = 0 /\ required[p] = 0 /\ asked[p] = 0
    BY <2>2 DEF NothingBefore
  <2> QED BY <2>1, <2>2, <2>3
<1>2. CASE InsertPayment(p)
  BY <1>2 DEF InsertPayment, NothingBefore, Handled
<1>3. CASE ProcessPayment(p) \/ FailPayment(p) \/ CancelPayment(p) \/ ConfirmPayment(p)
  BY <1>3 DEF ProcessPayment, FailPayment, CancelPayment, ConfirmPayment, CanBecome,
     PaymentStatuses, PaymentStatusTransitions
<1>4. CASE KeepPayment(p)
  BY <1>4 DEF KeepPayment, Handled
<1>5. CASE ClosePayment(p)
  BY <1>5 DEF ClosePayment, PaymentStatuses, PaymentStatusTransitions
<1>6. UNCHANGED <<pstatus, moneyVars>> => RefundsWereAsked'
  OBVIOUS
<1>7. ReconfirmOrder(p) \/ OrderRefuses(p) \/ ReadFreshStatus(p) \/ Crash(p)
        \/ (\E result \in {"SUCCEEDED", "FAILED", "CANCELLED"} : Provider(p, result))
      => UNCHANGED <<pstatus, moneyVars>>
  BY DEF ReconfirmOrder, OrderRefuses, ReadFreshStatus, Crash, Provider
<1> HIDE DEF IInv, RefundsWereAsked
<1> QED BY <1>1, <1>2, <1>3, <1>4, <1>5, <1>6, <1>7, RefundAmounts
        DEF PaymentNext, Webhook, ReconcileSucceeded

\* Of the payments that a cancellation refunds, the settled ones are paid back
\* in full, nothing having been paid before; of the others no more is owed
\* than their amount.
LEMMA CancelAmounts ==
  ASSUME IInv, NEW o \in Orders, CancelOrder(o)
  PROVE  RefundsWereAsked'
<1>1. PICK r \in Refunds(Succeeded(o)) :
        LET settled == {p \in Succeeded(o) : r[p] = "settled"} IN
        /\ refunded' = Update(refunded, settled, LAMBDA p : amount[p])
        /\ pstatus' = Update(pstatus, settled, LAMBDA p : "REFUNDED")
        /\ required' = Update(required, Succeeded(o), LAMBDA p : RequiredAfter(r, p))
  BY DEF CancelOrder
<1>2. asked' = Update(asked, Succeeded(o), LAMBDA p : amount[p]) /\ amount' = amount
  BY DEF CancelOrder
<1> SUFFICES ASSUME NEW p \in Payments
             PROVE  /\ refunded'[p] <= asked'[p] /\ required'[p] <= asked'[p]
                    /\ asked'[p] <= amount'[p]
                    /\ pstatus'[p] = "REFUNDED"
                         <=> refunded'[p] = amount'[p] /\ pstatus'[p] # "none"
  BY DEF RefundsWereAsked
<1>3. CASE p \in Succeeded(o)
  <2>1. pstatus[p] = "SUCCEEDED" /\ asked'[p] = amount[p]
    BY <1>2, <1>3 DEF Succeeded, Update
  <2>2. required'[p] = RequiredAfter(r, p)
    BY <1>1, <1>3 DEF Update
  <2>3. required'[p] <= amount[p]
    BY <2>2, OpenBalance DEF RequiredAfter, Obligation, AtLeast
  <2>4. \/ refunded'[p] = amount[p] /\ pstatus'[p] = "REFUNDED"
        \/ refunded'[p] = refunded[p] /\ pstatus'[p] = "SUCCEEDED"
    BY <1>1, <2>1 DEF Update
  <2> QED BY <1>2, <2>1, <2>3, <2>4, OpenBalance
<1>4. CASE p \notin Succeeded(o)
  BY <1>1, <1>2, <1>4 DEF Update, IInv, RefundsWereAsked
<1> QED BY <1>3, <1>4

LEMMA OrderAmounts ==
  ASSUME IInv, NEW o \in Orders, OrderNext(o)
  PROVE  RefundsWereAsked'
<1>1. CASE \E p \in Succeeded(o) :
             /\ required' = [required EXCEPT ![p] = Obligation(p)]
             /\ asked' = Ask(p, amount[p])
             /\ UNCHANGED <<pstatus, amount, refunded>>
  <2>1. PICK p \in Succeeded(o) :
          /\ required' = [required EXCEPT ![p] = Obligation(p)]
          /\ asked' = Ask(p, amount[p])
          /\ UNCHANGED <<pstatus, amount, refunded>>
    BY <1>1
  <2>2. p \in Payments /\ Obligation(p) <= amount[p] /\ AtMost(asked[p] + amount[p], amount[p]) = amount[p]
    BY OpenBalance DEF Succeeded, PaymentsOf, Obligation, AtMost
  <2> QED BY <2>1, <2>2 DEF IInv, CoordinationInv, TypeOK, RefundsWereAsked, Ask
<1>2. CASE UNCHANGED <<pstatus, moneyVars>>
  BY <1>2 DEF moneyVars, IInv, RefundsWereAsked
<1> QED BY <1>1, <1>2, CancelAmounts
        DEF OrderNext, TransitionStatus, ChangeCoupon, Cancel, CancelRolledBack,
            SelectStale, CleanUp, moneyVars

\* The third layer: amounts, given the other two.
THEOREM AmountsCorrect == Spec => []IInv
<1>1. Init => IInv
  BY CoordinationInit, AmountsInit DEF IInv
<1>2. IInv /\ [Next]_vars => IInv'
  <2> SUFFICES ASSUME IInv, [Next]_vars PROVE IInv'
    OBVIOUS
  <2>1. CoordinationInv'
    BY PaymentStepKept, OrderStepKept, StutterKept DEF IInv, Next
  <2>2. CASE UNCHANGED vars
    BY <2>1, <2>2 DEF vars, moneyVars, IInv, RefundsWereAsked
  <2> QED BY <2>1, <2>2, PaymentAmounts, OrderAmounts DEF IInv, Next
<1> QED BY <1>1, <1>2, PTL DEF Spec

-----------------------------------------------------------------------------
\* No payment has succeeded while its order is PENDING, in whatever order the
\* webhooks, the commands and the staff have moved the two rows.
THEOREM PaidOrdersMoveOn == Spec => []NoPaidPendingOrder
BY CoordinationCorrect, PTL DEF CoordinationInv

\* A payment succeeds, and is refunded, only after the provider has charged it.
THEOREM ChargedBeforeRefunded == Spec => []OnlyChargesRefunded
BY CoordinationCorrect, PTL DEF CoordinationInv

\* Refunds and obligations add up to no more than what was asked for and to no
\* more than the payment; REFUNDED says exactly that all of it was paid back.
THEOREM RefundsAddUp == Spec => []RefundsWereAsked
BY AmountsCorrect, PTL DEF IInv

=============================================================================
