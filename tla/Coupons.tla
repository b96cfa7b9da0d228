------------------------------ MODULE Coupons ------------------------------
(***************************************************************************)
(* Coupons on orders.  OrderService applies a coupon to a PENDING order,   *)
(* takes it off, and gives its slot back when such an order is cancelled;  *)
(* DiscountService keeps one CouponUsage row for each order with a coupon  *)
(* and the counter Coupon.times_used, and the admin site edits the limits  *)
(* of a coupon while this goes on.                                         *)
(*                                                                         *)
(* The transactions of OrderService lock Order, then Coupon, then          *)
(* CouponUsage until COMMIT: each is one action.  An edit in the admin     *)
(* site locks nothing and is three: it loads the row, compares the counter *)
(* with the stored one, and saves what the form has changed.               *)
(*                                                                         *)
(* Abstractions.  The period of a coupon is part of being `active'; the    *)
(* statuses from CONFIRMED to SHIPPED, all alike to coupons, are           *)
(* CONFIRMED.  Amounts are in kopecks, percents in hundredths; a coupon    *)
(* without max_discount has a cap that no order reaches.  Edits of its     *)
(* terms are left out: they change no discount that was given.             *)
(***************************************************************************)
EXTENDS Integers, FiniteSets

CONSTANTS
  Orders, Users, Coupons,
  NoCoupon,      \* an order without a CouponUsage row
  UserOf,        \* Order.user
  Subtotal,      \* Order.subtotal
  DeliveryCost,  \* Order.delivery_cost
  Terms,         \* discount_type, discount_value, max_discount, min_order_amount
  MaxLimit       \* the largest limit that staff set

ASSUME OrdersAssumption == IsFiniteSet(Orders)
ASSUME CouponsAssumption == NoCoupon \notin Coupons
ASSUME UsersAssumption == UserOf \in [Orders -> Users]
ASSUME AmountsAssumption ==
  /\ Subtotal \in [Orders -> Nat] /\ DeliveryCost \in [Orders -> Nat]
  /\ Terms \in [Coupons -> [percent : BOOLEAN, value : Nat \ {0},
                            cap : Nat, minimum : Nat]]
  /\ MaxLimit \in Nat

VARIABLES
  status,     \* Order.status
  discount,   \* Order.discount
  total,      \* Order.total
  usage,      \* the coupon of the order's CouponUsage row
  timesUsed,  \* Coupon.times_used
  maxTotal,   \* Coupon.max_total_uses, 0 for no limit
  maxPerUser, \* Coupon.max_uses_per_user, 0 for no limit
  active,     \* coupons that are active
  editing     \* the edit of a coupon that the admin site is at

orderVars == <<status, discount, total>>
termVars == <<maxTotal, maxPerUser, active>>
vars == <<orderVars, usage, timesUsed, termVars, editing>>

Statuses == {"PENDING", "CONFIRMED", "DELIVERED", "CANCELLED"}

Edits == [step : {"none"}] \cup [step : {"loaded", "checked"}, timesUsed : Nat]

-----------------------------------------------------------------------------
\* Coupon.calculate_discount.

AtMost(m, n) == IF m <= n THEN m ELSE n

\* n / d rounded half to even, as Decimal.quantize does.
Rounded(n, d) ==
  LET q == n \div d
      r == 2 * (n % d)
  IN IF r > d \/ (r = d /\ q % 2 = 1) THEN q + 1 ELSE q

CalculateDiscount(c, amt) ==
  LET t == Terms[c] IN
  AtMost(amt, IF t.percent
                THEN AtMost(t.cap, Rounded(amt * t.value, 10000))
                ELSE t.value)

TotalOf(o, d) == Subtotal[o] + DeliveryCost[o] - d

\* The CouponUsage rows of a coupon, and those of them of a user.
Usages(c) == {o \in Orders : usage[o] = c}
UserUsages(c, u) == {o \in Usages(c) : UserOf[o] = u}

-----------------------------------------------------------------------------
\* Mutant: the limit for each user is forgotten.
ApplyForUser(o, c) ==
  LET d == CalculateDiscount(c, Subtotal[o]) IN
  /\ status[o] = "PENDING" /\ discount[o] = 0 /\ usage[o] = NoCoupon
  /\ c \in active /\ Subtotal[o] >= Terms[c].minimum
  /\ maxTotal[c] = 0 \/ timesUsed[c] < maxTotal[c]
  /\ d > 0
  /\ timesUsed' = [timesUsed EXCEPT ![c] = @ + 1]
  /\ usage' = [usage EXCEPT ![o] = c]
  /\ discount' = [discount EXCEPT ![o] = d]
  /\ total' = [total EXCEPT ![o] = TotalOf(o, d)]
  /\ UNCHANGED <<status, termVars, editing>>

\* OrderService.apply_coupon and DiscountService.register_usage.
ApplyCoupon(o, c) ==
  LET d == CalculateDiscount(c, Subtotal[o]) IN
  /\ status[o] = "PENDING" /\ discount[o] = 0
  /\ c \in active /\ Subtotal[o] >= Terms[c].minimum
  /\ maxTotal[c] = 0 \/ timesUsed[c] < maxTotal[c]
  /\ \/ maxPerUser[c] = 0
     \/ Cardinality(UserUsages(c, UserOf[o])) < maxPerUser[c]
  /\ d > 0
  /\ usage[o] = NoCoupon
  /\ timesUsed' = [timesUsed EXCEPT ![c] = @ + 1]
  /\ usage' = [usage EXCEPT ![o] = c]
  /\ discount' = [discount EXCEPT ![o] = d]
  /\ total' = [total EXCEPT ![o] = TotalOf(o, d)]
  /\ UNCHANGED <<status, termVars, editing>>

\* Mutant: the order keeps its discount.
ReleaseSlotOnly(o) ==
  /\ timesUsed' = [c \in Coupons |->
                    IF usage[o] = c THEN timesUsed[c] - 1 ELSE timesUsed[c]]
  /\ usage' = [usage EXCEPT ![o] = NoCoupon]
  /\ UNCHANGED <<discount, total>>

\* DiscountService.release_usage, and the order without its discount; an
\* order without a row just loses its discount.
ReleaseCoupon(o) ==
  /\ \A c \in Coupons : usage[o] = c => timesUsed[c] > 0
  /\ timesUsed' = [c \in Coupons |->
                    IF usage[o] = c THEN timesUsed[c] - 1 ELSE timesUsed[c]]
  /\ usage' = [usage EXCEPT ![o] = NoCoupon]
  /\ discount' = [discount EXCEPT ![o] = 0]
  /\ total' = [total EXCEPT ![o] = TotalOf(o, 0)]

RemoveCoupon(o) ==
  /\ status[o] = "PENDING" /\ discount[o] > 0
  /\ ReleaseCoupon(o)
  /\ UNCHANGED <<status, termVars, editing>>

\* Mutant: a confirmed order, too, gives its slot back.
CancelReleases(o) ==
  /\ status[o] \in {"PENDING", "CONFIRMED"}
  /\ status' = [status EXCEPT ![o] = "CANCELLED"]
  /\ ReleaseCoupon(o)
  /\ UNCHANGED <<termVars, editing>>

\* OrderService.cancel: only an order that is not yet confirmed gives its
\* slot back.
Cancel(o) ==
  /\ status[o] \in {"PENDING", "CONFIRMED"}
  /\ status' = [status EXCEPT ![o] = "CANCELLED"]
  /\ IF status[o] = "PENDING" /\ discount[o] > 0 /\ usage[o] # NoCoupon
       THEN ReleaseCoupon(o)
       ELSE UNCHANGED <<timesUsed, usage, discount, total>>
  /\ UNCHANGED <<termVars, editing>>

TransitionStatus(o, new) ==
  /\ <<status[o], new>> \in {<<"PENDING", "CONFIRMED">>, <<"CONFIRMED", "DELIVERED">>}
  /\ status' = [status EXCEPT ![o] = new]
  /\ UNCHANGED <<discount, total, usage, timesUsed, termVars, editing>>

-----------------------------------------------------------------------------
\* CouponAdmin with its ProtectedFieldsAdminMixin.

AdminLoad(c) ==
  /\ editing[c].step = "none"
  /\ editing' = [editing EXCEPT ![c] = [step |-> "loaded", timesUsed |-> timesUsed[c]]]
  /\ UNCHANGED <<orderVars, usage, timesUsed, termVars>>

\* _guard_change_save: a counter that has moved since the row was loaded is
\* taken for a protected field that was changed, and the edit is refused.
AdminGuard(c) ==
  /\ editing[c].step = "loaded"
  /\ editing' = [editing EXCEPT ![c] =
                   IF @.timesUsed = timesUsed[c] THEN [@ EXCEPT !.step = "checked"]
                                                 ELSE [step |-> "none"]]
  /\ UNCHANGED <<orderVars, usage, timesUsed, termVars>>

\* Mutant: every column of the row that was loaded is written back.
AdminSaveAll(c, total_, perUser, isActive) ==
  /\ editing[c].step = "checked"
  /\ editing' = [editing EXCEPT ![c] = [step |-> "none"]]
  /\ timesUsed' = [timesUsed EXCEPT ![c] = editing[c].timesUsed]
  /\ maxTotal' = [maxTotal EXCEPT ![c] = total_]
  /\ maxPerUser' = [maxPerUser EXCEPT ![c] = perUser]
  /\ active' = IF isActive THEN active \cup {c} ELSE active \ {c}
  /\ UNCHANGED <<orderVars, usage>>

\* obj.save with the fields of the form only.
AdminSave(c, total_, perUser, isActive) ==
  /\ editing[c].step = "checked"
  /\ editing' = [editing EXCEPT ![c] = [step |-> "none"]]
  /\ maxTotal' = [maxTotal EXCEPT ![c] = total_]
  /\ maxPerUser' = [maxPerUser EXCEPT ![c] = perUser]
  /\ active' = IF isActive THEN active \cup {c} ELSE active \ {c}
  /\ UNCHANGED <<orderVars, usage, timesUsed>>

-----------------------------------------------------------------------------
Init ==
  /\ status = [o \in Orders |-> "PENDING"]
  /\ discount = [o \in Orders |-> 0]
  /\ total = [o \in Orders |-> TotalOf(o, 0)]
  /\ usage = [o \in Orders |-> NoCoupon]
  /\ timesUsed = [c \in Coupons |-> 0]
  /\ maxTotal \in [Coupons -> 0..MaxLimit]
  /\ maxPerUser \in [Coupons -> 0..MaxLimit]
  /\ active = Coupons
  /\ editing = [c \in Coupons |-> [step |-> "none"]]

OrderNext(o) ==
  \/ \E c \in Coupons : ApplyCoupon(o, c)
  \/ RemoveCoupon(o)
  \/ Cancel(o)
  \/ \E new \in Statuses : TransitionStatus(o, new)

AdminNext(c) ==
  \/ AdminLoad(c)
  \/ AdminGuard(c)
  \/ \E m, n \in 0..MaxLimit, b \in BOOLEAN : AdminSave(c, m, n, b)

Next == (\E o \in Orders : OrderNext(o)) \/ (\E c \in Coupons : AdminNext(c))

Spec == Init /\ [][Next]_vars

-----------------------------------------------------------------------------
TypeOK ==
  /\ status \in [Orders -> Statuses]
  /\ discount \in [Orders -> Nat]
  /\ total \in [Orders -> Int]
  /\ usage \in [Orders -> Coupons \cup {NoCoupon}]
  /\ timesUsed \in [Coupons -> Nat]
  /\ maxTotal \in [Coupons -> 0..MaxLimit]
  /\ maxPerUser \in [Coupons -> 0..MaxLimit]
  /\ active \subseteq Coupons
  /\ editing \in [Coupons -> Edits]

\* The counter of a coupon, which register_usage and release_usage change by
\* increments and the admin site saves around, is the number of its
\* CouponUsage rows (coupon_admin.py:5-10: counter and rows belong together).
TimesUsedMatchesUsages ==
  \A c \in Coupons : timesUsed[c] = Cardinality(Usages(c))

\* An order has a discount exactly if it has a CouponUsage row, and pays for
\* its goods and delivery less the discount, never less than the delivery:
\* no slot is taken without a discount and no discount is given without a
\* slot (apply_coupon, remove_coupon, cancel).
DiscountMatchesUsage ==
  \A o \in Orders :
    /\ discount[o] > 0 <=> usage[o] # NoCoupon
    /\ discount[o] <= Subtotal[o]
    /\ total[o] = TotalOf(o, discount[o])

\* No use is added beyond the limits that a coupon has at that time, in total
\* or for the user, and none is added to a coupon that is switched off
\* (is_exhausted, count_user_uses).
NoUseBeyondLimits ==
  [][\A c \in Coupons, o \in Orders :
       usage[o] # c /\ usage'[o] = c
         => /\ c \in active
            /\ maxTotal[c] = 0 \/ Cardinality(Usages(c)') <= maxTotal[c]
            /\ \/ maxPerUser[c] = 0
               \/ Cardinality(UserUsages(c, UserOf[o])') <= maxPerUser[c]]_vars

\* The coupon of an order that was confirmed stays used: neither taking it
\* off nor cancelling the order gives its slot to another one (ARCH-002 in
\* OrderService.cancel).
ConfirmedUseStays ==
  [][\A o \in Orders :
       status[o] # "PENDING" => usage'[o] = usage[o] /\ total'[o] = total[o]]_vars
=============================================================================
