--------------------------- MODULE CouponsProofs ---------------------------
(***************************************************************************)
(* Theorems about Coupons, for any finite set of orders and any coupons.   *)
(* The three parts of IInv lean on each other: the counter stays a natural *)
(* number because it is the number of usages, and the usage that           *)
(* remove_coupon and cancel take back is there because the order has a     *)
(* discount.                                                               *)
(***************************************************************************)
EXTENDS Coupons, FiniteSetTheorems, TLAPS

IInv == TypeOK /\ TimesUsedMatchesUsages /\ DiscountMatchesUsage

-----------------------------------------------------------------------------
\* What Coupon.calculate_discount returns: never a negative amount, and never
\* more than the amount it is given.
LEMMA DiscountBounds ==
  ASSUME NEW c \in Coupons, NEW amt \in Nat
  PROVE  /\ CalculateDiscount(c, amt) \in Nat
         /\ CalculateDiscount(c, amt) <= amt
<1>1. Terms[c].value \in Nat /\ Terms[c].cap \in Nat
  BY AmountsAssumption
<1>2. amt * Terms[c].value \in Nat
  BY <1>1
<1>3. Rounded(amt * Terms[c].value, 10000) \in Nat
  BY <1>2 DEF Rounded
<1> QED BY <1>1, <1>3 DEF CalculateDiscount, AtMost

LEMMA UsagesFinite ==
  ASSUME NEW c
  PROVE  IsFiniteSet(Usages(c)) /\ \A u : IsFiniteSet(UserUsages(c, u))
<1>1. Usages(c) \subseteq Orders /\ \A u : UserUsages(c, u) \subseteq Orders
  BY DEF Usages, UserUsages
<1> QED BY <1>1, OrdersAssumption, FS_Subset

\* A row more in the table CouponUsage.
LEMMA UseAdded ==
  ASSUME TypeOK, NEW o \in Orders, NEW c \in Coupons,
         usage[o] # c, usage' = [usage EXCEPT ![o] = c]
  PROVE  /\ Cardinality(Usages(c)') = Cardinality(Usages(c)) + 1
         /\ Cardinality(UserUsages(c, UserOf[o])')
              = Cardinality(UserUsages(c, UserOf[o])) + 1
<1>1. Usages(c)' = Usages(c) \cup {o} /\ o \notin Usages(c)
  BY DEF Usages, TypeOK
<1>2. /\ UserUsages(c, UserOf[o])' = UserUsages(c, UserOf[o]) \cup {o}
      /\ o \notin UserUsages(c, UserOf[o])
  BY <1>1 DEF UserUsages
<1> QED BY <1>1, <1>2, UsagesFinite, FS_AddElement

\* A row less.
LEMMA UseRemoved ==
  ASSUME TypeOK, NEW o \in Orders, NEW c \in Coupons,
         usage[o] = c, usage' = [usage EXCEPT ![o] = NoCoupon]
  PROVE  Cardinality(Usages(c)') = Cardinality(Usages(c)) - 1
<1>1. Usages(c)' = Usages(c) \ {o} /\ o \in Usages(c)
  BY CouponsAssumption DEF Usages, TypeOK
<1> QED BY <1>1, UsagesFinite, FS_RemoveElement

\* The rows of the other coupons are the same ones.
LEMMA OthersKept ==
  ASSUME TypeOK, NEW o \in Orders, NEW new, NEW c,
         usage[o] # c, new # c, usage' = [usage EXCEPT ![o] = new]
  PROVE  Usages(c)' = Usages(c)
BY DEF Usages, TypeOK

-----------------------------------------------------------------------------
LEMMA InvInit == Init => IInv
<1> SUFFICES ASSUME Init PROVE IInv
  OBVIOUS
<1>1. TypeOK
  BY AmountsAssumption DEF Init, TypeOK, Statuses, Edits, TotalOf
<1>2. TimesUsedMatchesUsages
  <2> SUFFICES ASSUME NEW c \in Coupons PROVE timesUsed[c] = Cardinality(Usages(c))
    BY DEF TimesUsedMatchesUsages
  <2>1. Usages(c) = {}
    BY CouponsAssumption DEF Init, Usages
  <2> QED BY <2>1, FS_EmptySet DEF Init
<1>3. DiscountMatchesUsage
  BY AmountsAssumption DEF Init, DiscountMatchesUsage, TotalOf
<1> QED BY <1>1, <1>2, <1>3 DEF IInv

\* OrderService.apply_coupon keeps the invariant.
LEMMA ApplyStep ==
  ASSUME IInv, NEW o \in Orders, NEW c \in Coupons, ApplyCoupon(o, c)
  PROVE  IInv'
<1> DEFINE d == CalculateDiscount(c, Subtotal[o])
<1>1. d \in Nat /\ d <= Subtotal[o] /\ d > 0 /\ Subtotal[o] \in Nat
  BY DiscountBounds, AmountsAssumption DEF ApplyCoupon
<1>2. /\ usage[o] = NoCoupon /\ usage' = [usage EXCEPT ![o] = c]
      /\ discount' = [discount EXCEPT ![o] = d]
      /\ total' = [total EXCEPT ![o] = TotalOf(o, d)]
      /\ timesUsed' = [timesUsed EXCEPT ![c] = @ + 1]
      /\ UNCHANGED <<status, maxTotal, maxPerUser, active, editing>>
  BY DEF ApplyCoupon, termVars
<1> HIDE DEF d
<1>3. TypeOK'
  <2>1. TotalOf(o, d) \in Int
    BY <1>1, AmountsAssumption DEF TotalOf
  <2> QED BY <1>1, <1>2, <2>1 DEF IInv, TypeOK
<1>4. TimesUsedMatchesUsages'
  <2> SUFFICES ASSUME NEW e \in Coupons
               PROVE  timesUsed'[e] = Cardinality(Usages(e)')
    BY DEF TimesUsedMatchesUsages
  <2>1. timesUsed[e] = Cardinality(Usages(e))
    BY DEF IInv, TimesUsedMatchesUsages
  <2>2. CASE e = c
    BY <1>2, <2>1, <2>2, UseAdded, CouponsAssumption DEF IInv, TypeOK
  <2>3. CASE e # c
    BY <1>2, <2>1, <2>3, OthersKept, CouponsAssumption DEF IInv, TypeOK
  <2> QED BY <2>2, <2>3
<1>5. DiscountMatchesUsage'
  BY <1>1, <1>2, CouponsAssumption DEF IInv, TypeOK, DiscountMatchesUsage, TotalOf
<1> QED BY <1>3, <1>4, <1>5 DEF IInv

\* DiscountService.release_usage keeps it, whatever becomes of the status.
LEMMA ReleaseStep ==
  ASSUME IInv, NEW o \in Orders, ReleaseCoupon(o),
         status' \in [Orders -> Statuses], UNCHANGED <<termVars, editing>>
  PROVE  IInv'
<1>1. /\ usage' = [usage EXCEPT ![o] = NoCoupon]
      /\ discount' = [discount EXCEPT ![o] = 0]
      /\ total' = [total EXCEPT ![o] = TotalOf(o, 0)]
      /\ timesUsed' = [c \in Coupons |->
                         IF usage[o] = c THEN timesUsed[c] - 1 ELSE timesUsed[c]]
      /\ \A c \in Coupons : usage[o] = c => timesUsed[c] > 0
      /\ UNCHANGED <<maxTotal, maxPerUser, active, editing>>
  BY DEF ReleaseCoupon, termVars
<1>2. TypeOK'
  <2>1. TotalOf(o, 0) \in Int
    BY AmountsAssumption DEF TotalOf
  <2>2. timesUsed' \in [Coupons -> Nat]
    BY <1>1 DEF IInv, TypeOK
  <2> QED BY <1>1, <2>1, <2>2 DEF IInv, TypeOK
<1>3. TimesUsedMatchesUsages'
  <2> SUFFICES ASSUME NEW e \in Coupons
               PROVE  timesUsed'[e] = Cardinality(Usages(e)')
    BY DEF TimesUsedMatchesUsages
  <2>1. timesUsed[e] = Cardinality(Usages(e))
    BY DEF IInv, TimesUsedMatchesUsages
  <2>2. CASE usage[o] = e
    BY <1>1, <2>1, <2>2, UseRemoved DEF IInv
  <2>3. CASE usage[o] # e
    BY <1>1, <2>1, <2>3, OthersKept, CouponsAssumption DEF IInv
  <2> QED BY <2>2, <2>3
<1>4. DiscountMatchesUsage'
  <2> SUFFICES ASSUME NEW p \in Orders
               PROVE  /\ discount'[p] > 0 <=> usage'[p] # NoCoupon
                      /\ discount'[p] <= Subtotal[p]
                      /\ total'[p] = TotalOf(p, discount'[p])
    BY DEF DiscountMatchesUsage, TotalOf
  <2>1. /\ discount[p] > 0 <=> usage[p] # NoCoupon
        /\ discount[p] <= Subtotal[p]
        /\ total[p] = TotalOf(p, discount[p])
    BY DEF IInv, DiscountMatchesUsage
  <2>2. CASE p = o
    <3>1. o \in DOMAIN discount /\ o \in DOMAIN usage /\ o \in DOMAIN total
      BY DEF IInv, TypeOK
    <3>2. discount'[o] = 0 /\ usage'[o] = NoCoupon /\ total'[o] = TotalOf(o, 0)
      BY <1>1, <3>1
    <3>3. 0 <= Subtotal[o]
      BY AmountsAssumption
    <3> QED BY <2>2, <3>2, <3>3
  <2>3. CASE p # o
    BY <1>1, <2>1, <2>3 DEF IInv, TypeOK, TotalOf
  <2> QED BY <2>2, <2>3
<1> QED BY <1>2, <1>3, <1>4 DEF IInv

\* Steps that leave the tables of orders and usages alone.
LEMMA RowsKept ==
  ASSUME IInv, TypeOK', UNCHANGED <<discount, total, usage, timesUsed>>
  PROVE  IInv'
BY DEF IInv, TimesUsedMatchesUsages, DiscountMatchesUsage, Usages, TotalOf

LEMMA InvStep == IInv /\ [Next]_vars => IInv'
<1> SUFFICES ASSUME IInv, [Next]_vars PROVE IInv'
  OBVIOUS
<1> USE DEF orderVars, termVars
<1>1. ASSUME NEW o \in Orders, NEW c \in Coupons, ApplyCoupon(o, c) PROVE IInv'
  BY <1>1, ApplyStep
<1>2. ASSUME NEW o \in Orders, RemoveCoupon(o) PROVE IInv'
  BY <1>2, ReleaseStep DEF RemoveCoupon, IInv, TypeOK
<1>3. ASSUME NEW o \in Orders, Cancel(o) PROVE IInv'
  <2>1. status' \in [Orders -> Statuses]
    BY <1>3 DEF Cancel, IInv, TypeOK, Statuses
  <2>2. CASE status[o] = "PENDING" /\ discount[o] > 0 /\ usage[o] # NoCoupon
    BY <1>3, <2>1, <2>2, ReleaseStep DEF Cancel
  <2>3. CASE ~(status[o] = "PENDING" /\ discount[o] > 0 /\ usage[o] # NoCoupon)
    <3>1. UNCHANGED <<timesUsed, usage, discount, total, termVars, editing>>
      BY <1>3, <2>3 DEF Cancel
    <3>2. TypeOK'
      BY <2>1, <3>1 DEF IInv, TypeOK
    <3> QED BY <3>1, <3>2, RowsKept
  <2> QED BY <2>2, <2>3
<1>4. ASSUME NEW o \in Orders, NEW new \in Statuses, TransitionStatus(o, new)
      PROVE  IInv'
  <2>1. TypeOK'
    BY <1>4 DEF TransitionStatus, IInv, TypeOK
  <2> QED BY <1>4, <2>1, RowsKept DEF TransitionStatus
<1>5. ASSUME NEW c \in Coupons, AdminLoad(c) PROVE IInv'
  <2>1. TypeOK'
    BY <1>5 DEF AdminLoad, IInv, TypeOK, Edits
  <2> QED BY <1>5, <2>1, RowsKept DEF AdminLoad
<1>6. ASSUME NEW c \in Coupons, AdminGuard(c) PROVE IInv'
  <2>1. TypeOK'
    BY <1>6 DEF AdminGuard, IInv, TypeOK, Edits
  <2> QED BY <1>6, <2>1, RowsKept DEF AdminGuard
<1>7. ASSUME NEW c \in Coupons, NEW m \in 0..MaxLimit, NEW n \in 0..MaxLimit,
             NEW b \in BOOLEAN, AdminSave(c, m, n, b)
      PROVE  IInv'
  <2>1. TypeOK'
    BY <1>7 DEF AdminSave, IInv, TypeOK, Edits
  <2> QED BY <1>7, <2>1, RowsKept DEF AdminSave
<1>8. CASE UNCHANGED vars
  <2>1. TypeOK'
    BY <1>8 DEF vars, IInv, TypeOK
  <2> QED BY <1>8, <2>1, RowsKept DEF vars
<1> QED
  BY <1>1, <1>2, <1>3, <1>4, <1>5, <1>6, <1>7, <1>8 DEF Next, OrderNext, AdminNext

LEMMA BooksCorrect == Spec => []IInv
BY InvInit, InvStep, PTL DEF Spec

\* The counter of every coupon is the number of its usages, whatever orders and
\* staff do (apply_coupon, remove_coupon, cancel, CouponAdmin).
THEOREM UsesCounted == Spec => []TimesUsedMatchesUsages
<1>1. IInv => TimesUsedMatchesUsages
  BY DEF IInv
<1> QED BY <1>1, BooksCorrect, PTL

\* An order has a discount if and only if it has taken a slot of a coupon; the
\* discount is no more than its goods cost and the total is what remains.
THEOREM DiscountsHaveUsages == Spec => []DiscountMatchesUsage
<1>1. IInv => DiscountMatchesUsage
  BY DEF IInv
<1> QED BY <1>1, BooksCorrect, PTL

-----------------------------------------------------------------------------
\* Only apply_coupon adds a usage.
LEMMA OnlyApplyAdds ==
  ASSUME TypeOK, [Next]_vars, NEW c \in Coupons, NEW o \in Orders,
         usage[o] # c, usage'[o] = c
  PROVE  ApplyCoupon(o, c)
<1> USE DEF orderVars, termVars
<1>1. ASSUME NEW p \in Orders, ReleaseCoupon(p) PROVE FALSE
  BY <1>1, CouponsAssumption DEF ReleaseCoupon, TypeOK
<1>2. ASSUME NEW p \in Orders, OrderNext(p) PROVE ApplyCoupon(o, c)
  <2>1. CASE \E e \in Coupons : ApplyCoupon(p, e)
    BY <2>1 DEF ApplyCoupon, TypeOK
  <2>2. CASE RemoveCoupon(p)
    BY <1>1, <2>2 DEF RemoveCoupon
  <2>3. CASE Cancel(p)
    BY <1>1, <2>3 DEF Cancel
  <2>4. CASE \E new \in Statuses : TransitionStatus(p, new)
    BY <2>4 DEF TransitionStatus
  <2> QED BY <1>2, <2>1, <2>2, <2>3, <2>4 DEF OrderNext
<1>3. ASSUME NEW e \in Coupons, AdminNext(e) PROVE FALSE
  BY <1>3 DEF AdminNext, AdminLoad, AdminGuard, AdminSave
<1> QED BY <1>2, <1>3 DEF Next, vars

\* No use is ever added beyond the limits that the coupon has at that time.
THEOREM LimitsKept == Spec => NoUseBeyondLimits
<1> DEFINE Within ==
      \A c \in Coupons, o \in Orders :
        usage[o] # c /\ usage'[o] = c
          => /\ c \in active
             /\ maxTotal[c] = 0 \/ Cardinality(Usages(c)') <= maxTotal[c]
             /\ \/ maxPerUser[c] = 0
                \/ Cardinality(UserUsages(c, UserOf[o])') <= maxPerUser[c]
<1>1. IInv /\ [Next]_vars => Within
  <2> SUFFICES ASSUME IInv, [Next]_vars, NEW c \in Coupons, NEW o \in Orders,
                      usage[o] # c, usage'[o] = c
               PROVE  /\ c \in active
                      /\ maxTotal[c] = 0 \/ Cardinality(Usages(c)') <= maxTotal[c]
                      /\ \/ maxPerUser[c] = 0
                         \/ Cardinality(UserUsages(c, UserOf[o])') <= maxPerUser[c]
    OBVIOUS
  <2>1. TypeOK /\ timesUsed[c] = Cardinality(Usages(c))
    BY DEF IInv, TimesUsedMatchesUsages
  <2>2. ApplyCoupon(o, c)
    BY <2>1, OnlyApplyAdds
  <2>3. /\ Cardinality(Usages(c)') = Cardinality(Usages(c)) + 1
        /\ Cardinality(UserUsages(c, UserOf[o])')
             = Cardinality(UserUsages(c, UserOf[o])) + 1
    BY <2>1, <2>2, UseAdded DEF ApplyCoupon
  <2>4. /\ Cardinality(Usages(c)) \in Nat
        /\ Cardinality(UserUsages(c, UserOf[o])) \in Nat
    BY UsagesFinite, FS_CardinalityType
  <2>5. maxTotal[c] \in Nat /\ maxPerUser[c] \in Nat
    BY <2>1, AmountsAssumption DEF TypeOK
  <2> QED BY <2>1, <2>2, <2>3, <2>4, <2>5 DEF ApplyCoupon
<1>2. Spec => []IInv
  BY InvInit, InvStep, PTL DEF Spec
<1>3. Spec => [][Within]_vars
  BY <1>1, <1>2, PTL DEF Spec
<1> QED BY <1>3 DEF NoUseBeyondLimits

\* Once confirmed, an order keeps its coupon and its total for ever, and a
\* cancellation gives the slot to nobody else.
THEOREM ConfirmedKept == Spec => ConfirmedUseStays
<1> DEFINE Stays ==
      \A o \in Orders :
        status[o] # "PENDING" => usage'[o] = usage[o] /\ total'[o] = total[o]
<1> USE DEF orderVars, termVars
<1>1. TypeOK /\ [Next]_vars => Stays
  <2> SUFFICES ASSUME TypeOK, [Next]_vars, NEW o \in Orders, status[o] # "PENDING"
               PROVE  usage'[o] = usage[o] /\ total'[o] = total[o]
    OBVIOUS
  <2>1. ASSUME NEW p \in Orders, NEW c \in Coupons, ApplyCoupon(p, c)
        PROVE  usage'[o] = usage[o] /\ total'[o] = total[o]
    BY <2>1 DEF ApplyCoupon, TypeOK
  <2>2. ASSUME NEW p \in Orders, RemoveCoupon(p)
        PROVE  usage'[o] = usage[o] /\ total'[o] = total[o]
    BY <2>2 DEF RemoveCoupon, ReleaseCoupon, TypeOK
  <2>3. ASSUME NEW p \in Orders, Cancel(p)
        PROVE  usage'[o] = usage[o] /\ total'[o] = total[o]
    BY <2>3 DEF Cancel, ReleaseCoupon, TypeOK
  <2>4. ASSUME NEW p \in Orders, NEW new \in Statuses, TransitionStatus(p, new)
        PROVE  usage'[o] = usage[o] /\ total'[o] = total[o]
    BY <2>4 DEF TransitionStatus
  <2>5. ASSUME NEW c \in Coupons, AdminNext(c)
        PROVE  usage'[o] = usage[o] /\ total'[o] = total[o]
    BY <2>5 DEF AdminNext, AdminLoad, AdminGuard, AdminSave
  <2> QED BY <2>1, <2>2, <2>3, <2>4, <2>5 DEF Next, OrderNext, vars
<1>2. Spec => []IInv
  BY InvInit, InvStep, PTL DEF Spec
<1>3. IInv => TypeOK
  BY DEF IInv
<1>4. Spec => [][Stays]_vars
  BY <1>1, <1>2, <1>3, PTL DEF Spec
<1> QED BY <1>4 DEF ConfirmedUseStays
=============================================================================
