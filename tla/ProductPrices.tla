---------------------------- MODULE ProductPrices ----------------------------
(***************************************************************************)
(* Prices of variants, and the range of prices kept on their product.      *)
(*                                                                         *)
(* Every change of a price, and of a variant that counts for the range,    *)
(* is a transaction of PricingService: it locks the Product row, changes   *)
(* its own rows, computes the range from what is committed and its own     *)
(* changes, and publishes it at COMMIT.  A bulk update is one transaction  *)
(* of several such changes, so that it holds some products while it waits  *)
(* for another.  Staff also edit the product itself: PATCH reads the row   *)
(* without a lock and later writes every column back.                      *)
(*                                                                         *)
(* Abstractions.  A price is the effective one, and the checks of a price  *)
(* (above zero, the sale price not above the base price) only refuse a     *)
(* request.  Products are ACTIVE and are not deleted.                      *)
(***************************************************************************)
EXTENDS Integers, Sequences, FiniteSets, FiniteSetsExt

CONSTANTS
  Variants,
  Products,
  Workers,     \* requests that may be in flight at the same time
  Prices,      \* effective prices, in hundredths
  ProductOf,   \* ProductVariant.product
  Requested    \* bound: the changes staff ask for, more than one at a time
               \* only in a bulk update of prices

VARIABLES
  variants,    \* rows of variants with their Price
  bounds,      \* Product.min_price, max_price
  locked,      \* the worker that holds the Product row
  pricing,     \* what the workers are at
  overwritten, \* history: products whose range an edit has put back
  unrecorded   \* history: variants whose committed price was replaced without
               \* a PriceHistory row that says so

priceVars == <<variants, bounds, locked, pricing, overwritten, unrecorded>>

Gone == [price |-> -1, active |-> FALSE]
Unpriced == 0
NoPrices == [min |-> Unpriced, max |-> Unpriced]
Free == "free"
Idle == [step |-> "idle"]
Unwritten == [written |-> FALSE] \* a row that the transaction has not written

Exists(v) == variants[v] # Gone

-----------------------------------------------------------------------------
\* Changes of one variant: set_price, remove_price, set_variant_active,
\* delete_variant, and recalculate_product_bounds, which changes nothing.
Changes ==
  [kind : {"set"}, variant : Variants, price : Prices]
    \cup [kind : {"remove", "activate", "deactivate", "delete", "recalculate"},
          variant : Variants]

\* The row of a variant after a change; one that is gone stays so.
Changed(row, change) ==
  IF row = Gone THEN Gone
  ELSE CASE change.kind = "set"        -> [row EXCEPT !.price = change.price]
         [] change.kind = "remove"     -> [row EXCEPT !.price = Unpriced]
         [] change.kind = "activate"   -> [row EXCEPT !.active = TRUE]
         [] change.kind = "deactivate" -> [row EXCEPT !.active = FALSE]
         [] change.kind = "delete"     -> Gone
         [] OTHER                      -> row

\* What a transaction sees: what is committed, and the rows it has written.
Seen(written) ==
  [v \in Variants |-> IF written[v] = Unwritten THEN variants[v] ELSE written[v]]

\* _compute_price_bounds: only active variants count.
BoundsOf(p, rows) ==
  LET priced == {rows[v].price : v \in {w \in Variants : /\ ProductOf[w] = p
                                                         /\ rows[w].active
                                                         /\ rows[w].price # Unpriced}}
  IN IF priced = {} THEN NoPrices ELSE [min |-> Min(priced), max |-> Max(priced)]

\* remove_price publishes only if there was a price to remove.
Republishes(change, rows) ==
  change.kind = "remove" => rows[change.variant].price \notin {Gone.price, Unpriced}

\* A PriceHistory row: only set_price writes one, for a price there is.
History(change, rows) ==
  IF change.kind = "set" /\ rows[change.variant].price # Unpriced
    THEN {[variant |-> change.variant, old |-> rows[change.variant].price]}
    ELSE {}

\* A set of a variant that is gone fails at COMMIT on the foreign key, an
\* UPDATE of it at once; a deletion of it deletes nothing.
Works(change, rows) ==
  rows[change.variant] = Gone => change.kind \in {"remove", "delete", "recalculate"}

-----------------------------------------------------------------------------
\* A transaction that has written nothing yet.
Begun(changes) ==
  [step |-> "changing", todo |-> changes, rows |-> [v \in Variants |-> Unwritten],
   ranges |-> [p \in Products |-> Unwritten], log |-> {}]

\* The request has found its variants and waits for the first product.
Ask(w, changes) ==
  /\ pricing[w] = Idle
  /\ \A i \in DOMAIN changes : Exists(changes[i].variant)
  /\ pricing' = [pricing EXCEPT ![w] = Begun(changes)]
  /\ UNCHANGED <<variants, bounds, locked, overwritten, unrecorded>>

At(w, step) == pricing[w].step = step

Holds(w, p) == locked[p] = w

\* Mutant: the product is read, not locked.
ReadsWithoutLock(w, p) == TRUE

CanLock(w, p) == locked[p] \in {Free, w}

\* One change of the transaction: _locked_product, the change, and the range.
ChangeNext(w) ==
  /\ At(w, "changing") /\ pricing[w].todo # <<>>
  /\ LET mine == pricing[w]
         change == Head(mine.todo)
         p == ProductOf[change.variant]
         before == Seen(mine.rows)
         written == [mine.rows EXCEPT ![change.variant] = Changed(before[change.variant], change)]
         range == IF Republishes(change, before) THEN BoundsOf(p, Seen(written)) ELSE mine.ranges[p]
     IN /\ CanLock(w, p)
        /\ Works(change, before)
        /\ locked' = [locked EXCEPT ![p] = w]
        /\ pricing' = [pricing EXCEPT ![w] =
             [step |-> "changing", todo |-> Tail(mine.todo), rows |-> written,
              ranges |-> [mine.ranges EXCEPT ![p] = range],
              log |-> mine.log \cup History(change, before)]]
  /\ UNCHANGED <<variants, bounds, overwritten, unrecorded>>

Released(w) == [p \in Products |-> IF Holds(w, p) THEN Free ELSE locked[p]]

\* Variants whose price a transaction replaces without a row for the old one.
Unrecorded(transaction) ==
  LET after == Seen(transaction.rows) IN
  {v \in Variants :
     /\ {variants[v].price, after[v].price} \cap {Gone.price, Unpriced} = {}
     /\ variants[v].price # after[v].price
     /\ [variant |-> v, old |-> variants[v].price] \notin transaction.log}

Commit(w) ==
  /\ At(w, "changing") /\ pricing[w].todo = <<>>
  /\ variants' = Seen(pricing[w].rows)
  /\ LET ranges == pricing[w].ranges
         published == {p \in Products : ranges[p] # Unwritten}
     IN /\ bounds' = [p \in Products |-> IF p \in published THEN ranges[p] ELSE bounds[p]]
        /\ overwritten' = overwritten \ published
  /\ unrecorded' = unrecorded \cup Unrecorded(pricing[w])
  /\ locked' = Released(w)
  /\ pricing' = [pricing EXCEPT ![w] = Idle]

\* A refusal, a failure, or the victim of a deadlock: ROLLBACK.
Abort(w) ==
  /\ At(w, "changing")
  /\ locked' = Released(w)
  /\ pricing' = [pricing EXCEPT ![w] = Idle]
  /\ UNCHANGED <<variants, bounds, overwritten, unrecorded>>

-----------------------------------------------------------------------------
\* PATCH of a product: get_product_by_uuid, and later update_product, which
\* saves the whole row as it was read.
ReadProduct(w, p) ==
  /\ pricing[w] = Idle
  /\ pricing' = [pricing EXCEPT ![w] = [step |-> "editing", product |-> p, copy |-> bounds[p]]]
  /\ UNCHANGED <<variants, bounds, locked, overwritten, unrecorded>>

SaveProduct(w) ==
  /\ At(w, "editing")
  /\ LET p == pricing[w].product IN
       /\ locked[p] = Free
       /\ bounds' = [bounds EXCEPT ![p] = pricing[w].copy]
       /\ overwritten' = overwritten \cup (IF pricing[w].copy = bounds[p] THEN {} ELSE {p})
  /\ pricing' = [pricing EXCEPT ![w] = Idle]
  /\ UNCHANGED <<variants, locked, unrecorded>>

\* create of a variant: active, without a price.
CreateVariant(v) ==
  /\ ~Exists(v)
  /\ \A w \in Workers : pricing[w] = Idle
  /\ variants' = [variants EXCEPT ![v] = [price |-> Unpriced, active |-> TRUE]]
  /\ UNCHANGED <<bounds, locked, pricing, overwritten, unrecorded>>

-----------------------------------------------------------------------------
Init ==
  /\ variants = [v \in Variants |-> [price |-> Unpriced, active |-> TRUE]]
  /\ bounds = [p \in Products |-> NoPrices]
  /\ locked = [p \in Products |-> Free]
  /\ pricing = [w \in Workers |-> Idle]
  /\ overwritten = {}
  /\ unrecorded = {}

Next ==
  \/ \E w \in Workers :
       \/ \E changes \in Requested : Ask(w, changes)
       \/ ChangeNext(w) \/ Commit(w) \/ Abort(w)
       \/ \E p \in Products : ReadProduct(w, p)
       \/ SaveProduct(w)
  \/ \E v \in Variants : CreateVariant(v)

Spec == Init /\ [][Next]_priceVars

-----------------------------------------------------------------------------
\* The range shown in the catalogue is the range of the prices that are
\* charged: what a committed transaction published is what the committed
\* prices of active variants amount to, whatever other transactions did
\* meanwhile, unless the save of an edit has put an older range back since
\* (ARCH-001 Stage 2; pricing_service.py:90-96).  And a price that was charged
\* is in the history, with the price that was replaced.
PricesTrue ==
  /\ \A p \in Products : bounds[p] = BoundsOf(p, variants) \/ p \in overwritten
  /\ unrecorded = {}
=============================================================================
