------------------------------ MODULE Wishlists ------------------------------
(***************************************************************************)
(* One user's wishlist, its counter of items, and the way into the cart.   *)
(*                                                                         *)
(* Every operation is one transaction that takes no lock before its last   *)
(* statements: it looks at the rows first, and then changes the items and, *)
(* by F(), the counter on the Wishlist row.  Two requests of the user      *)
(* (two tabs, a double click) may both look before either changes.         *)
(*                                                                         *)
(* Abstractions.  CartService.add_item takes a variant that is offered and *)
(* refuses any other (module Carts has its own limits and races); notes    *)
(* and the order of the items are left out.                                *)
(***************************************************************************)
EXTENDS Integers, FiniteSets

CONSTANTS
  Variants,
  Tabs,             \* requests that may be in flight at the same time
  MaxWishlistItems, \* MAX_WISHLIST_ITEMS
  MaxPk             \* bound: items ever added

VARIABLES
  items,      \* WishlistItem rows
  lastPk,     \* the last primary key given out
  itemsCount, \* Wishlist.items_count
  inCart,     \* variants in the active cart
  sold,       \* variants on offer
  tab,        \* what the requests are at
  drifted     \* history: the counter has been changed for an item that was
              \* no longer there, or not changed for one that was

wishVars == <<items, lastPk, itemsCount, inCart, sold, tab, drifted>>

Idle == [step |-> "idle"]
ItemsOf(wanted) == {item \in items : item.variant \in wanted}
VariantsOf(rows) == {item.variant : item \in rows}

At(t, step) == tab[t].step = step

\* Greatest(F('items_count') - n, 0)
Less(n) == IF itemsCount >= n THEN itemsCount - n ELSE 0

-----------------------------------------------------------------------------
\* What a request has seen when it begins to change things.
Looked(t, step, seen) ==
  /\ tab[t] = Idle
  /\ tab' = [tab EXCEPT ![t] = [step |-> step, seen |-> seen]]
  /\ UNCHANGED <<items, lastPk, itemsCount, inCart, sold, drifted>>

\* add_item's checks: the limit, by the counter, and the item itself.
LookToAdd(t, v) ==
  /\ itemsCount < MaxWishlistItems /\ ItemsOf({v}) = {}
  /\ Looked(t, "adding", {v})

\* remove_item finds its item.
LookToRemove(t, item) == item \in items /\ Looked(t, "removing", {item})

\* move_to_cart lists the items asked for.
LookToMove(t, asked) == ItemsOf(asked) # {} /\ Looked(t, "moving", ItemsOf(asked))

\* The DELETE of clear.
LookToClear(t) == Looked(t, "clearing", items)

\* The INSERT, refused by wishlist_item_unique_variant if another request was
\* faster, and the counter.
AddItem(t) ==
  /\ At(t, "adding") /\ ItemsOf(tab[t].seen) = {}
  /\ lastPk < MaxPk /\ lastPk' = lastPk + 1
  /\ items' = items \cup {[variant |-> v, pk |-> lastPk'] : v \in tab[t].seen}
  /\ itemsCount' = itemsCount + 1
  /\ tab' = [tab EXCEPT ![t] = Idle]
  /\ UNCHANGED <<inCart, sold, drifted>>

\* The items of a request are gone, and the counter goes down by what the
\* request had seen.
Delete(t, gone) ==
  /\ items' = items \ gone
  /\ itemsCount' = Less(Cardinality(gone))
  /\ drifted' = (drifted \/ ~(gone \subseteq items))
  /\ tab' = [tab EXCEPT ![t] = Idle]

RemoveItem(t) ==
  /\ At(t, "removing")
  /\ Delete(t, tab[t].seen)
  /\ UNCHANGED <<lastPk, inCart, sold>>

Taken(t) == {item \in tab[t].seen : item.variant \in sold}

\* Mutant: every item that was looked at is counted as moved.
MoveCountsAll(t) ==
  /\ At(t, "moving")
  /\ inCart' = inCart \cup VariantsOf(Taken(t))
  /\ items' = items \ Taken(t)
  /\ drifted' = (drifted \/ ~(Taken(t) \subseteq items))
  /\ itemsCount' = Less(Cardinality(tab[t].seen))
  /\ tab' = [tab EXCEPT ![t] = Idle]
  /\ UNCHANGED <<lastPk, sold>>

\* Items the cart refuses stay in the list.
MoveToCart(t) ==
  /\ At(t, "moving")
  /\ inCart' = inCart \cup VariantsOf(Taken(t))
  /\ Delete(t, Taken(t))
  /\ UNCHANGED <<lastPk, sold>>

\* The counter is set to zero, whatever has been added since the DELETE.
Clear(t) ==
  /\ At(t, "clearing")
  /\ items' = items \ tab[t].seen
  /\ itemsCount' = 0
  /\ drifted' = (items' # {})
  /\ tab' = [tab EXCEPT ![t] = Idle]
  /\ UNCHANGED <<lastPk, inCart, sold>>

\* A refusal or a failure: ROLLBACK.
Refuse(t) ==
  /\ tab[t] # Idle
  /\ tab' = [tab EXCEPT ![t] = Idle]
  /\ UNCHANGED <<items, lastPk, itemsCount, inCart, sold, drifted>>

-----------------------------------------------------------------------------
\* The shop: a variant is taken off or put back, or its row is deleted and
\* takes its item with it, which the counter does not notice.

OfferChanges(v) ==
  /\ sold' = IF v \in sold THEN sold \ {v} ELSE sold \cup {v}
  /\ UNCHANGED <<items, lastPk, itemsCount, inCart, tab, drifted>>

DeleteVariant(v) ==
  /\ v \in sold
  /\ sold' = sold \ {v} /\ inCart' = inCart \ {v}
  /\ items' = items \ ItemsOf({v})
  /\ drifted' = (drifted \/ ItemsOf({v}) # {})
  /\ UNCHANGED <<lastPk, itemsCount, tab>>

CheckOut == inCart' = {} /\ UNCHANGED <<items, lastPk, itemsCount, sold, tab, drifted>>

-----------------------------------------------------------------------------
Init ==
  /\ items = {} /\ lastPk = 0 /\ itemsCount = 0 /\ inCart = {} /\ sold = Variants
  /\ tab = [t \in Tabs |-> Idle] /\ drifted = FALSE

TabNext(t) ==
  \/ \E v \in Variants : LookToAdd(t, v)
  \/ \E item \in items : LookToRemove(t, item)
  \/ \E asked \in SUBSET Variants : LookToMove(t, asked)
  \/ LookToClear(t)
  \/ AddItem(t) \/ RemoveItem(t) \/ MoveToCart(t) \/ Clear(t) \/ Refuse(t)

Next ==
  \/ \E t \in Tabs : TabNext(t)
  \/ \E v \in Variants : OfferChanges(v) \/ DeleteVariant(v)
  \/ CheckOut

Spec == Init /\ [][Next]_wishVars

-----------------------------------------------------------------------------
\* The counter by which the limit is enforced is the number of items, and so
\* the list never grows beyond the limit, unless two requests changed the
\* same item, an item was added while the list was cleared, or a listed
\* variant was deleted; clearing the list sets the counter right again
\* (Wishlist.items_count, MAX_WISHLIST_ITEMS).  Two additions that pass the
\* limit together are the one way around it.
ItemsCounted == itemsCount = Cardinality(items) \/ drifted
=============================================================================
