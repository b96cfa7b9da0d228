------------------------------- MODULE Carts -------------------------------
(***************************************************************************)
(* Carts of users and guests, their merging, checkout and cleanup.         *)
(*                                                                         *)
(* A request first finds (or creates) the active cart of its user or       *)
(* session, in a transaction of its own, and then works on that row in a   *)
(* second one, whatever has become of the cart in between.  The second     *)
(* transaction is one action: checkout and merge hold the Cart row FOR     *)
(* UPDATE, against which the INSERT of a line waits, and a changed line is *)
(* locked from its reading to COMMIT.  Only a line that add_item does not  *)
(* find, and so cannot lock, is inserted in a step of its own.             *)
(*                                                                         *)
(* Abstractions.  A variant is `offered' when it and its product are       *)
(* active; all have a price and a Stock row.  Addresses, and the limits of *)
(* an order on its lines (200) and total, only refuse a checkout.  The two *)
(* TTLs, 14 and 30 days, are one: a cart is `fresh' or it is not.          *)
(***************************************************************************)
EXTENDS Integers, FiniteSets, FiniteSetsExt

CONSTANTS
  Carts,      \* rows that may exist at the same time
  Users, Guests, \* owners of carts: users and session keys
  Variants,
  Requests,   \* requests that may be in flight at the same time
  Nobody,     \* the owner of a row that does not exist
  MaxItems,   \* MAX_CART_ITEMS
  MaxQuantity,\* MAX_ITEM_QUANTITY
  MaxStock,   \* bound: the largest stock of a variant
  Changing,   \* bound: the variants whose stock and offer change
  MaxOrders   \* bound: orders placed

ASSUME OwnersAssumption == Users \cap Guests = {} /\ Nobody \notin Users \cup Guests
ASSUME CartsAssumption == IsFiniteSet(Carts) /\ IsFiniteSet(Variants)
ASSUME ChangingAssumption == Changing \subseteq Variants
ASSUME LimitsAssumption ==
  /\ MaxItems \in Nat /\ MaxQuantity \in Nat \ {0}
  /\ MaxStock \in Nat /\ MaxOrders \in Nat

VARIABLES
  owner,    \* Cart.user or Cart.session_key_hash
  active,   \* carts with is_active
  fresh,    \* carts whose updated_at is within the TTL
  qty,      \* CartItem.quantity, 0 for no row
  stock,    \* Stock.quantity
  offered,  \* variants on offer
  request,  \* what the requests in flight are at
  orders    \* number of orders placed

cartVars == <<owner, active, fresh, qty>>
shopVars == <<stock, offered>>
vars == <<cartVars, shopVars, request, orders>>

Owners == Users \cup Guests
Quantities == 1..MaxQuantity
NoLines == [v \in Variants |-> 0]

Idle == [step |-> "idle"]

Exists(c) == owner[c] # Nobody
ActiveCarts(who) == {c \in active : owner[c] = who}
LinesOf(c) == {v \in Variants : qty[c][v] > 0}

InUse(c) == \E r \in Requests : request[r] # Idle /\ request[r].cart = c

AtMost(m, n) == IF m <= n THEN m ELSE n

-----------------------------------------------------------------------------
\* Mutant: a new row for every request.
NewRow(who) == {c \in Carts : ~Exists(c) /\ ~InUse(c)}

\* The active cart of `who', or an unused row that becomes it.
Candidates(who) ==
  IF ActiveCarts(who) # {}
    THEN ActiveCarts(who)
    ELSE {c \in Carts : ~Exists(c) /\ ~InUse(c)}

\* get_or_create_cart.
Resolve(r, who) ==
  /\ request[r] = Idle
  /\ \E c \in Candidates(who) :
       /\ owner' = [owner EXCEPT ![c] = who]
       /\ active' = active \cup {c}
       /\ fresh' = IF Exists(c) THEN fresh ELSE fresh \cup {c}
       /\ request' = [request EXCEPT ![r] = [step |-> "resolved", cart |-> c]]
  /\ UNCHANGED <<qty, shopVars, orders>>

At(r, step) == request[r].step = step

\* The request ends, having set a line of its cart.
SetLine(r, v, n) ==
  /\ qty' = [qty EXCEPT ![request[r].cart][v] = n]
  /\ request' = [request EXCEPT ![r] = Idle]
  /\ UNCHANGED <<owner, active, fresh, shopVars, orders>>

\* add_item: its checks, which see at most a stock that is gone by COMMIT.
MayAdd(c, v, n) ==
  /\ v \in offered
  /\ Cardinality(LinesOf(c)) < MaxItems
  /\ qty[c][v] + n <= stock[v]

AddToLine(r, v, n) ==
  /\ At(r, "resolved")
  /\ LET c == request[r].cart IN
       /\ v \in LinesOf(c) /\ MayAdd(c, v, n)
       /\ qty[c][v] + n <= MaxQuantity
       /\ SetLine(r, v, qty[c][v] + n)

AddLine(r, v, n) ==
  /\ At(r, "resolved")
  /\ LET c == request[r].cart IN
       /\ v \notin LinesOf(c) /\ MayAdd(c, v, n)
       /\ request' = [request EXCEPT ![r] =
                        [step |-> "inserting", cart |-> c, variant |-> v, quantity |-> n]]
  /\ UNCHANGED <<cartVars, shopVars, orders>>

\* The INSERT, which fails if the line (unique_cart_variant) exists by now.
InsertLine(r) ==
  /\ At(r, "inserting")
  /\ Exists(request[r].cart) /\ request[r].variant \notin LinesOf(request[r].cart)
  /\ SetLine(r, request[r].variant, request[r].quantity)

\* update_item_quantity and remove_item look at neither the cart's state nor
\* the offer.
UpdateLine(r, v, n) ==
  /\ At(r, "resolved") /\ v \in LinesOf(request[r].cart)
  /\ n <= stock[v]
  /\ SetLine(r, v, n)

RemoveLine(r, v) ==
  /\ At(r, "resolved") /\ v \in LinesOf(request[r].cart)
  /\ SetLine(r, v, 0)

Clear(r) ==
  /\ At(r, "resolved")
  /\ qty' = [qty EXCEPT ![request[r].cart] = NoLines]
  /\ request' = [request EXCEPT ![r] = Idle]
  /\ UNCHANGED <<owner, active, fresh, shopVars, orders>>

\* create_from_cart.  The cart was active when it was resolved, and is not
\* looked at again once it is locked.
Checkout(r) ==
  /\ At(r, "resolved")
  /\ LET c == request[r].cart IN
       /\ owner[c] \in Users
       /\ LinesOf(c) \cap offered # {}
       /\ active' = active \ {c}
       /\ fresh' = fresh \cup {c}
  /\ orders < MaxOrders /\ orders' = orders + 1
  /\ request' = [request EXCEPT ![r] = Idle]
  /\ UNCHANGED <<owner, qty, shopVars>>

\* A request that was refused, only looked at the cart, or was cut off.
Refuse(r) ==
  /\ request[r] # Idle
  /\ request' = [request EXCEPT ![r] = Idle]
  /\ UNCHANGED <<cartVars, shopVars, orders>>

-----------------------------------------------------------------------------
\* merge_guest_into_user_cart, called with the guest's session key when a
\* user logs in.  Lines beyond MaxItems are left behind, in an order that
\* does not matter here; a quantity beyond MaxQuantity fails it altogether.

\* What cart c would have of v once guest cart g is merged into it.
Target(g, c, v) == AtMost(qty[c][v] + qty[g][v], stock[v])

Movable(g, c) == {v \in LinesOf(g) \cap offered : Target(g, c, v) > 0}

\* Mutant: the guest's cart stays active.
MergeCopies(who, user) ==
  /\ \E g \in ActiveCarts(who), c \in Candidates(user) :
       /\ owner' = [owner EXCEPT ![c] = user]
       /\ qty' = [qty EXCEPT ![c] =
                    [v \in Variants |-> IF v \in Movable(g, c) THEN Target(g, c, v) ELSE @[v]]]
       /\ active' = active \cup {c}
  /\ UNCHANGED <<fresh, shopVars, request, orders>>

Merge(who, user) ==
  /\ \E g \in ActiveCarts(who), c \in Candidates(user) :
       LET known == Movable(g, c) \cap LinesOf(c)
           new == Movable(g, c) \ LinesOf(c)
           room == MaxItems - Cardinality(LinesOf(c))
       IN \E moved \in {known \cup n : n \in SUBSET new} :
            /\ Cardinality(moved \ known) = AtMost(Cardinality(new), IF room > 0 THEN room ELSE 0)
            /\ \A v \in moved : Target(g, c, v) <= MaxQuantity
            /\ owner' = [owner EXCEPT ![c] = user]
            /\ qty' = [qty EXCEPT ![c] =
                         [v \in Variants |-> IF v \in moved THEN Target(g, c, v) ELSE @[v]]]
            /\ active' = (active \cup {c}) \ {g}
            /\ fresh' = fresh \cup {g} \cup {d \in {c} : ~Exists(d)}
  /\ UNCHANGED <<shopVars, request, orders>>

-----------------------------------------------------------------------------
\* cleanup_expired_carts, once a day: two statements, of which the second
\* does not touch updated_at.

DeleteInactive ==
  LET expired == {c \in Carts : Exists(c) /\ c \notin active \cup fresh} IN
  /\ expired # {}
  /\ owner' = [c \in Carts |-> IF c \in expired THEN Nobody ELSE owner[c]]
  /\ qty' = [c \in Carts |-> IF c \in expired THEN NoLines ELSE qty[c]]
  /\ UNCHANGED <<active, fresh, shopVars, request, orders>>

DeactivateGuests ==
  LET idle == {c \in active : owner[c] \in Guests /\ c \notin fresh} IN
  /\ idle # {}
  /\ active' = active \ idle
  /\ UNCHANGED <<owner, fresh, qty, shopVars, request, orders>>

-----------------------------------------------------------------------------
\* The shop around the carts: confirmed orders and deliveries of goods
\* (module OrderStock), staff who take goods off the shelf, and the days that
\* pass.

StockChanges(v, n) ==
  /\ n # stock[v]
  /\ stock' = [stock EXCEPT ![v] = n]
  /\ UNCHANGED <<cartVars, offered, request, orders>>

OfferChanges(v) ==
  /\ offered' = IF v \in offered THEN offered \ {v} ELSE offered \cup {v}
  /\ UNCHANGED <<cartVars, stock, request, orders>>

TimePasses ==
  /\ \A r \in Requests : request[r] = Idle
  /\ fresh # {}
  /\ fresh' = {}
  /\ UNCHANGED <<owner, active, qty, shopVars, request, orders>>

-----------------------------------------------------------------------------
Init ==
  /\ owner = [c \in Carts |-> Nobody]
  /\ active = {} /\ fresh = {}
  /\ qty = [c \in Carts |-> NoLines]
  /\ stock = [v \in Variants |-> MaxStock]
  /\ offered = Variants
  /\ request = [r \in Requests |-> Idle]
  /\ orders = 0

RequestNext(r) ==
  \/ \E who \in Owners : Resolve(r, who)
  \/ \E v \in Variants, n \in Quantities :
       AddToLine(r, v, n) \/ AddLine(r, v, n) \/ UpdateLine(r, v, n)
  \/ InsertLine(r)
  \/ \E v \in Variants : RemoveLine(r, v)
  \/ Clear(r)
  \/ Checkout(r)
  \/ Refuse(r)

ShopNext ==
  \/ \E v \in Changing : OfferChanges(v) \/ \E n \in 0..MaxStock : StockChanges(v, n)
  \/ TimePasses

Next ==
  \/ \E r \in Requests : RequestNext(r)
  \/ \E who \in Guests, user \in Users : Merge(who, user)
  \/ DeleteInactive \/ DeactivateGuests
  \/ ShopNext

Spec == Init /\ [][Next]_vars

-----------------------------------------------------------------------------
RequestStates ==
  {Idle} \cup [step : {"resolved"}, cart : Carts]
         \cup [step : {"inserting"}, cart : Carts, variant : Variants, quantity : Quantities]

TypeOK ==
  /\ owner \in [Carts -> Owners \cup {Nobody}]
  /\ active \subseteq Carts /\ fresh \subseteq Carts
  /\ qty \in [Carts -> [Variants -> 0..MaxQuantity]]
  /\ stock \in [Variants -> 0..MaxStock]
  /\ offered \subseteq Variants
  /\ request \in [Requests -> RequestStates]
  /\ orders \in 0..MaxOrders

\* Whatever requests, merges, checkouts and the cleanup do to each other, a
\* user or a session has at most one active cart, and its row exists
\* (unique_active_user_cart, unique_active_session_cart).
OneActiveCart ==
  /\ \A who \in Owners : Cardinality(ActiveCarts(who)) <= 1
  /\ \A c \in active : Exists(c)

ActiveUnits(v) == MapThenSumSet(LAMBDA c : qty[c][v], active)

\* A merge neither copies goods nor loses any that could be kept, however
\* often it is repeated: in the active carts together there are as many units
\* of a variant after it as before, unless the variant is no longer offered,
\* its stock is too low or the user's cart is full; and never more
\* (merge_guest_into_user_cart).
MergeMovesUnits ==
  [][\A who \in Guests, user \in Users :
       Merge(who, user) =>
         \A v \in Variants :
           /\ ActiveUnits(v)' <= ActiveUnits(v)
           /\ \/ ActiveUnits(v)' = ActiveUnits(v)
              \/ v \notin offered \/ ActiveUnits(v) > stock[v]
              \/ \E c \in ActiveCarts(user)' : Cardinality(LinesOf(c)') >= MaxItems]_vars

\* An order is only made from a cart that is active, so that goods are
\* ordered once (order_service.py:68, "Create an order from an active user's
\* cart"; the row is locked at :86-95).
OrdersFromActiveCarts ==
  [][orders' # orders =>
       \A r \in Requests : request'[r] # request[r] => request[r].cart \in active]_vars
=============================================================================
