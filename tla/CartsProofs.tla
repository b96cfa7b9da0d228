----------------------------- MODULE CartsProofs -----------------------------
(***************************************************************************)
(* Proofs about Carts for every set of rows, owners, variants and          *)
(* requests.  A request works on a row that it found some steps ago; that  *)
(* no row is used twice is because a new cart takes a row that neither     *)
(* exists nor is in use, and because every row of an active cart exists.   *)
(* What a merge moves is counted by adding up the units of both carts,     *)
(* before and after.                                                       *)
(***************************************************************************)
EXTENDS Carts, FiniteSetTheorems, WellFoundedInduction, TLAPS

\* No owner has two active carts, in terms of rows.
Apart == \A c, d \in active : owner[c] = owner[d] => c = d

Existing == \A c \in active : Exists(c)

IInv == TypeOK /\ Apart /\ Existing

-----------------------------------------------------------------------------
\* Types.

LEMMA CandidatesAreRows ==
  ASSUME TypeOK, NEW who
  PROVE  Candidates(who) \subseteq Carts
BY DEF Candidates, ActiveCarts, TypeOK

LEMMA RequestSteps ==
  ASSUME TypeOK, NEW r \in Requests
  PROVE  /\ request[r] \in RequestStates
         /\ request[r] # Idle => request[r].cart \in Carts
         /\ At(r, "resolved") => request[r] # Idle
         /\ At(r, "inserting") => /\ request[r].cart \in Carts
                                  /\ request[r].variant \in Variants
                                  /\ request[r].quantity \in Quantities
<1>1. request[r] \in RequestStates
  BY DEF TypeOK
<1>2. Idle.step = "idle"
  BY DEF Idle
<1>3. request[r] # Idle => request[r].cart \in Carts
  BY <1>1 DEF RequestStates
<1>4. ASSUME At(r, "inserting")
      PROVE  /\ request[r].cart \in Carts /\ request[r].variant \in Variants
             /\ request[r].quantity \in Quantities
  BY <1>1, <1>2, <1>4 DEF At, RequestStates
<1> QED BY <1>1, <1>2, <1>3, <1>4 DEF At

\* A line keeps its type if it is set to a quantity.
LEMMA LineSet ==
  ASSUME TypeOK, NEW r \in Requests, request[r] # Idle,
         NEW v \in Variants, NEW n \in 0..MaxQuantity, SetLine(r, v, n)
  PROVE  TypeOK'
<1>1. PICK c \in Carts : c = request[r].cart
  BY RequestSteps
<1>2. qty' = [qty EXCEPT ![c] = [qty[c] EXCEPT ![v] = n]]
  BY <1>1 DEF SetLine, TypeOK
<1>3. qty[c] \in [Variants -> 0..MaxQuantity]
  BY DEF TypeOK
<1>4. qty' \in [Carts -> [Variants -> 0..MaxQuantity]]
  BY <1>2, <1>3 DEF TypeOK
<1>5. request' \in [Requests -> RequestStates]
  BY DEF SetLine, TypeOK, RequestStates
<1> QED BY <1>4, <1>5 DEF SetLine, TypeOK, shopVars

LEMMA RequestTypes ==
  ASSUME TypeOK, NEW r \in Requests, RequestNext(r)
  PROVE  TypeOK'
<1> USE LimitsAssumption
<1> Quantities \subseteq 0..MaxQuantity
  BY DEF Quantities
<1>1. ASSUME NEW who \in Owners, Resolve(r, who)
      PROVE  TypeOK'
  <2>1. PICK c \in Candidates(who) :
          /\ owner' = [owner EXCEPT ![c] = who]
          /\ active' = active \cup {c}
          /\ fresh' = IF Exists(c) THEN fresh ELSE fresh \cup {c}
          /\ request' = [request EXCEPT ![r] = [step |-> "resolved", cart |-> c]]
    BY <1>1 DEF Resolve
  <2>2. c \in Carts
    BY CandidatesAreRows
  <2>3. request' \in [Requests -> RequestStates]
    BY <2>1, <2>2 DEF TypeOK, RequestStates
  <2> QED BY <1>1, <2>1, <2>2, <2>3 DEF Resolve, TypeOK, shopVars
<1>2. ASSUME NEW v \in Variants, NEW n \in Quantities, AddToLine(r, v, n)
      PROVE  TypeOK'
  <2>1. PICK c \in Carts : c = request[r].cart /\ request[r] # Idle
    BY <1>2, RequestSteps DEF AddToLine
  <2>2. qty[c][v] \in 0..MaxQuantity
    BY DEF TypeOK
  <2>3. PICK m \in 0..MaxQuantity : m = qty[c][v] + n
    BY <1>2, <2>1, <2>2 DEF AddToLine, Quantities
  <2> QED BY <1>2, <2>1, <2>3, LineSet DEF AddToLine
<1>3. ASSUME NEW v \in Variants, NEW n \in Quantities, AddLine(r, v, n)
      PROVE  TypeOK'
  <2>1. PICK c \in Carts : c = request[r].cart
    BY <1>3, RequestSteps DEF AddLine
  <2>2. request' = [request EXCEPT ![r] =
                      [step |-> "inserting", cart |-> c, variant |-> v, quantity |-> n]]
    BY <1>3, <2>1 DEF AddLine
  <2>3. request' \in [Requests -> RequestStates]
    BY <2>2 DEF TypeOK, RequestStates
  <2> QED BY <1>3, <2>3 DEF AddLine, TypeOK, cartVars, shopVars
<1>4. ASSUME NEW v \in Variants, NEW n \in Quantities, UpdateLine(r, v, n)
      PROVE  TypeOK'
  <2> n \in 0..MaxQuantity
    OBVIOUS
  <2> QED BY <1>4, RequestSteps, LineSet DEF UpdateLine
<1>5. CASE InsertLine(r)
  <2>1. PICK v \in Variants, n \in Quantities : v = request[r].variant /\ n = request[r].quantity
    BY <1>5, RequestSteps DEF InsertLine
  <2>2. request[r] # Idle
    BY <1>5 DEF InsertLine, At, Idle
  <2> n \in 0..MaxQuantity
    OBVIOUS
  <2> QED BY <1>5, <2>1, <2>2, LineSet DEF InsertLine
<1>6. ASSUME NEW v \in Variants, RemoveLine(r, v)
      PROVE  TypeOK'
  <2> 0 \in 0..MaxQuantity
    OBVIOUS
  <2> QED BY <1>6, RequestSteps, LineSet DEF RemoveLine
<1>7. CASE Clear(r)
  <2>1. PICK c \in Carts : c = request[r].cart
    BY <1>7, RequestSteps DEF Clear
  <2>2. NoLines \in [Variants -> 0..MaxQuantity]
    BY DEF NoLines
  <2>3. qty' \in [Carts -> [Variants -> 0..MaxQuantity]]
    BY <1>7, <2>1, <2>2 DEF Clear, TypeOK
  <2> QED BY <1>7, <2>3 DEF Clear, TypeOK, shopVars, RequestStates
<1>8. CASE Checkout(r)
  <2>1. PICK c \in Carts : c = request[r].cart
    BY <1>8, RequestSteps DEF Checkout
  <2>2. active' = active \ {c} /\ fresh' = fresh \cup {c}
    BY <1>8, <2>1 DEF Checkout
  <2> QED BY <1>8, <2>2 DEF Checkout, TypeOK, shopVars, RequestStates
<1>9. CASE Refuse(r)
  BY <1>9 DEF Refuse, TypeOK, cartVars, shopVars, RequestStates
<1> QED BY <1>1, <1>2, <1>3, <1>4, <1>5, <1>6, <1>7, <1>8, <1>9 DEF RequestNext
\* What a merge makes of the two carts.
Merged(who, user, g, c, moved) ==
  /\ owner' = [owner EXCEPT ![c] = user]
  /\ qty' = [qty EXCEPT ![c] = [v \in Variants |-> IF v \in moved THEN Target(g, c, v) ELSE qty[c][v]]]
  /\ active' = (active \cup {c}) \ {g}
  /\ fresh' = fresh \cup {g} \cup {d \in {c} : ~Exists(d)}

LEMMA MergeOfTwo ==
  ASSUME TypeOK, NEW who, NEW user, Merge(who, user)
  PROVE  \E g \in ActiveCarts(who), c \in Candidates(user), moved \in SUBSET Variants :
           /\ \A v \in moved : Target(g, c, v) \in 0..MaxQuantity
           /\ Merged(who, user, g, c, moved)
<1> USE LimitsAssumption
<1> DEFINE Moves(g, c, moved) ==
             /\ \A v \in moved : Target(g, c, v) <= MaxQuantity
             /\ owner' = [owner EXCEPT ![c] = user]
             /\ qty' = [qty EXCEPT ![c] =
                          [v \in Variants |-> IF v \in moved THEN Target(g, c, v) ELSE @[v]]]
             /\ active' = (active \cup {c}) \ {g}
             /\ fresh' = fresh \cup {g} \cup {d \in {c} : ~Exists(d)}
<1>1. PICK g \in ActiveCarts(who), c \in Candidates(user) :
        LET known == Movable(g, c) \cap LinesOf(c)
            new == Movable(g, c) \ LinesOf(c)
        IN \E moved \in {known \cup n : n \in SUBSET new} : Moves(g, c, moved)
  BY Zenon DEF Merge
<1>2. PICK moved \in SUBSET Movable(g, c) : Moves(g, c, moved)
  <2>1. PICK n \in SUBSET (Movable(g, c) \ LinesOf(c)) :
          Moves(g, c, (Movable(g, c) \cap LinesOf(c)) \cup n)
    <3> HIDE DEF Moves
    <3> QED BY <1>1
  <2>2. (Movable(g, c) \cap LinesOf(c)) \cup n \in SUBSET Movable(g, c)
    OBVIOUS
  <2> HIDE DEF Moves
  <2> QED BY <2>1, <2>2
<1>3. g \in Carts /\ c \in Carts
  BY CandidatesAreRows DEF ActiveCarts, TypeOK
<1>4. moved \subseteq Variants
  BY DEF Movable, LinesOf
<1>5. ASSUME NEW v \in moved
      PROVE  Target(g, c, v) \in 0..MaxQuantity
  <2>1. v \in Variants /\ Target(g, c, v) > 0 /\ Target(g, c, v) <= MaxQuantity
    BY <1>2, <1>4 DEF Movable
  <2>2. qty[c][v] \in Nat /\ qty[g][v] \in Nat /\ stock[v] \in Nat
    BY <1>3, <2>1 DEF TypeOK
  <2>3. Target(g, c, v) \in Int
    BY <2>2 DEF Target, AtMost
  <2> QED BY <2>1, <2>3
<1>6. Merged(who, user, g, c, moved)
  BY <1>2, <1>3 DEF Merged, TypeOK
<1> QED BY <1>4, <1>5, <1>6

LEMMA MergeTypes ==
  ASSUME TypeOK, NEW who \in Guests, NEW user \in Users, Merge(who, user)
  PROVE  TypeOK'
<1> USE LimitsAssumption
<1>1. PICK g \in ActiveCarts(who), c \in Candidates(user), moved \in SUBSET Variants :
         /\ \A v \in moved : Target(g, c, v) \in 0..MaxQuantity
         /\ Merged(who, user, g, c, moved)
  BY MergeOfTwo
<1>2. g \in Carts /\ c \in Carts
  BY CandidatesAreRows DEF ActiveCarts, TypeOK
<1>3. [v \in Variants |-> IF v \in moved THEN Target(g, c, v) ELSE qty[c][v]]
        \in [Variants -> 0..MaxQuantity]
  BY <1>1, <1>2 DEF TypeOK
<1>4. qty' \in [Carts -> [Variants -> 0..MaxQuantity]]
  BY <1>1, <1>2, <1>3 DEF Merged, TypeOK
<1>5. owner' \in [Carts -> Owners \cup {Nobody}]
  BY <1>1, <1>2 DEF Merged, TypeOK, Owners
<1> QED BY <1>1, <1>2, <1>4, <1>5 DEF Merge, Merged, TypeOK, shopVars

LEMMA ShopTypes ==
  ASSUME TypeOK, DeleteInactive \/ DeactivateGuests \/ ShopNext
  PROVE  TypeOK'
<1> USE LimitsAssumption
<1>2. CASE DeleteInactive
  <2>1. NoLines \in [Variants -> 0..MaxQuantity]
    BY DEF NoLines
  <2>2. /\ owner' \in [Carts -> Owners \cup {Nobody}]
        /\ qty' \in [Carts -> [Variants -> 0..MaxQuantity]]
    BY <1>2, <2>1 DEF DeleteInactive, TypeOK
  <2> QED BY <1>2, <2>2 DEF DeleteInactive, TypeOK, shopVars
<1>3. CASE DeactivateGuests
  BY <1>3 DEF DeactivateGuests, TypeOK, shopVars
<1>4. CASE ShopNext
  <2>1. ASSUME NEW v \in Changing, OfferChanges(v)
        PROVE  TypeOK'
    BY <2>1, ChangingAssumption DEF OfferChanges, TypeOK, cartVars
  <2>2. ASSUME NEW v \in Changing, NEW n \in 0..MaxStock, StockChanges(v, n)
        PROVE  TypeOK'
    BY <2>2, ChangingAssumption DEF StockChanges, TypeOK, cartVars
  <2>3. CASE TimePasses
    BY <2>3 DEF TimePasses, TypeOK, shopVars
  <2> QED BY <1>4, <2>1, <2>2, <2>3 DEF ShopNext
<1> QED BY <1>2, <1>3, <1>4

-----------------------------------------------------------------------------
\* Carts of one owner.

LEMMA InvInit == Init => IInv
<1> USE LimitsAssumption
<1>1. NoLines \in [Variants -> 0..MaxQuantity]
  BY DEF NoLines
<1> QED BY <1>1 DEF Init, IInv, TypeOK, Apart, Existing, RequestStates

\* The row that becomes, or already is, the active cart of `who'.
LEMMA CandidateTaken ==
  ASSUME IInv, NEW who \in Owners, NEW c \in Candidates(who),
         owner' = [owner EXCEPT ![c] = who], active' \subseteq active \cup {c}
  PROVE  Apart' /\ Existing'
<1>1. c \in Carts
  BY CandidatesAreRows DEF IInv
<1>2. owner' \in [Carts -> Owners \cup {Nobody}] /\ active' \subseteq Carts
  BY <1>1 DEF IInv, TypeOK
<1>3. /\ owner'[c] = who
      /\ \A d \in Carts : d # c => owner'[d] = owner[d]
  BY <1>1 DEF IInv, TypeOK
<1>4. ASSUME NEW d \in active, owner[d] = who
      PROVE  d = c
  <2>1. d \in ActiveCarts(who)
    BY <1>4 DEF ActiveCarts
  <2>2. c \in ActiveCarts(who)
    BY <2>1 DEF Candidates
  <2> QED BY <1>4, <2>2 DEF ActiveCarts, IInv, Apart
<1>5. Apart'
  BY <1>1, <1>2, <1>3, <1>4 DEF IInv, TypeOK, Apart
<1>6. who # Nobody
  BY OwnersAssumption DEF Owners
<1>7. Existing'
  BY <1>1, <1>2, <1>3, <1>6 DEF IInv, TypeOK, Existing, Exists
<1> QED BY <1>5, <1>7

\* A step that changes no owner of an active cart, and activates none.
LEMMA NoneActivated ==
  ASSUME IInv, active' \subseteq active, \A c \in active' : owner'[c] = owner[c]
  PROVE  Apart' /\ Existing'
BY DEF IInv, Apart, Existing, Exists

LEMMA InvStep == IInv /\ [Next]_vars => IInv'
<1> SUFFICES ASSUME IInv, [Next]_vars
             PROVE  IInv'
  OBVIOUS
<1> TypeOK
  BY DEF IInv
<1>1. ASSUME NEW r \in Requests, RequestNext(r)
      PROVE  IInv'
  <2>1. TypeOK'
    BY <1>1, RequestTypes
  <2>2. ASSUME NEW who \in Owners, Resolve(r, who)
        PROVE  Apart' /\ Existing'
    BY <2>2, CandidateTaken DEF Resolve
  <2>3. CASE Checkout(r)
    <3>1. active' \subseteq active /\ \A c \in active' : owner'[c] = owner[c]
      BY <2>3 DEF Checkout
    <3> QED BY <2>1, <3>1, NoneActivated DEF IInv
  <2>4. CASE UNCHANGED <<owner, active>>
    BY <2>1, <2>4, NoneActivated DEF IInv
  <2>5. \/ \E who \in Owners : Resolve(r, who)
        \/ Checkout(r)
        \/ UNCHANGED <<owner, active>>
    BY <1>1 DEF RequestNext, AddToLine, AddLine, UpdateLine, InsertLine, RemoveLine, SetLine,
                Clear, Refuse, cartVars
  <2> QED BY <2>1, <2>2, <2>3, <2>4, <2>5 DEF IInv
<1>2. ASSUME NEW who \in Guests, NEW user \in Users, Merge(who, user)
      PROVE  IInv'
  <2>1. TypeOK'
    BY <1>2, MergeTypes
  <2>2. PICK g \in ActiveCarts(who), c \in Candidates(user), moved \in SUBSET Variants :
           Merged(who, user, g, c, moved)
    BY <1>2, MergeOfTwo
  <2>3. Apart' /\ Existing'
    BY <2>2, CandidateTaken DEF Merged, Owners
  <2> QED BY <2>1, <2>3 DEF IInv
<1>3. CASE DeleteInactive
  <2>1. \A c \in active : owner'[c] = owner[c]
    BY <1>3 DEF DeleteInactive, TypeOK
  <2> QED BY <1>3, <2>1, NoneActivated, ShopTypes DEF DeleteInactive, IInv
<1>4. CASE DeactivateGuests
  BY <1>4, NoneActivated, ShopTypes DEF DeactivateGuests, IInv
<1>5. CASE ShopNext
  <2>1. UNCHANGED <<owner, active>>
    BY <1>5 DEF ShopNext, OfferChanges, StockChanges, TimePasses, cartVars
  <2> QED BY <1>5, <2>1, NoneActivated, ShopTypes DEF IInv
<1>6. CASE UNCHANGED vars
  BY <1>6 DEF IInv, TypeOK, Apart, Existing, Exists, vars, cartVars, shopVars
<1> QED BY <1>1, <1>2, <1>3, <1>4, <1>5, <1>6 DEF Next

\* Types hold and the owners of the active carts differ in every state.
LEMMA CartsCorrect == Spec => []IInv
BY InvInit, InvStep, PTL DEF Spec

\* Counted by owner, as the constraints of the table do.
LEMMA CountedByOwner == IInv => OneActiveCart
<1> SUFFICES ASSUME IInv
             PROVE  OneActiveCart
  OBVIOUS
<1>1. ASSUME NEW who \in Owners
      PROVE  Cardinality(ActiveCarts(who)) <= 1
  <2>1. CASE ActiveCarts(who) = {}
    BY <2>1, FS_EmptySet
  <2>2. ASSUME NEW c \in ActiveCarts(who)
        PROVE  Cardinality(ActiveCarts(who)) <= 1
    <3>1. ActiveCarts(who) = {c}
      BY <2>2 DEF ActiveCarts, IInv, Apart
    <3> QED BY <3>1, FS_Singleton
  <2> QED BY <2>1, <2>2
<1> QED BY <1>1 DEF OneActiveCart, IInv, Existing

\* A user or a session has one active cart at most, whose row exists, for
\* every number of users, rows and concurrent requests.
THEOREM CartIsOne == Spec => []OneActiveCart
BY CartsCorrect, CountedByOwner, PTL

-----------------------------------------------------------------------------
\* The units that a merge moves.

UnitsOf(q, v, S) == MapThenSumSet(LAMBDA c : q[c][v], S)

AddsUp(g, q, v, S) ==
  g = [T \in SUBSET S |-> IF T = {} THEN 0
                          ELSE LET c == CHOOSE e \in T : TRUE
                               IN  q[c][v] + g[T \ {c}]]

\* What adds up like the sum, one cart at a time, is the sum.
LEMMA SumIs ==
  ASSUME NEW S, IsFiniteSet(S), NEW q, NEW v, NEW g, AddsUp(g, q, v, S)
  PROVE  UnitsOf(q, v, S) = g[S]
<1> DEFINE Sums(h) == [T \in SUBSET S |-> IF T = {} THEN 0
                                          ELSE LET c == CHOOSE e \in T : TRUE
                                               IN  q[c][v] + h[T \ {c}]]
<1>1. UnitsOf(q, v, S) = (CHOOSE h : h = Sums(h))[S]
  BY Zenon DEF UnitsOf, MapThenSumSet, MapThenFoldSet
<1>2. g = Sums(g)
  BY DEF AddsUp
<1>3. PICK h : h = Sums(h) /\ UnitsOf(q, v, S) = h[S]
  <2> HIDE DEF Sums
  <2> QED BY <1>1, <1>2, Zenon
<1> DEFINE Differ == {T \in SUBSET S : h[T] # g[T]}
<1>4. Differ = {}
  <2> SUFFICES ASSUME Differ # {} PROVE FALSE
    OBVIOUS
  <2>1. PICK R : R = {ss \in Nat \X Nat : ss[1] < ss[2]}
    OBVIOUS
  <2>2. IsWellFoundedOn(R, Nat)
    BY <2>1, NatLessThanWellFounded DEF OpToRel
  <2>3. PICK Sizes : Sizes = {Cardinality(T) : T \in Differ}
    OBVIOUS
  <2>4. \A T \in SUBSET S : IsFiniteSet(T) /\ Cardinality(T) \in Nat
    BY FS_Subset, FS_CardinalityType
  <2>5. Sizes \subseteq Nat /\ Sizes # {}
    <3>1. \A T \in Differ : Cardinality(T) \in Nat
      BY <2>4
    <3> HIDE DEF Differ
    <3> QED BY <2>3, <3>1
  <2>6. PICK least \in Sizes : \A n \in Sizes : ~(<<n, least>> \in R)
    BY <2>2, <2>5, WFMin
  <2>7. PICK T \in Differ : least = Cardinality(T)
    BY <2>3, <2>6
  <2>8. CASE T = {}
    <3>1. h[T] = 0 /\ g[T] = 0
      BY <1>2, <1>3, <2>8
    <3> QED BY <2>7, <3>1
  <2>9. CASE T # {}
    <3>1. PICK c \in T : c = CHOOSE e \in T : TRUE
      BY <2>9
    <3>2. h[T] = q[c][v] + h[T \ {c}] /\ g[T] = q[c][v] + g[T \ {c}]
      BY <1>2, <1>3, <2>9, <3>1
    <3>3. T \ {c} \in SUBSET S /\ Cardinality(T \ {c}) = Cardinality(T) - 1
      BY <2>4, FS_RemoveElement
    <3>4. Cardinality(T \ {c}) < Cardinality(T) /\ Cardinality(T) \in Nat /\ Cardinality(T \ {c}) \in Nat
      BY <2>4, <3>3
    <3>5. T \ {c} \notin Differ
      BY <2>1, <2>3, <2>6, <2>7, <3>4
    <3> QED BY <2>7, <3>2, <3>3, <3>5
  <2> QED BY <2>8, <2>9
<1>5. h[S] = g[S]
  BY <1>4
<1> QED BY <1>3, <1>5

\* The units of v in the carts T, one by one.
Units(q, v, T) == {u \in T \X Quantities : u[2] <= q[u[1]][v]}

LEMMA UnitsFinite ==
  ASSUME NEW q, NEW v, NEW T, IsFiniteSet(T)
  PROVE  IsFiniteSet(Units(q, v, T)) /\ Cardinality(Units(q, v, T)) \in Nat
<1>1. IsFiniteSet(Quantities)
  BY FS_Interval, LimitsAssumption DEF Quantities
<1>2. IsFiniteSet(T \X Quantities)
  BY <1>1, FS_Product
<1>3. Units(q, v, T) \in SUBSET (T \X Quantities)
  BY DEF Units
<1> QED BY <1>2, <1>3, FS_Subset, FS_CardinalityType

\* One cart's units, and those of the others.
LEMMA UnitsSplit ==
  ASSUME NEW q, NEW v, NEW T, IsFiniteSet(T), NEW c \in T, q[c][v] \in 0..MaxQuantity
  PROVE  Cardinality(Units(q, v, T)) = q[c][v] + Cardinality(Units(q, v, T \ {c}))
<1>1. PICK A, B, n : A = Units(q, v, {c}) /\ B = Units(q, v, T \ {c}) /\ n = q[c][v]
  OBVIOUS
<1>2. Units(q, v, T) = (A \cup B) /\ A \cap B = {}
  BY <1>1 DEF Units
<1>3. IsFiniteSet(A) /\ IsFiniteSet(B) /\ Cardinality(A) \in Nat /\ Cardinality(B) \in Nat
  BY <1>1, UnitsFinite, FS_Singleton, FS_Subset
<1>4. Cardinality(A) = n
  <2>1. PICK f : f = [i \in 1..n |-> <<c, i>>]
    OBVIOUS
  <2>2. n \in Nat /\ n <= MaxQuantity /\ MaxQuantity \in Nat
    BY <1>1, LimitsAssumption
  <2>3. A = {<<c, i>> : i \in 1..n}
    <3>1. \A u \in A : u[1] = c /\ u[2] \in 1..n /\ u = <<c, u[2]>>
      BY <1>1, <2>2 DEF Units, Quantities
    <3>2. \A i \in 1..n : <<c, i>> \in A
      BY <1>1, <2>2 DEF Units, Quantities
    <3> QED BY <3>1, <3>2
  <2>4. f \in Bijection(1..n, A)
    <3>1. f \in [1..n -> A]
      BY <2>1, <2>3
    <3>2. \A i, j \in 1..n : f[i] = f[j] => i = j
      BY <2>1
    <3>3. \A u \in A : \E i \in 1..n : f[i] = u
      BY <2>1, <2>3
    <3> QED BY <3>1, <3>2, <3>3 DEF Bijection, Injection, IsInjective, Surjection
  <2>5. ExistsBijection(1..n, A)
    BY <2>4 DEF ExistsBijection
  <2> QED BY <2>2, <2>5, FS_CountingElements
<1>5. Cardinality(A \cup B) = Cardinality(A) + Cardinality(B) - Cardinality(A \cap B)
  BY <1>3, FS_Union
<1>6. Cardinality(A \cap B) = 0
  BY <1>2, FS_EmptySet
<1>7. Cardinality(A \cup B) = n + Cardinality(B)
  BY <1>3, <1>4, <1>5, <1>6
<1> QED BY <1>1, <1>2, <1>7

LEMMA SumOfUnits ==
  ASSUME NEW S, IsFiniteSet(S), NEW q, NEW v, \A c \in S : q[c][v] \in 0..MaxQuantity
  PROVE  UnitsOf(q, v, S) = Cardinality(Units(q, v, S))
<1>1. PICK g : g = [T \in SUBSET S |-> Cardinality(Units(q, v, T))]
  OBVIOUS
<1>2. ASSUME NEW T \in SUBSET S
      PROVE  g[T] = IF T = {} THEN 0
                    ELSE LET c == CHOOSE e \in T : TRUE
                         IN  q[c][v] + g[T \ {c}]
  <2>1. CASE T = {}
    <3>1. Units(q, v, T) = {}
      BY <2>1 DEF Units
    <3> QED BY <1>1, <2>1, <3>1, FS_EmptySet
  <2>2. CASE T # {}
    <3>1. PICK c \in T : c = CHOOSE e \in T : TRUE
      BY <2>2
    <3>2. IsFiniteSet(T) /\ T \ {c} \in SUBSET S
      BY FS_Subset
    <3>3. g[T] = q[c][v] + g[T \ {c}]
      BY <1>1, <3>2, UnitsSplit
    <3> QED BY <2>2, <3>1, <3>3
  <2> QED BY <2>1, <2>2
<1>3. AddsUp(g, q, v, S)
  BY <1>1, <1>2 DEF AddsUp
<1>4. UnitsOf(q, v, S) = g[S]
  BY <1>3, SumIs
<1> QED BY <1>1, <1>4

\* A row that does not exist has no lines, so that a merge into it takes over
\* the guest's and nothing else.
Empty == \A c \in Carts : ~Exists(c) => qty[c] = NoLines

LEMMA EmptyKept == IInv /\ Empty /\ [Next]_vars => Empty'
<1> SUFFICES ASSUME IInv, Empty, [Next]_vars
             PROVE  Empty'
  OBVIOUS
<1>1. /\ owner \in [Carts -> Owners \cup {Nobody}]
      /\ qty \in [Carts -> [Variants -> 0..MaxQuantity]]
  BY DEF IInv, TypeOK
<1> TypeOK
  BY DEF IInv
<1>2. ASSUME NEW r \in Requests, NEW v \in Variants, NEW n, SetLine(r, v, n), At(r, "resolved") \/ At(r, "inserting"),
             v \in LinesOf(request[r].cart) \/ Exists(request[r].cart)
      PROVE  Empty'
  <2>1. PICK c \in Carts : c = request[r].cart
    BY <1>2, RequestSteps
  <2>2. owner' = owner /\ \A d \in Carts : d # c => qty'[d] = qty[d]
    BY <1>1, <1>2, <2>1 DEF SetLine
  <2>3. Exists(c)
    BY <1>2, <2>1 DEF LinesOf, Empty, NoLines
  <2> QED BY <2>2, <2>3 DEF Empty, Exists
<1>3. ASSUME NEW r \in Requests, RequestNext(r)
      PROVE  Empty'
  <2>1. ASSUME NEW who \in Owners, Resolve(r, who)
        PROVE  Empty'
    <3>1. PICK c \in Candidates(who) : owner' = [owner EXCEPT ![c] = who]
      BY <2>1 DEF Resolve
    <3>2. c \in Carts /\ who # Nobody /\ qty' = qty
      BY <2>1, CandidatesAreRows, OwnersAssumption DEF Resolve, Owners
    <3> QED BY <1>1, <3>1, <3>2 DEF Empty, Exists
  <2>2. CASE Clear(r)
    <3>1. PICK c \in Carts : c = request[r].cart
      BY <2>2, RequestSteps DEF Clear
    <3>2. owner' = owner /\ qty' = [qty EXCEPT ![c] = NoLines]
      BY <2>2, <3>1 DEF Clear
    <3> QED BY <1>1, <3>2 DEF Empty, Exists
  <2>3. CASE UNCHANGED <<owner, qty>>
    BY <2>3 DEF Empty, Exists
  <2>4. ASSUME NEW v \in Variants, NEW n, AddToLine(r, v, n) \/ UpdateLine(r, v, n)
        PROVE  Empty'
    BY <1>2, <2>4 DEF AddToLine, UpdateLine
  <2>5. ASSUME NEW v \in Variants, RemoveLine(r, v)
        PROVE  Empty'
    BY <1>2, <2>5 DEF RemoveLine
  <2>6. CASE InsertLine(r)
    <3>1. request[r].variant \in Variants
      BY <2>6, RequestSteps DEF InsertLine
    <3> QED BY <1>2, <2>6, <3>1 DEF InsertLine
  <2> QED BY <1>3, <2>1, <2>2, <2>3, <2>4, <2>5, <2>6
          DEF RequestNext, AddLine, Checkout, Refuse, cartVars
<1>4. ASSUME NEW who \in Guests, NEW user \in Users, Merge(who, user)
      PROVE  Empty'
  <2>1. PICK g \in ActiveCarts(who), c \in Candidates(user), moved \in SUBSET Variants :
           Merged(who, user, g, c, moved)
    BY <1>4, MergeOfTwo
  <2>2. c \in Carts /\ user # Nobody
    BY CandidatesAreRows, OwnersAssumption
  <2>3. /\ owner'[c] = user
        /\ \A d \in Carts : d # c => owner'[d] = owner[d] /\ qty'[d] = qty[d]
    BY <1>1, <2>1, <2>2 DEF Merged
  <2> QED BY <2>2, <2>3 DEF Empty, Exists
<1>5. CASE DeleteInactive
  BY <1>1, <1>5 DEF DeleteInactive, Empty, Exists
<1>6. CASE DeactivateGuests \/ ShopNext \/ UNCHANGED vars
  <2>1. UNCHANGED <<owner, qty>>
    BY <1>6 DEF DeactivateGuests, ShopNext, OfferChanges, StockChanges, TimePasses, vars, cartVars
  <2> QED BY <2>1 DEF Empty, Exists
<1> QED BY <1>3, <1>4, <1>5, <1>6 DEF Next

\* What a merge does to one variant, given how many of the guest's lines had
\* room in the user's cart.
LEMMA MergeOfLines ==
  ASSUME IInv, NEW who \in Guests, NEW user \in Users, Merge(who, user)
  PROVE  \E g \in ActiveCarts(who), c \in Candidates(user), moved \in SUBSET Variants :
           /\ Merged(who, user, g, c, moved)
           /\ moved \subseteq Movable(g, c)
           /\ Movable(g, c) \cap LinesOf(c) \subseteq moved
           /\ \A v \in moved : Target(g, c, v) <= MaxQuantity
           /\ moved # Movable(g, c) => Cardinality(LinesOf(c) \cup moved) >= MaxItems
<1> USE LimitsAssumption
<1> DEFINE Moves(g, c, known, new, moved) ==
             /\ Cardinality(moved \ known) =
                  AtMost(Cardinality(new), IF MaxItems - Cardinality(LinesOf(c)) > 0
                                           THEN MaxItems - Cardinality(LinesOf(c)) ELSE 0)
             /\ \A v \in moved : Target(g, c, v) <= MaxQuantity
             /\ owner' = [owner EXCEPT ![c] = user]
             /\ qty' = [qty EXCEPT ![c] =
                          [v \in Variants |-> IF v \in moved THEN Target(g, c, v) ELSE @[v]]]
             /\ active' = (active \cup {c}) \ {g}
             /\ fresh' = fresh \cup {g} \cup {d \in {c} : ~Exists(d)}
<1>1. PICK g \in ActiveCarts(who), c \in Candidates(user) :
        LET known == Movable(g, c) \cap LinesOf(c)
            new == Movable(g, c) \ LinesOf(c)
        IN \E moved \in {known \cup n : n \in SUBSET new} : Moves(g, c, known, new, moved)
  BY Zenon DEF Merge
<1>2. g \in Carts /\ c \in Carts
  BY CandidatesAreRows DEF ActiveCarts, IInv, TypeOK
<1>3. PICK known, new : known = Movable(g, c) \cap LinesOf(c) /\ new = Movable(g, c) \ LinesOf(c)
  OBVIOUS
<1>4. PICK n, moved : n \in SUBSET new /\ moved = known \cup n /\ Moves(g, c, known, new, moved)
  <2> HIDE DEF Moves
  <2> QED BY <1>1, <1>3
<1>5. /\ moved \in SUBSET Movable(g, c) /\ known \subseteq moved /\ moved \ known = n
      /\ moved \in SUBSET Variants
  BY <1>3, <1>4 DEF Movable, LinesOf
<1>6. Merged(who, user, g, c, moved)
  BY <1>2, <1>4 DEF Merged, IInv, TypeOK
<1>7. ASSUME moved # Movable(g, c)
      PROVE  Cardinality(LinesOf(c) \cup moved) >= MaxItems
  <2>1. n # new
    BY <1>3, <1>4, <1>7
  <2>2. /\ IsFiniteSet(LinesOf(c)) /\ IsFiniteSet(new) /\ IsFiniteSet(n)
        /\ Cardinality(LinesOf(c)) \in Nat /\ Cardinality(new) \in Nat /\ Cardinality(n) \in Nat
        /\ Cardinality(n) < Cardinality(new)
    <3>1. new \in SUBSET Variants /\ LinesOf(c) \in SUBSET Variants
      BY <1>3 DEF Movable, LinesOf
    <3>2. IsFiniteSet(LinesOf(c)) /\ IsFiniteSet(new)
      BY <3>1, FS_Subset, CartsAssumption
    <3> QED BY <1>4, <2>1, <3>2, FS_Subset, FS_CardinalityType
  <2>3. Cardinality(n) = IF MaxItems - Cardinality(LinesOf(c)) > 0
                         THEN MaxItems - Cardinality(LinesOf(c)) ELSE 0
    <3>1. PICK room : room = IF MaxItems - Cardinality(LinesOf(c)) > 0
                             THEN MaxItems - Cardinality(LinesOf(c)) ELSE 0
      OBVIOUS
    <3>2. Cardinality(moved \ known) = AtMost(Cardinality(new), room)
      BY <1>4, <3>1
    <3>3. Cardinality(n) = AtMost(Cardinality(new), room)
      BY <1>5, <3>2
    <3>4. AtMost(Cardinality(new), room) \in {Cardinality(new), room}
      BY DEF AtMost
    <3> QED BY <2>2, <3>1, <3>3, <3>4
  <2>4. LinesOf(c) \cap n = {}
    BY <1>3, <1>4
  <2>5. /\ IsFiniteSet(LinesOf(c) \cup n) /\ Cardinality(LinesOf(c) \cap n) = 0
        /\ Cardinality(LinesOf(c) \cup n)
             = Cardinality(LinesOf(c)) + Cardinality(n) - Cardinality(LinesOf(c) \cap n)
    BY <2>2, <2>4, FS_Union, FS_EmptySet
  <2>6. LinesOf(c) \cup moved = LinesOf(c) \cup n
    BY <1>3, <1>4
  <2>7. Cardinality(LinesOf(c) \cup n) >= MaxItems
    BY <2>2, <2>3, <2>5
  <2> QED BY <2>6, <2>7
<1> QED BY <1>3, <1>4, <1>5, <1>6, <1>7

\* The sums before and after a merge differ in two carts only.
LEMMA MergeCounts ==
  ASSUME IInv, NEW q, NEW v \in Variants, NEW A, A \subseteq Carts, NEW g \in A, NEW c \in Carts, c # g,
         \A d \in Carts : qty[d][v] \in 0..MaxQuantity /\ q[d][v] \in 0..MaxQuantity,
         \A d \in Carts : d # c => q[d][v] = qty[d][v],
         c \notin A => qty[c][v] = 0
  PROVE  \E rest \in Nat :
           /\ UnitsOf(qty, v, A) = rest + qty[g][v] + qty[c][v]
           /\ UnitsOf(q, v, (A \cup {c}) \ {g}) = rest + q[c][v]
<1>1. PICK R : R = A \ {g, c}
  OBVIOUS
<1>2. IsFiniteSet(A) /\ IsFiniteSet(R) /\ IsFiniteSet(R \cup {c}) /\ IsFiniteSet(A \ {g})
  <2>1. A \in SUBSET Carts /\ R \in SUBSET Carts /\ R \cup {c} \in SUBSET Carts /\ A \ {g} \in SUBSET Carts
    BY <1>1
  <2> QED BY <2>1, CartsAssumption, FS_Subset
<1>3. PICK rest \in Nat : rest = Cardinality(Units(qty, v, R))
  BY <1>2, UnitsFinite
<1>4. Units(q, v, R) = Units(qty, v, R)
  BY <1>1 DEF Units
<1>5. UnitsOf(q, v, R \cup {c}) = rest + q[c][v]
  <2>1. (R \cup {c}) \ {c} = R
    BY <1>1
  <2>2. \A d \in R \cup {c} : q[d][v] \in 0..MaxQuantity
    BY <1>1
  <2>3. UnitsOf(q, v, R \cup {c}) = Cardinality(Units(q, v, R \cup {c}))
    BY <1>2, <2>2, SumOfUnits
  <2>4. Cardinality(Units(q, v, R \cup {c})) = q[c][v] + Cardinality(Units(q, v, (R \cup {c}) \ {c}))
    BY <1>2, UnitsSplit
  <2> QED BY <1>3, <1>4, <2>1, <2>3, <2>4, LimitsAssumption
<1>6. (A \cup {c}) \ {g} = R \cup {c}
  BY <1>1
<1>7. UnitsOf(qty, v, A) = qty[g][v] + Cardinality(Units(qty, v, A \ {g}))
  <2>1. UnitsOf(qty, v, A) = Cardinality(Units(qty, v, A))
    BY <1>2, SumOfUnits
  <2> QED BY <1>2, <2>1, UnitsSplit
<1>8. Cardinality(Units(qty, v, A \ {g})) = rest + qty[c][v]
  <2>1. CASE c \in A
    <3>1. (A \ {g}) \ {c} = R /\ c \in A \ {g}
      BY <1>1, <2>1
    <3>2. Cardinality(Units(qty, v, A \ {g})) = qty[c][v] + Cardinality(Units(qty, v, (A \ {g}) \ {c}))
      BY <1>2, <3>1, UnitsSplit
    <3>3. Units(qty, v, (A \ {g}) \ {c}) = Units(qty, v, R)
      BY <3>1
    <3>4. qty[c][v] \in Int
      BY LimitsAssumption
    <3> QED BY <1>3, <3>2, <3>3, <3>4
  <2>2. CASE c \notin A
    <3>1. Units(qty, v, A \ {g}) = Units(qty, v, R)
      BY <1>1, <2>2 DEF Units
    <3> QED BY <1>3, <2>2, <3>1
  <2> QED BY <2>1, <2>2
<1>9. UnitsOf(qty, v, A) = rest + qty[g][v] + qty[c][v]
  BY <1>3, <1>7, <1>8, LimitsAssumption
<1> QED BY <1>5, <1>6, <1>9

\* A merge neither copies goods nor loses any that could be kept, however
\* often it is repeated.
THEOREM MergeKeepsUnits == Spec => MergeMovesUnits
<1> USE LimitsAssumption
<1>1. ASSUME IInv, Empty, NEW who \in Guests, NEW user \in Users, Merge(who, user), NEW v \in Variants
      PROVE  /\ UnitsOf(qty', v, active') <= UnitsOf(qty, v, active)
             /\ \/ UnitsOf(qty', v, active') = UnitsOf(qty, v, active)
                \/ v \notin offered \/ UnitsOf(qty, v, active) > stock[v]
                \/ \E c \in ActiveCarts(user)' : Cardinality(LinesOf(c)') >= MaxItems
  <2>1. PICK g \in ActiveCarts(who), c \in Candidates(user), moved \in SUBSET Variants :
           /\ Merged(who, user, g, c, moved)
           /\ moved \subseteq Movable(g, c)
           /\ Movable(g, c) \cap LinesOf(c) \subseteq moved
           /\ \A w \in moved : Target(g, c, w) <= MaxQuantity
           /\ moved # Movable(g, c) => Cardinality(LinesOf(c) \cup moved) >= MaxItems
    BY <1>1, MergeOfLines
  <2>2. /\ g \in active /\ owner[g] = who /\ c \in Carts /\ c # g
        /\ c \notin active => ~Exists(c)
    <3>1. g \in active /\ owner[g] = who /\ c \in Carts
      BY <1>1, CandidatesAreRows DEF ActiveCarts, IInv
    <3>2. (c \in active /\ owner[c] = user) \/ ~Exists(c)
      BY DEF Candidates, ActiveCarts
    <3>3. who # user /\ who # Nobody
      BY OwnersAssumption
    <3> QED BY <3>1, <3>2, <3>3 DEF Exists
  <2>3. /\ owner' = [owner EXCEPT ![c] = user]
        /\ qty' = [qty EXCEPT ![c] = [w \in Variants |-> IF w \in moved THEN Target(g, c, w) ELSE qty[c][w]]]
        /\ active' = (active \cup {c}) \ {g}
    BY <2>1 DEF Merged
  <2>4. /\ \A d \in Carts, w \in Variants : qty[d][w] \in 0..MaxQuantity /\ qty'[d][w] \in 0..MaxQuantity
        /\ active \subseteq Carts /\ stock[v] \in Nat /\ owner \in [Carts -> Owners \cup {Nobody}]
        /\ qty \in [Carts -> [Variants -> 0..MaxQuantity]]
    <3>1. TypeOK /\ TypeOK'
      BY <1>1, MergeTypes DEF IInv
    <3> QED BY <3>1 DEF TypeOK
  <2>5. /\ \A d \in Carts : d # c => qty'[d][v] = qty[d][v]
        /\ qty'[c][v] = IF v \in moved THEN Target(g, c, v) ELSE qty[c][v]
    BY <2>2, <2>3, <2>4
  <2>6. c \notin active => qty[c][v] = 0
    BY <1>1, <2>2 DEF Empty, NoLines
  <2>7. PICK rest \in Nat :
          /\ UnitsOf(qty, v, active) = rest + qty[g][v] + qty[c][v]
          /\ UnitsOf(qty', v, active') = rest + qty'[c][v]
    <3>1. PICK q : q = qty'
      OBVIOUS
    <3>2. \E rest \in Nat :
            /\ UnitsOf(qty, v, active) = rest + qty[g][v] + qty[c][v]
            /\ UnitsOf(q, v, (active \cup {c}) \ {g}) = rest + q[c][v]
      <4>1. /\ \A d \in Carts : qty[d][v] \in 0..MaxQuantity /\ q[d][v] \in 0..MaxQuantity
            /\ \A d \in Carts : d # c => q[d][v] = qty[d][v]
        BY <2>4, <2>5, <3>1
      <4>2. active \subseteq Carts /\ g \in active /\ c \in Carts /\ c # g
        BY <2>2, <2>4
      <4> QED BY <1>1, <2>6, <4>1, <4>2, MergeCounts
    <3> QED BY <2>3, <3>1, <3>2
  <2>8. PICK qc \in Nat, qg \in Nat, after \in Nat :
          qc = qty[c][v] /\ qg = qty[g][v] /\ after = qty'[c][v]
    BY <2>2, <2>4
  <2>9. after = IF v \in moved THEN AtMost(qc + qg, stock[v]) ELSE qc
    BY <2>5, <2>8 DEF Target
  <2>10. UnitsOf(qty', v, active') <= UnitsOf(qty, v, active)
    BY <2>4, <2>7, <2>8, <2>9 DEF AtMost
  <2>11. ASSUME v \in offered, ~(UnitsOf(qty, v, active) > stock[v]),
                UnitsOf(qty', v, active') # UnitsOf(qty, v, active)
         PROVE  \E d \in ActiveCarts(user)' : Cardinality(LinesOf(d)') >= MaxItems
    <3>1. qc + qg <= stock[v] /\ after # qc + qg
      BY <2>4, <2>7, <2>8, <2>11
    <3>2. v \notin moved /\ qg > 0
      BY <2>4, <2>8, <2>9, <3>1 DEF AtMost
    <3>3. v \in Movable(g, c)
      <4>1. Target(g, c, v) > 0
        BY <2>4, <2>8, <3>1, <3>2 DEF Target, AtMost
      <4> QED BY <2>8, <2>11, <3>2, <4>1 DEF Movable, LinesOf
    <3>4. Cardinality(LinesOf(c) \cup moved) >= MaxItems
      BY <2>1, <3>2, <3>3
    <3>5. c \in ActiveCarts(user)'
      BY <2>2, <2>3, <2>4 DEF ActiveCarts
    <3>6. LinesOf(c)' = LinesOf(c) \cup moved
      <4>1. \A w \in Variants : qty'[c][w] = IF w \in moved THEN Target(g, c, w) ELSE qty[c][w]
        BY <2>2, <2>3, <2>4
      <4>2. \A w \in moved : w \in Variants /\ Target(g, c, w) > 0
        BY <2>1 DEF Movable, LinesOf
      <4> QED BY <4>1, <4>2 DEF LinesOf
    <3> QED BY <3>4, <3>5, <3>6
  <2> QED BY <2>10, <2>11
<1>2. IInv /\ Empty =>
        \A who \in Guests, user \in Users :
          Merge(who, user) =>
            \A v \in Variants :
              /\ ActiveUnits(v)' <= ActiveUnits(v)
              /\ \/ ActiveUnits(v)' = ActiveUnits(v)
                 \/ v \notin offered \/ ActiveUnits(v) > stock[v]
                 \/ \E c \in ActiveCarts(user)' : Cardinality(LinesOf(c)') >= MaxItems
  <2>1. ASSUME NEW v PROVE ActiveUnits(v) = UnitsOf(qty, v, active)
    BY Zenon DEF ActiveUnits, UnitsOf
  <2>2. ASSUME NEW v PROVE ActiveUnits(v)' = UnitsOf(qty', v, active')
    <3>1. ActiveUnits(v)' = UnitsOf(qty, v, active)'
      BY Zenon DEF ActiveUnits, UnitsOf
    <3> QED BY <3>1
  <2> QED BY <1>1, <2>1, <2>2
<1>3. Init => Empty
  BY DEF Init, Empty
<1>4. Spec => [](IInv /\ Empty)
  BY <1>3, InvInit, InvStep, EmptyKept, PTL DEF Spec
<1> QED BY <1>2, <1>4, PTL DEF MergeMovesUnits

=============================================================================
