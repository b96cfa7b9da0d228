-------------------------- MODULE OrderStockProofs --------------------------
(***************************************************************************)
(* Proofs about OrderStock for every set of orders and variants, every     *)
(* basket and every stock.  The inductive invariant is IInv: the counters  *)
(* match the journal only because the movements are properly paired, so    *)
(* the conjuncts are proved together, one step per transaction.            *)
(***************************************************************************)
EXTENDS OrderStock, FiniteSetTheorems, TLAPS

IInv ==
  /\ TypeOK
  /\ MovementsPaired
  /\ ReservedMatchesMovements
  /\ QuantityMatchesMovements

-----------------------------------------------------------------------------
\* The journal.

LEMMA EntriesMember ==
  ASSUME NEW k, NEW o, NEW v, NEW l, NEW p, NEW S
  PROVE  Movement(k, o, v) \in Entries(l, p, S) <=> k = l /\ o = p /\ v \in S
BY DEF Movement, Entries

\* The journal after a transaction of order p appends movements of kind l.
LEMMA Appended ==
  ASSUME NEW l, NEW p, NEW S, movements' = movements \cup Entries(l, p, S),
         NEW k, NEW o, NEW v
  PROVE  Has(k, o, v)' <=> Has(k, o, v) \/ (k = l /\ o = p /\ v \in S)
BY EntriesMember DEF Has

LEMMA EntriesType ==
  ASSUME NEW k \in Kinds, NEW o \in Orders, NEW S \in SUBSET Variants
  PROVE  Entries(k, o, S) \subseteq Movements
BY DEF Entries, Movement, Movements

LEMMA HasReserveIffMovement ==
  ASSUME TypeOK, NEW o \in Orders
  PROVE  HasReserve(o) <=> \E v \in Variants : Has("RESERVE", o, v)
<1>1. ASSUME NEW m \in movements, m.kind = "RESERVE", m.order = o
      PROVE  m.stock \in Variants /\ m = Movement("RESERVE", o, m.stock)
  BY <1>1 DEF TypeOK, Movements, Movement
<1>2. ASSUME NEW v \in Variants
      PROVE  Movement("RESERVE", o, v).kind = "RESERVE" /\ Movement("RESERVE", o, v).order = o
  BY DEF Movement
<1> QED BY <1>1, <1>2 DEF HasReserve, Has

-----------------------------------------------------------------------------
\* Counting units.

UnitsOf(o, n) == {o} \X (1..n)

LEMMA UnitsFinite == IsFiniteSet(Units)
<1>1. 1 \in Int /\ MaxItemQuantity \in Int
  BY QuantityAssumption
<1>2. IsFiniteSet(1..MaxItemQuantity)
  BY <1>1, FS_Interval
<1>3. IsFiniteSet(Orders \X (1..MaxItemQuantity))
  BY <1>2, OrdersAssumption, FS_Product, Zenon
<1> QED BY <1>3 DEF Units

LEMMA UnitsOfFinite ==
  ASSUME NEW o \in Orders, NEW n \in 0..MaxItemQuantity
  PROVE  /\ IsFiniteSet(UnitsOf(o, n))
         /\ Cardinality(UnitsOf(o, n)) = n
         /\ UnitsOf(o, n) = {u \in Units : u[1] = o /\ u[2] <= n}
<1>1. IsFiniteSet({o}) /\ Cardinality({o}) = 1
  BY FS_Singleton
<1>2. n \in Nat /\ IsFiniteSet(1..n) /\ Cardinality(1..n) = n
  BY FS_Interval, QuantityAssumption
<1>3. IsFiniteSet({o} \X (1..n)) /\ Cardinality({o} \X (1..n)) = 1 * n
  <2>1. PICK S, T : S = {o} /\ T = 1..n
    OBVIOUS
  <2>2. IsFiniteSet(S \X T) /\ Cardinality(S \X T) = Cardinality(S) * Cardinality(T)
    BY <1>1, <1>2, <2>1, FS_Product
  <2> QED BY <1>1, <1>2, <2>1, <2>2
<1>4. UnitsOf(o, n) = {u \in Units : u[1] = o /\ u[2] <= n}
  BY QuantityAssumption DEF UnitsOf, Units
<1> QED BY <1>2, <1>3, <1>4 DEF UnitsOf

LEMMA AddUnits ==
  ASSUME NEW S \in SUBSET Units, NEW o \in Orders, NEW n \in 0..MaxItemQuantity,
         \A u \in S : u[1] # o
  PROVE  Cardinality(S \cup UnitsOf(o, n)) = Cardinality(S) + n
<1>1. IsFiniteSet(S) /\ Cardinality(S) \in Nat
  BY UnitsFinite, FS_Subset, FS_CardinalityType
<1>2. S \cap UnitsOf(o, n) = {}
  BY UnitsOfFinite
<1>3. Cardinality(S \cup UnitsOf(o, n)) = Cardinality(S) + n - 0
  BY <1>1, <1>2, UnitsOfFinite, FS_Union, FS_EmptySet
<1> QED BY <1>1, <1>3

LEMMA RemoveUnits ==
  ASSUME NEW S \in SUBSET Units, NEW o \in Orders, NEW n \in 0..MaxItemQuantity,
         UnitsOf(o, n) \subseteq S
  PROVE  /\ Cardinality(S \ UnitsOf(o, n)) = Cardinality(S) - n
         /\ n <= Cardinality(S)
<1>1. IsFiniteSet(S) /\ Cardinality(S) \in Nat
  BY UnitsFinite, FS_Subset, FS_CardinalityType
<1>2. S \cap UnitsOf(o, n) = UnitsOf(o, n)
  OBVIOUS
<1>3. Cardinality(S \ UnitsOf(o, n))
        = Cardinality(S) - Cardinality(S \cap UnitsOf(o, n))
  BY <1>1, FS_Difference, Zenon
<1>4. Cardinality(UnitsOf(o, n)) <= Cardinality(S)
  BY <1>1, FS_Subset
<1> QED BY <1>2, <1>3, <1>4, UnitsOfFinite

-----------------------------------------------------------------------------
\* Types.

LEMMA TypeInit == Init => TypeOK
BY StockAssumption DEF Init, TypeOK, Statuses

LEMMA StockTypeStep ==
  ASSUME TypeOK, StockChecks', MaxStock \in Int,
         quantity' \in [Variants -> Int], reserved' \in [Variants -> Int]
  PROVE  quantity' \in [Variants -> Nat] /\ reserved' \in [Variants -> Nat]
BY DEF StockChecks

LEMMA UnitsInType ==
  ASSUME NEW o \in Orders, NEW S, NEW v \in Variants
  PROVE  UnitsIn(o, S, v) \in Nat
BY QuantityAssumption DEF UnitsIn

LEMMA TypeStep == TypeOK /\ [Next]_vars => TypeOK'
<1> SUFFICES ASSUME TypeOK, [Next]_vars PROVE TypeOK'
  OBVIOUS
<1> USE DEF TypeOK
<1>t. MaxStock \in Int
  BY StockAssumption
<1>s. \A o : ToReserve(o) \subseteq Variants /\ Lines(o) \subseteq Variants
             /\ OpenReserves(o) \subseteq Variants
  BY DEF ToReserve, Lines, OpenReserves
<1>k. "RESERVE" \in Kinds /\ "RELEASE" \in Kinds /\ "OUT" \in Kinds
  BY DEF Kinds
<1>1. ASSUME NEW o \in Orders, ReserveStock(o)
      PROVE  /\ quantity' \in [Variants -> Nat] /\ reserved' \in [Variants -> Nat]
             /\ movements' \subseteq Movements /\ supplied' \in [Variants -> Int]
  <2>1. reserved' \in [Variants -> Int] /\ quantity' \in [Variants -> Int]
    BY <1>1, UnitsInType DEF ReserveStock
  <2>2. movements' \subseteq Movements
    BY <1>1, <1>s, <1>k, EntriesType DEF ReserveStock
  <2> QED BY <1>1, <1>t, <2>1, <2>2, StockTypeStep DEF ReserveStock
<1>2. ASSUME NEW o \in Orders, ReleaseStock(o)
      PROVE  /\ quantity' \in [Variants -> Nat] /\ reserved' \in [Variants -> Nat]
             /\ movements' \subseteq Movements /\ supplied' \in [Variants -> Int]
  <2>1. reserved' \in [Variants -> Int] /\ quantity' \in [Variants -> Int]
    BY <1>2, UnitsInType DEF ReleaseStock
  <2>2. movements' \subseteq Movements
    BY <1>2, <1>s, <1>k, EntriesType DEF ReleaseStock
  <2> QED BY <1>2, <1>t, <2>1, <2>2, StockTypeStep DEF ReleaseStock
<1>3. ASSUME NEW o \in Orders, CommitStock(o)
      PROVE  /\ quantity' \in [Variants -> Nat] /\ reserved' \in [Variants -> Nat]
             /\ movements' \subseteq Movements /\ supplied' \in [Variants -> Int]
  <2>1. reserved' \in [Variants -> Int] /\ quantity' \in [Variants -> Int]
    BY <1>3, UnitsInType DEF CommitStock
  <2>2. movements' \subseteq Movements
    BY <1>3, <1>s, <1>k, EntriesType DEF CommitStock
  <2> QED BY <1>3, <1>t, <2>1, <2>2, StockTypeStep DEF CommitStock
<1>4. ASSUME NEW o \in Orders, ReserveAndCommit(o)
      PROVE  /\ quantity' \in [Variants -> Nat] /\ reserved' \in [Variants -> Nat]
             /\ movements' \subseteq Movements /\ supplied' \in [Variants -> Int]
  <2>1. reserved' \in [Variants -> Int] /\ quantity' \in [Variants -> Int]
    BY <1>4, UnitsInType DEF ReserveAndCommit
  <2>2. movements' \subseteq Movements
    BY <1>4, <1>s, <1>k, EntriesType DEF ReserveAndCommit
  <2> QED BY <1>4, <1>t, <2>1, <2>2, StockTypeStep DEF ReserveAndCommit
<1>5. ASSUME NEW o \in Orders, NEW new \in Statuses, TransitionStatus(o, new)
      PROVE  TypeOK'
  BY <1>1, <1>3, <1>5 DEF TransitionStatus, stockVars
<1>6. ASSUME NEW o \in Orders, Cancel(o)
      PROVE  TypeOK'
  <2>1. status' \in [Orders -> Statuses]
    BY <1>6 DEF Cancel, Statuses
  <2> QED BY <1>2, <1>6, <2>1 DEF Cancel
<1>7. ASSUME NEW o \in Orders, ReconcileOrder(o)
      PROVE  TypeOK'
  BY <1>1, <1>2, <1>3, <1>4, <1>7 DEF ReconcileOrder
<1>8. ASSUME NEW v \in Variants, NEW n \in RestockAmounts, Restock(v, n)
      PROVE  TypeOK'
  BY <1>8, StockAssumption DEF Restock
<1>9. ASSUME NEW v \in Variants, NEW n \in 0..MaxStock, AdjustStock(v, n)
      PROVE  TypeOK'
  BY <1>9, StockAssumption DEF AdjustStock
<1>10. ASSUME NEW v \in Variants, DeleteVariant(v)
       PROVE  TypeOK'
  BY <1>10 DEF DeleteVariant
<1>11. CASE UNCHANGED vars
  BY <1>11 DEF vars
<1> QED
  BY <1>5, <1>6, <1>7, <1>8, <1>9, <1>10, <1>11 DEF Next, OrderNext, StockNext

\* Every reachable state has values of the columns' types, whatever is
\* ordered: no transaction that commits leaves a negative counter.
THEOREM TypeCorrect == Spec => []TypeOK
BY TypeInit, TypeStep, PTL DEF Spec

-----------------------------------------------------------------------------
\* The counters and the journal.

Line(o, v) == UnitsOf(o, Ordered[o][v])

Counted == ReservedMatchesMovements /\ QuantityMatchesMovements

LEMMA UnitsSets ==
  ASSUME NEW v \in Variants
  PROVE  /\ ReservedUnits(v) \subseteq Units
         /\ ShippedUnits(v) \subseteq Units
         /\ Cardinality(ReservedUnits(v)) \in Nat
         /\ Cardinality(ShippedUnits(v)) \in Nat
<1>1. ReservedUnits(v) \subseteq Units /\ ShippedUnits(v) \subseteq Units
  BY DEF ReservedUnits, ShippedUnits
<1> QED BY <1>1, UnitsFinite, FS_Subset, FS_CardinalityType

LEMMA LineUnits ==
  ASSUME NEW o \in Orders, NEW v \in Variants
  PROVE  /\ Ordered[o][v] \in 0..MaxItemQuantity
         /\ Line(o, v) = {u \in Units : u[1] = o /\ u[2] <= Ordered[o][v]}
BY QuantityAssumption, UnitsOfFinite DEF Line

\* Reserving the items S of an order none of whose items is reserved.
LEMMA ReserveCounts ==
  ASSUME TypeOK, MovementsPaired, Counted,
         NEW o \in Orders, ReserveStock(o)
  PROVE  Counted'
<1> DEFINE S == ToReserve(o)
<1>1. \A v \in S : v \in Variants /\ ~Has("RESERVE", o, v)
                   /\ ~Has("RELEASE", o, v) /\ ~Has("OUT", o, v)
  BY HasReserveIffMovement DEF ToReserve, Lines, MovementsPaired, TypeOK
<1>2. \A k, p, v : Has(k, p, v)' <=> Has(k, p, v) \/ (k = "RESERVE" /\ p = o /\ v \in S)
  BY Appended DEF ReserveStock
<1>3. ASSUME NEW v \in Variants
      PROVE  ReservedUnits(v)' = IF v \in S THEN ReservedUnits(v) \cup Line(o, v)
                                            ELSE ReservedUnits(v)
  BY <1>1, <1>2, LineUnits DEF ReservedUnits, OpenReserves, Units
<1>4. ASSUME NEW v \in Variants
      PROVE  ShippedUnits(v)' = ShippedUnits(v)
  BY <1>2 DEF ShippedUnits
<1>5. ASSUME NEW v \in Variants, v \in S
      PROVE  Cardinality(ReservedUnits(v)') = Cardinality(ReservedUnits(v)) + Ordered[o][v]
  <2>1. \A u \in ReservedUnits(v) : u[1] # o
    BY <1>1, <1>5 DEF ReservedUnits, OpenReserves
  <2> QED BY <1>3, <1>5, <2>1, AddUnits, LineUnits, UnitsSets DEF Line
<1>6. ReservedMatchesMovements'
  <2> SUFFICES ASSUME NEW v \in Variants
               PROVE  reserved'[v] = Cardinality(ReservedUnits(v)')
    BY DEF ReservedMatchesMovements
  <2>1. reserved'[v] = reserved[v] + (IF v \in S THEN Ordered[o][v] ELSE 0)
    BY DEF ReserveStock, UnitsIn
  <2> QED BY <1>3, <1>5, <2>1 DEF Counted, ReservedMatchesMovements, TypeOK
<1>7. QuantityMatchesMovements'
  BY <1>4 DEF Counted, QuantityMatchesMovements, ReserveStock
<1> QED BY <1>6, <1>7 DEF Counted

\* What closing the open reserves of an order, as RELEASE or as OUT, does to
\* the units counted.
LEMMA Closing ==
  ASSUME TypeOK, NEW o \in Orders, NEW l \in {"RELEASE", "OUT"},
         movements' = movements \cup Entries(l, o, OpenReserves(o)),
         NEW v \in Variants
  PROVE  /\ ReservedUnits(v)' = IF v \in OpenReserves(o)
                                THEN ReservedUnits(v) \ Line(o, v)
                                ELSE ReservedUnits(v)
         /\ Cardinality(ReservedUnits(v)')
              = Cardinality(ReservedUnits(v)) - UnitsIn(o, OpenReserves(o), v)
         /\ ShippedUnits(v)' = IF l = "OUT" /\ v \in OpenReserves(o)
                               THEN ShippedUnits(v) \cup Line(o, v)
                               ELSE ShippedUnits(v)
<1> DEFINE S == OpenReserves(o)
<1>1. \A k, p, w : Has(k, p, w)' <=> Has(k, p, w) \/ (k = l /\ p = o /\ w \in S)
  BY Appended
<1>2. ReservedUnits(v)' = IF v \in S THEN ReservedUnits(v) \ Line(o, v)
                                    ELSE ReservedUnits(v)
  BY <1>1, LineUnits DEF ReservedUnits, OpenReserves, Units
<1>3. ShippedUnits(v)' = IF l = "OUT" /\ v \in S THEN ShippedUnits(v) \cup Line(o, v)
                                                 ELSE ShippedUnits(v)
  BY <1>1, LineUnits DEF ShippedUnits, Units
<1>4. ASSUME v \in S
      PROVE  Cardinality(ReservedUnits(v) \ Line(o, v))
               = Cardinality(ReservedUnits(v)) - Ordered[o][v]
  <2>1. Line(o, v) \subseteq ReservedUnits(v)
    BY <1>4, LineUnits DEF ReservedUnits
  <2> QED BY <2>1, RemoveUnits, LineUnits, UnitsSets DEF Line
<1> QED BY <1>2, <1>3, <1>4, UnitsSets DEF UnitsIn

LEMMA ReleaseCounts ==
  ASSUME TypeOK, Counted, NEW o \in Orders, ReleaseStock(o)
  PROVE  Counted'
<1>1. ASSUME NEW v \in Variants
      PROVE  /\ Cardinality(ReservedUnits(v)')
                  = Cardinality(ReservedUnits(v)) - UnitsIn(o, OpenReserves(o), v)
             /\ ShippedUnits(v)' = ShippedUnits(v)
  BY Closing DEF ReleaseStock
<1>2. ReservedMatchesMovements'
  BY <1>1 DEF Counted, ReservedMatchesMovements, ReleaseStock
<1>3. QuantityMatchesMovements'
  BY <1>1 DEF Counted, QuantityMatchesMovements, ReleaseStock
<1> QED BY <1>2, <1>3 DEF Counted

\* Writing off: the units leave the shelf as they enter the shipped ones.
LEMMA ShippedGrows ==
  ASSUME NEW o \in Orders, NEW v \in Variants, ~Has("OUT", o, v)
  PROVE  Cardinality(ShippedUnits(v) \cup Line(o, v))
           = Cardinality(ShippedUnits(v)) + Ordered[o][v]
<1>1. \A u \in ShippedUnits(v) : u[1] # o
  BY DEF ShippedUnits
<1> QED BY <1>1, AddUnits, LineUnits, UnitsSets DEF Line

LEMMA CommitCounts ==
  ASSUME TypeOK, Counted, NEW o \in Orders, CommitStock(o)
  PROVE  Counted'
<1> DEFINE S == OpenReserves(o)
<1>1. ASSUME NEW v \in Variants
      PROVE  /\ Cardinality(ReservedUnits(v)')
                  = Cardinality(ReservedUnits(v)) - UnitsIn(o, S, v)
             /\ ShippedUnits(v)' = IF v \in S THEN ShippedUnits(v) \cup Line(o, v)
                                              ELSE ShippedUnits(v)
  BY Closing DEF CommitStock
<1>2. ReservedMatchesMovements'
  BY <1>1 DEF Counted, ReservedMatchesMovements, CommitStock
<1>3. ASSUME NEW v \in Variants
      PROVE  Cardinality(ShippedUnits(v)') = Cardinality(ShippedUnits(v)) + UnitsIn(o, S, v)
  BY <1>1, ShippedGrows, UnitsSets DEF OpenReserves, UnitsIn
<1>4. QuantityMatchesMovements'
  <2> SUFFICES ASSUME NEW v \in Variants
               PROVE  quantity'[v] + Cardinality(ShippedUnits(v)') = supplied'[v]
    BY DEF QuantityMatchesMovements
  <2>1. quantity'[v] = quantity[v] - UnitsIn(o, S, v) /\ supplied' = supplied
    BY DEF CommitStock
  <2>2. quantity[v] + Cardinality(ShippedUnits(v)) = supplied[v]
    BY DEF Counted, QuantityMatchesMovements
  <2> QED BY <1>3, <2>1, <2>2, UnitsSets, UnitsInType DEF TypeOK
<1> QED BY <1>2, <1>4 DEF Counted

LEMMA ReserveAndCommitCounts ==
  ASSUME TypeOK, MovementsPaired, Counted,
         NEW o \in Orders, ~HasReserve(o), ReserveAndCommit(o)
  PROVE  Counted'
<1> DEFINE S == Lines(o)
<1>1. \A v \in Variants : ~Has("RESERVE", o, v) /\ ~Has("RELEASE", o, v)
                          /\ ~Has("OUT", o, v)
  BY HasReserveIffMovement DEF MovementsPaired
<1>2. \A k, p, v : Has(k, p, v)' <=>
        Has(k, p, v) \/ (k \in {"RESERVE", "OUT"} /\ p = o /\ v \in S)
  BY EntriesMember DEF ReserveAndCommit, Has
<1>3. S \subseteq Variants
  BY DEF Lines, TypeOK
<1>4. ASSUME NEW v \in Variants
      PROVE  /\ ReservedUnits(v)' = ReservedUnits(v)
             /\ ShippedUnits(v)' = IF v \in S THEN ShippedUnits(v) \cup Line(o, v)
                                              ELSE ShippedUnits(v)
  <2>1. \A u \in Units : v \in OpenReserves(u[1])' <=> v \in OpenReserves(u[1])
    BY <1>1, <1>2 DEF OpenReserves
  <2>2. ReservedUnits(v)' = ReservedUnits(v)
    BY <2>1 DEF ReservedUnits
  <2> QED BY <1>2, <2>2, LineUnits DEF ShippedUnits, Units
<1>5. ASSUME NEW v \in Variants
      PROVE  Cardinality(ShippedUnits(v)') = Cardinality(ShippedUnits(v)) + UnitsIn(o, S, v)
  BY <1>1, <1>4, ShippedGrows, UnitsSets DEF UnitsIn
<1>6. ReservedMatchesMovements'
  BY <1>4 DEF Counted, ReservedMatchesMovements, ReserveAndCommit
<1>7. QuantityMatchesMovements'
  <2> SUFFICES ASSUME NEW v \in Variants
               PROVE  quantity'[v] + Cardinality(ShippedUnits(v)') = supplied'[v]
    BY DEF QuantityMatchesMovements
  <2>1. quantity'[v] = quantity[v] - UnitsIn(o, S, v) /\ supplied' = supplied
    BY DEF ReserveAndCommit
  <2>2. quantity[v] + Cardinality(ShippedUnits(v)) = supplied[v]
    BY DEF Counted, QuantityMatchesMovements
  <2> QED BY <1>5, <2>1, <2>2, UnitsSets, UnitsInType DEF TypeOK
<1> QED BY <1>6, <1>7 DEF Counted

\* A step that leaves the movements alone counts the same units.
LEMMA SameUnits ==
  ASSUME UNCHANGED movements, NEW v \in Variants
  PROVE  ReservedUnits(v)' = ReservedUnits(v) /\ ShippedUnits(v)' = ShippedUnits(v)
BY DEF ReservedUnits, ShippedUnits, OpenReserves, Has

LEMMA SupplyCounts ==
  ASSUME TypeOK, Counted, NEW v \in Variants, NEW n \in Int,
         quantity' = [quantity EXCEPT ![v] = @ + n],
         supplied' = [supplied EXCEPT ![v] = @ + n],
         UNCHANGED <<reserved, movements>>
  PROVE  Counted'
<1>1. ReservedMatchesMovements'
  BY SameUnits DEF Counted, ReservedMatchesMovements
<1>2. QuantityMatchesMovements'
  <2> SUFFICES ASSUME NEW w \in Variants
               PROVE  quantity'[w] + Cardinality(ShippedUnits(w)') = supplied'[w]
    BY DEF QuantityMatchesMovements
  <2>1. quantity[w] + Cardinality(ShippedUnits(w)) = supplied[w]
    BY DEF Counted, QuantityMatchesMovements
  <2> QED BY <2>1, SameUnits, UnitsSets DEF TypeOK
<1> QED BY <1>1, <1>2 DEF Counted

LEMMA DeleteCounts ==
  ASSUME TypeOK, Counted, NEW v \in Variants, DeleteVariant(v)
  PROVE  Counted'
<1>1. \A k, o, w : Has(k, o, w)' <=> Has(k, o, w) /\ w # v
  BY DEF DeleteVariant, Has, Movement
<1>2. ReservedUnits(v)' = {} /\ ShippedUnits(v)' = {}
  BY <1>1 DEF ReservedUnits, ShippedUnits, OpenReserves
<1>3. ASSUME NEW w \in Variants, w # v
      PROVE  ReservedUnits(w)' = ReservedUnits(w) /\ ShippedUnits(w)' = ShippedUnits(w)
  BY <1>1, <1>3 DEF ReservedUnits, ShippedUnits, OpenReserves
<1>4. ReservedMatchesMovements'
  BY <1>2, <1>3, FS_EmptySet
  DEF Counted, ReservedMatchesMovements, DeleteVariant, TypeOK
<1>5. QuantityMatchesMovements'
  <2> SUFFICES ASSUME NEW w \in Variants
               PROVE  quantity'[w] + Cardinality(ShippedUnits(w)') = supplied'[w]
    BY DEF QuantityMatchesMovements
  <2>1. CASE w = v
    <3>1. quantity'[w] = 0 /\ supplied'[w] = 0
      BY <2>1 DEF DeleteVariant, TypeOK
    <3> QED BY <1>2, <2>1, <3>1, FS_EmptySet
  <2>2. CASE w # v
    BY <1>3, <2>2 DEF Counted, QuantityMatchesMovements, DeleteVariant, TypeOK
  <2> QED BY <2>1, <2>2
<1> QED BY <1>4, <1>5 DEF Counted

-----------------------------------------------------------------------------
\* The pairing of movements.

LEMMA ReservePairs ==
  ASSUME TypeOK, MovementsPaired, NEW o \in Orders, ReserveStock(o), UNCHANGED live
  PROVE  MovementsPaired'
<1> DEFINE S == ToReserve(o)
<1>1. \A k, p, v : Has(k, p, v)' <=> Has(k, p, v) \/ (k = "RESERVE" /\ p = o /\ v \in S)
  BY Appended DEF ReserveStock
<1>2. S \subseteq Lines(o) /\ \A p : Lines(p)' = Lines(p)
  BY DEF ToReserve, Lines
<1> QED BY <1>1, <1>2 DEF MovementsPaired

LEMMA ClosePairs ==
  ASSUME TypeOK, MovementsPaired, NEW o \in Orders, NEW l \in {"RELEASE", "OUT"},
         movements' = movements \cup Entries(l, o, OpenReserves(o)), UNCHANGED live
  PROVE  MovementsPaired'
<1>1. \A k, p, v : Has(k, p, v)' <=>
        Has(k, p, v) \/ (k = l /\ p = o /\ v \in OpenReserves(o))
  BY Appended
<1>2. \A p : Lines(p)' = Lines(p)
  BY DEF Lines
<1> QED BY <1>1, <1>2 DEF MovementsPaired, OpenReserves

LEMMA ReserveAndCommitPairs ==
  ASSUME TypeOK, MovementsPaired, NEW o \in Orders, ~HasReserve(o),
         ReserveAndCommit(o), UNCHANGED live
  PROVE  MovementsPaired'
<1>1. \A k, p, v : Has(k, p, v)' <=>
        Has(k, p, v) \/ (k \in {"RESERVE", "OUT"} /\ p = o /\ v \in Lines(o))
  BY EntriesMember DEF ReserveAndCommit, Has
<1>2. \A p : Lines(p)' = Lines(p)
  BY DEF Lines
<1>3. \A v \in Variants : ~Has("RESERVE", o, v)
  BY HasReserveIffMovement
<1> QED BY <1>1, <1>2, <1>3 DEF MovementsPaired

LEMMA DeletePairs ==
  ASSUME TypeOK, MovementsPaired, NEW v \in Variants, DeleteVariant(v)
  PROVE  MovementsPaired'
<1>1. \A k, o, w : Has(k, o, w)' <=> Has(k, o, w) /\ w # v
  BY DEF DeleteVariant, Has, Movement
<1>2. \A o, w : w \in Lines(o)' <=> w \in Lines(o) /\ w # v
  BY DEF DeleteVariant, Lines
<1> QED BY <1>1, <1>2 DEF MovementsPaired

LEMMA SamePairs ==
  ASSUME MovementsPaired, UNCHANGED <<movements, live>>
  PROVE  MovementsPaired'
BY DEF MovementsPaired, Has, Lines

-----------------------------------------------------------------------------
\* The invariant.

LEMMA InvInit == Init => IInv
<1> SUFFICES ASSUME Init PROVE IInv
  OBVIOUS
<1>1. \A k, o, v : ~Has(k, o, v)
  BY DEF Init, Has
<1>2. \A v \in Variants : ReservedUnits(v) = {} /\ ShippedUnits(v) = {}
  BY <1>1 DEF ReservedUnits, ShippedUnits, OpenReserves
<1>3. ReservedMatchesMovements
  BY <1>2, FS_EmptySet DEF ReservedMatchesMovements, Init
<1>4. QuantityMatchesMovements
  <2> SUFFICES ASSUME NEW v \in Variants
               PROVE  quantity[v] + Cardinality(ShippedUnits(v)) = supplied[v]
    BY DEF QuantityMatchesMovements
  <2> QED BY <1>2, FS_EmptySet, StockAssumption DEF Init
<1>5. MovementsPaired
  BY <1>1 DEF MovementsPaired
<1> QED BY <1>3, <1>4, <1>5, TypeInit DEF IInv

\* The four ways of changing the stock of an order, and changing none of it.
LEMMA StockStep ==
  ASSUME TypeOK, MovementsPaired, Counted, NEW o \in Orders, UNCHANGED live,
         \/ ReserveStock(o)
         \/ ReleaseStock(o)
         \/ CommitStock(o)
         \/ ~HasReserve(o) /\ ReserveAndCommit(o)
         \/ UNCHANGED stockVars
  PROVE  MovementsPaired' /\ Counted'
<1>1. CASE ReserveStock(o)
  BY <1>1, ReserveCounts, ReservePairs
<1>2. CASE ReleaseStock(o)
  BY <1>2, ReleaseCounts, ClosePairs DEF ReleaseStock
<1>3. CASE CommitStock(o)
  BY <1>3, CommitCounts, ClosePairs DEF CommitStock
<1>4. CASE ~HasReserve(o) /\ ReserveAndCommit(o)
  BY <1>4, ReserveAndCommitCounts, ReserveAndCommitPairs
<1>5. CASE UNCHANGED stockVars
  BY <1>5, SamePairs, SameUnits
  DEF Counted, ReservedMatchesMovements, QuantityMatchesMovements, stockVars
<1> QED BY <1>1, <1>2, <1>3, <1>4, <1>5

LEMMA InvStep == IInv /\ [Next]_vars => IInv'
<1> SUFFICES ASSUME IInv, [Next]_vars PROVE IInv'
  OBVIOUS
<1>t. TypeOK /\ TypeOK' /\ MovementsPaired /\ Counted
  BY TypeStep DEF IInv, Counted
<1>1. ASSUME NEW o \in Orders, NEW new \in Statuses, TransitionStatus(o, new)
      PROVE  MovementsPaired' /\ Counted'
  BY <1>t, <1>1, StockStep DEF TransitionStatus
<1>2. ASSUME NEW o \in Orders, Cancel(o)
      PROVE  MovementsPaired' /\ Counted'
  BY <1>t, <1>2, StockStep DEF Cancel
<1>3. ASSUME NEW o \in Orders, ReconcileOrder(o)
      PROVE  MovementsPaired' /\ Counted'
  BY <1>t, <1>3, StockStep DEF ReconcileOrder
<1>4. ASSUME NEW v \in Variants, NEW n \in RestockAmounts, Restock(v, n)
      PROVE  MovementsPaired' /\ Counted'
  <2>1. n \in Int
    BY StockAssumption
  <2> QED BY <1>t, <1>4, <2>1, SupplyCounts, SamePairs DEF Restock
<1>5. ASSUME NEW v \in Variants, NEW n \in 0..MaxStock, AdjustStock(v, n)
      PROVE  MovementsPaired' /\ Counted'
  <2>1. n - quantity[v] \in Int /\ quantity[v] + (n - quantity[v]) = n
    BY <1>t, StockAssumption DEF TypeOK
  <2>2. quantity' = [quantity EXCEPT ![v] = @ + (n - quantity[v])]
    BY <1>5, <2>1 DEF AdjustStock
  <2>3. supplied' = [supplied EXCEPT ![v] = @ + (n - quantity[v])]
        /\ UNCHANGED <<live, reserved, movements>>
    BY <1>5 DEF AdjustStock
  <2>4. Counted'
    BY <1>t, <2>1, <2>2, <2>3, SupplyCounts
  <2> QED BY <1>t, <2>3, <2>4, SamePairs
<1>6. ASSUME NEW v \in Variants, DeleteVariant(v)
      PROVE  MovementsPaired' /\ Counted'
  BY <1>t, <1>6, DeleteCounts, DeletePairs
<1>7. ASSUME UNCHANGED vars
      PROVE  MovementsPaired' /\ Counted'
  BY <1>t, <1>7, SamePairs, SameUnits
  DEF vars, Counted, ReservedMatchesMovements, QuantityMatchesMovements
<1>8. MovementsPaired' /\ Counted'
  <2>1. ASSUME NEW o \in Orders, OrderNext(o)
        PROVE  MovementsPaired' /\ Counted'
    BY <1>1, <1>2, <1>3, <2>1 DEF OrderNext
  <2>2. ASSUME NEW v \in Variants, StockNext(v)
        PROVE  MovementsPaired' /\ Counted'
    BY <1>4, <1>5, <1>6, <2>2 DEF StockNext
  <2> QED BY <1>7, <2>1, <2>2 DEF Next
<1> QED BY <1>t, <1>8 DEF IInv, Counted

\* The books are right in every reachable state.
LEMMA BooksCorrect == Spec => []IInv
BY InvInit, InvStep, PTL DEF Spec

\* reserved_quantity, though every transaction only adds to it or subtracts
\* from it, is always the number of units in the open RESERVE movements.
THEOREM ReservedIsWhatIsOpen == Spec => []ReservedMatchesMovements
BY BooksCorrect, PTL DEF IInv

\* The journal of movements explains the quantity of every stock.
THEOREM JournalExplainsQuantity == Spec => []QuantityMatchesMovements
BY BooksCorrect, PTL DEF IInv

\* The journal pairs every RELEASE and every OUT with one RESERVE, and no
\* RESERVE with both.
THEOREM JournalIsPaired == Spec => []MovementsPaired
BY BooksCorrect, PTL DEF IInv

-----------------------------------------------------------------------------
\* No cancellation or delivery is refused by the table's CHECK constraints.

LEMMA ChecksInit == Init => StockChecks
BY StockAssumption DEF Init, StockChecks

LEMMA ChecksStep == StockChecks /\ TypeOK /\ [Next]_vars => StockChecks'
<1> SUFFICES ASSUME StockChecks, TypeOK, [Next]_vars PROVE StockChecks'
  OBVIOUS
<1>1. ASSUME UNCHANGED <<quantity, reserved>> PROVE StockChecks'
  BY <1>1 DEF StockChecks
<1>2. ASSUME NEW o \in Orders, OrderNext(o) PROVE StockChecks'
  BY <1>1, <1>2 DEF OrderNext, TransitionStatus, Cancel, ReconcileOrder,
     ReserveStock, ReleaseStock, CommitStock, ReserveAndCommit, stockVars
<1>3. ASSUME NEW v \in Variants, DeleteVariant(v) PROVE StockChecks'
  BY <1>3, StockAssumption DEF DeleteVariant, StockChecks, TypeOK
<1>4. ASSUME NEW v \in Variants, StockNext(v) PROVE StockChecks'
  BY <1>3, <1>4 DEF StockNext, Restock, AdjustStock
<1> QED BY <1>1, <1>2, <1>4 DEF Next, vars

LEMMA UndoFits == IInv /\ StockChecks => UndoFitsChecks
<1> SUFFICES ASSUME IInv, StockChecks, NEW o \in Orders, NEW v \in OpenReserves(o)
             PROVE  Ordered[o][v] <= reserved[v] /\ reserved[v] <= quantity[v]
  BY DEF UndoFitsChecks
<1>1. v \in Variants
  BY DEF OpenReserves
<1>2. Line(o, v) \subseteq ReservedUnits(v)
  BY <1>1, LineUnits DEF ReservedUnits
<1>3. Ordered[o][v] <= Cardinality(ReservedUnits(v))
  BY <1>1, <1>2, RemoveUnits, LineUnits, UnitsSets DEF Line
<1> QED BY <1>1, <1>3 DEF IInv, ReservedMatchesMovements, StockChecks

\* Whatever happened before, the stock of an order that holds some can be
\* released or written off: cancel and the delivery of an order are never
\* rolled back by the Stock table's CHECK constraints.
THEOREM UndoAlwaysFits == Spec => []UndoFitsChecks
BY InvInit, InvStep, ChecksInit, ChecksStep, UndoFits, PTL DEF Spec, IInv

-----------------------------------------------------------------------------
\* The stock of an order follows its status.

\* Agrees, movement by movement.
OrderBooked(o) ==
  \A v \in Lines(o) :
    /\ status[o] = "PENDING" => ~Has("RESERVE", o, v)
    /\ status[o] \in Holding => /\ Has("RESERVE", o, v)
                                /\ ~Has("RELEASE", o, v) /\ ~Has("OUT", o, v)
    /\ status[o] = "DELIVERED" => Has("RESERVE", o, v) /\ Has("OUT", o, v)
    /\ status[o] = "CANCELLED" => /\ ~Has("OUT", o, v)
                                  /\ Has("RESERVE", o, v) => Has("RELEASE", o, v)

LEMMA AgreesIffBooked ==
  ASSUME TypeOK, MovementsPaired, NEW o \in Orders
  PROVE  Agrees(o) <=> OrderBooked(o)
<1> SUFFICES ASSUME NEW v \in Lines(o)
             PROVE  KindsOf(o, v) \in Booked[status[o]] <=>
                      /\ status[o] = "PENDING" => ~Has("RESERVE", o, v)
                      /\ status[o] \in Holding => /\ Has("RESERVE", o, v)
                                                  /\ ~Has("RELEASE", o, v)
                                                  /\ ~Has("OUT", o, v)
                      /\ status[o] = "DELIVERED" => Has("RESERVE", o, v) /\ Has("OUT", o, v)
                      /\ status[o] = "CANCELLED" =>
                           /\ ~Has("OUT", o, v)
                           /\ Has("RESERVE", o, v) => Has("RELEASE", o, v)
  BY DEF Agrees, OrderBooked
<1>1. v \in Variants /\ status[o] \in Statuses
  BY DEF TypeOK, Lines
<1>2. /\ Has("RELEASE", o, v) \/ Has("OUT", o, v) => Has("RESERVE", o, v)
      /\ ~(Has("RELEASE", o, v) /\ Has("OUT", o, v))
  BY <1>1 DEF MovementsPaired
<1>3. \A k \in Kinds : k \in KindsOf(o, v) <=> Has(k, o, v)
  BY DEF KindsOf
<1>4. KindsOf(o, v) \subseteq Kinds
  BY DEF KindsOf
<1>5. /\ KindsOf(o, v) = {} <=> ~Has("RESERVE", o, v)
      /\ KindsOf(o, v) = {"RESERVE"} <=>
           Has("RESERVE", o, v) /\ ~Has("RELEASE", o, v) /\ ~Has("OUT", o, v)
      /\ KindsOf(o, v) = {"RESERVE", "OUT"} <=> Has("RESERVE", o, v) /\ Has("OUT", o, v)
      /\ KindsOf(o, v) = {"RESERVE", "RELEASE"} <=>
           Has("RESERVE", o, v) /\ Has("RELEASE", o, v)
  BY <1>2, <1>3, <1>4 DEF Kinds
<1>6. CASE status[o] = "PENDING"
  BY <1>2, <1>5, <1>6 DEF Booked, Holding
<1>7. CASE status[o] \in Holding
  BY <1>2, <1>5, <1>7 DEF Booked, Holding
<1>8. CASE status[o] = "DELIVERED"
  BY <1>2, <1>5, <1>8 DEF Booked, Holding
<1>9. CASE status[o] = "CANCELLED"
  BY <1>2, <1>5, <1>9 DEF Booked, Holding
<1> QED BY <1>1, <1>6, <1>7, <1>8, <1>9 DEF Statuses, Holding

\* A transaction of order o leaves the other orders as they are.
LEMMA OthersBooked ==
  ASSUME TypeOK, NEW o \in Orders, NEW q \in Orders, q # o, OrderNext(o)
  PROVE  OrderBooked(q)' <=> OrderBooked(q)
<1>1. status'[q] = status[q] /\ live' = live
  BY DEF OrderNext, TransitionStatus, Cancel, ReconcileOrder, TypeOK
<1>2. \/ \E l, S : movements' = movements \cup Entries(l, o, S)
      \/ \E S, T : movements' = movements \cup Entries("RESERVE", o, S) \cup Entries("OUT", o, T)
      \/ movements' = movements
  BY DEF OrderNext, TransitionStatus, Cancel, ReconcileOrder, ReserveStock, ReleaseStock,
     CommitStock, ReserveAndCommit, stockVars
<1>3. \A k, v : Has(k, q, v)' <=> Has(k, q, v)
  BY <1>2, EntriesMember DEF Has
<1> QED BY <1>1, <1>3 DEF OrderBooked, Lines

LEMMA BookedInit == Init => \A o \in Orders : OrderBooked(o)
BY DEF Init, OrderBooked, Has, Holding

\* What the movements of an order agree to, no step of any order, of the staff
\* or of the catalog undoes.
LEMMA BookedStep ==
  ASSUME IInv, NEW o \in Orders, OrderBooked(o), [Next]_vars
  PROVE  OrderBooked(o)'
<1>t. TypeOK /\ MovementsPaired
  BY DEF IInv
<1>l. ASSUME UNCHANGED live
      PROVE  \A p : Lines(p)' = Lines(p)
  BY <1>l DEF Lines
<1>p. \A p \in Orders, v \in Variants : v \notin Lines(p) =>
        ~Has("RESERVE", p, v) /\ ~Has("RELEASE", p, v) /\ ~Has("OUT", p, v)
  BY <1>t DEF MovementsPaired
<1>v. \A p : Lines(p) \subseteq Variants
  BY <1>t DEF Lines, TypeOK
<1>1. ASSUME TransitionStatus(o, "CONFIRMED")
      PROVE  OrderBooked(o)'
  <2>1. status[o] = "PENDING" /\ status' = [status EXCEPT ![o] = "CONFIRMED"]
    BY <1>1, <1>t DEF TransitionStatus, OrderStatusTransitions, TypeOK, Statuses
  <2>2. ReserveStock(o) /\ UNCHANGED live
    BY <1>1 DEF TransitionStatus
  <2>3. ~HasReserve(o)
    BY <1>p, <1>t, <2>1, HasReserveIffMovement DEF OrderBooked
  <2>4. \A k, p, v : Has(k, p, v)' <=>
          Has(k, p, v) \/ (k = "RESERVE" /\ p = o /\ v \in Lines(o))
    BY <2>2, <2>3, Appended DEF ReserveStock, ToReserve
  <2>5. \A v \in Variants : ~Has("RESERVE", o, v) /\ ~Has("RELEASE", o, v) /\ ~Has("OUT", o, v)
    BY <1>t, <2>3, HasReserveIffMovement DEF MovementsPaired
  <2> QED BY <1>l, <1>t, <1>v, <2>1, <2>2, <2>4, <2>5 DEF OrderBooked, Holding, TypeOK
<1>2. ASSUME TransitionStatus(o, "DELIVERED")
      PROVE  OrderBooked(o)'
  <2>1. status[o] = "SHIPPED" /\ status' = [status EXCEPT ![o] = "DELIVERED"]
    BY <1>2, <1>t DEF TransitionStatus, OrderStatusTransitions, TypeOK, Statuses
  <2>2. CommitStock(o) /\ UNCHANGED live
    BY <1>2 DEF TransitionStatus
  <2>3. \A k, p, v : Has(k, p, v)' <=>
          Has(k, p, v) \/ (k = "OUT" /\ p = o /\ v \in OpenReserves(o))
    BY <2>2, Appended DEF CommitStock
  <2>4. \A v \in Lines(o) : v \in OpenReserves(o)
    BY <1>v, <2>1 DEF OrderBooked, OpenReserves, Holding
  <2> QED BY <1>l, <1>t, <2>1, <2>2, <2>3, <2>4 DEF OrderBooked, Holding, TypeOK
<1>3. ASSUME NEW new \in {"PROCESSING", "SHIPPED"},
             TransitionStatus(o, new)
      PROVE  OrderBooked(o)'
  <2>1. status[o] \in Holding /\ status' = [status EXCEPT ![o] = new]
    BY <1>3, <1>t DEF TransitionStatus, OrderStatusTransitions, TypeOK, Statuses, Holding
  <2>2. UNCHANGED <<movements, live>>
    BY <1>3 DEF TransitionStatus, stockVars
  <2>3. \A k, p, v : Has(k, p, v)' <=> Has(k, p, v)
    BY <2>2 DEF Has
  <2> QED BY <1>l, <1>t, <2>1, <2>2, <2>3 DEF OrderBooked, Holding, TypeOK
<1>4. ASSUME Cancel(o)
      PROVE  OrderBooked(o)'
  <2>1. /\ status[o] = "PENDING" \/ status[o] \in Holding
        /\ status' = [status EXCEPT ![o] = "CANCELLED"]
    BY <1>4, <1>t DEF Cancel, OrderStatusTransitions, TypeOK, Statuses, Holding
  <2>2. ReleaseStock(o) /\ UNCHANGED live
    BY <1>4 DEF Cancel
  <2>3. \A k, p, v : Has(k, p, v)' <=>
          Has(k, p, v) \/ (k = "RELEASE" /\ p = o /\ v \in OpenReserves(o))
    BY <2>2, Appended DEF ReleaseStock
  <2>4. \A v \in Lines(o) : /\ ~Has("OUT", o, v)
                            /\ Has("RESERVE", o, v) => v \in OpenReserves(o)
    BY <1>t, <1>v, <2>1 DEF OrderBooked, OpenReserves, Holding, MovementsPaired
  <2> QED BY <1>l, <1>t, <2>1, <2>2, <2>3, <2>4 DEF OrderBooked, Holding, TypeOK
<1>5. ASSUME ReconcileOrder(o)
      PROVE  OrderBooked(o)'
  <2>1. CASE status[o] \in Holding /\ ReserveStock(o)
    <3>1. ToReserve(o) = {}
      BY <1>t, <1>v, <2>1, HasReserveIffMovement DEF ToReserve, OrderBooked
    <3>2. \A k, p, v : Has(k, p, v)' <=> Has(k, p, v)
      BY <2>1, <3>1, Appended DEF ReserveStock
    <3> QED BY <1>5, <1>l, <3>2 DEF OrderBooked, ReconcileOrder
  <2>2. CASE (status[o] = "CANCELLED" /\ ReleaseStock(o))
             \/ (status[o] = "DELIVERED" /\ CommitStock(o))
    <3>1. \A v \in Variants : v \notin OpenReserves(o)
      BY <1>p, <2>2 DEF OpenReserves, OrderBooked
    <3>2. \A k, p, v : Has(k, p, v)' <=> Has(k, p, v)
      BY <2>2, <3>1, Appended DEF ReleaseStock, CommitStock, OpenReserves
    <3> QED BY <1>5, <1>l, <3>2 DEF OrderBooked, ReconcileOrder
  <2>3. CASE status[o] = "DELIVERED" /\ ~HasReserve(o) /\ ReserveAndCommit(o)
    <3>1. Lines(o) = {}
      BY <1>t, <1>v, <2>3, HasReserveIffMovement DEF OrderBooked
    <3>2. \A k, p, v : Has(k, p, v)' <=> Has(k, p, v)
      BY <2>3, <3>1, EntriesMember DEF ReserveAndCommit, Has
    <3> QED BY <1>5, <1>l, <3>2 DEF OrderBooked, ReconcileOrder
  <2> QED BY <1>5, <2>1, <2>2, <2>3 DEF ReconcileOrder
<1>6. ASSUME UNCHANGED <<status, live, movements>>
      PROVE  OrderBooked(o)'
  <2>1. \A k, p, v : Has(k, p, v)' <=> Has(k, p, v)
    BY <1>6 DEF Has
  <2> QED BY <1>6, <1>l, <2>1 DEF OrderBooked
<1>7. ASSUME NEW v \in Variants, DeleteVariant(v)
      PROVE  OrderBooked(o)'
  <2>1. \A k, p, w : w # v => (Has(k, p, w)' <=> Has(k, p, w))
    BY <1>7 DEF DeleteVariant, Has, Movement
  <2>2. \A p, w : w \in Lines(p)' <=> w \in Lines(p) /\ w # v
    BY <1>7 DEF DeleteVariant, Lines
  <2> QED BY <1>7, <2>1, <2>2 DEF OrderBooked, DeleteVariant
<1>8. ASSUME OrderNext(o)
      PROVE  OrderBooked(o)'
  <2>1. ASSUME NEW new \in Statuses, TransitionStatus(o, new)
        PROVE  new \in {"CONFIRMED", "DELIVERED", "PROCESSING", "SHIPPED"}
    BY <2>1 DEF TransitionStatus
  <2> QED BY <1>1, <1>2, <1>3, <1>4, <1>5, <1>8, <2>1 DEF OrderNext
<1>9. ASSUME NEW q \in Orders, q # o, OrderNext(q)
      PROVE  OrderBooked(o)'
  BY <1>t, <1>9, OthersBooked
<1>10. ASSUME NEW v \in Variants, StockNext(v)
       PROVE  OrderBooked(o)'
  BY <1>6, <1>7, <1>10 DEF StockNext, Restock, AdjustStock
<1> QED BY <1>6, <1>8, <1>9, <1>10 DEF Next, vars

\* Every transaction keeps the agreement of every order.
LEMMA AgreementStep == IInv /\ [Next]_vars => \A o \in Orders : Agrees(o) => Agrees(o)'
<1> SUFFICES ASSUME IInv, [Next]_vars, NEW o \in Orders, Agrees(o) PROVE Agrees(o)'
  OBVIOUS
<1>1. TypeOK /\ MovementsPaired
  BY DEF IInv
<1>2. TypeOK' /\ MovementsPaired'
  BY InvStep DEF IInv
<1>3. OrderBooked(o)'
  BY <1>1, AgreesIffBooked, BookedStep
<1>4. (TypeOK /\ MovementsPaired => (Agrees(o) <=> OrderBooked(o)))'
  BY AgreesIffBooked, PTL
<1> QED BY <1>2, <1>3, <1>4

\* In every reachable state a confirmed order holds all its items, a
\* delivered one has shipped all of them and a cancelled one holds none: no
\* order is ever paid and confirmed without its stock.
THEOREM StockFollowsStatus == Spec => []StatusMatchesMovements
<1>1. Init => StatusMatchesMovements
  BY InvInit, BookedInit, AgreesIffBooked DEF IInv, StatusMatchesMovements
<1>2. IInv /\ StatusMatchesMovements /\ [Next]_vars => StatusMatchesMovements'
  BY AgreementStep DEF StatusMatchesMovements
<1> QED BY <1>1, <1>2, InvInit, InvStep, PTL DEF Spec

-----------------------------------------------------------------------------
\* Data from before PROD-003.

\* The books of such data are right too: its counters are what its journal
\* says, though the journal need not agree with the statuses.
LEMMA LegacyInvInit == LegacyInit => IInv
<1> SUFFICES ASSUME LegacyInit PROVE IInv
  OBVIOUS
<1>1. PICK booked \in [Orders -> SUBSET Kinds] :
        /\ \A o \in Orders : booked[o] \in Behind[status[o]]
        /\ movements = {m \in Movements : /\ m.kind \in booked[m.order]
                                          /\ Ordered[m.order][m.stock] > 0}
  BY DEF LegacyInit
<1>2. status \in [Orders -> Statuses] /\ live = Variants /\ supplied = InitialStock
  BY DEF LegacyInit
<1>3. \A o \in Orders, v \in Variants, k \in Kinds :
        Has(k, o, v) <=> k \in booked[o] /\ Ordered[o][v] > 0
  BY <1>1 DEF Has, Movement, Movements
<1>4. \A o \in Orders : booked[o] \in {{}, {"RESERVE"}, {"RESERVE", "OUT"}, {"RESERVE", "RELEASE"}}
  BY <1>1, <1>2 DEF Behind, Statuses
<1>5. MovementsPaired
  BY <1>2, <1>3, <1>4 DEF MovementsPaired, Kinds, Lines
<1>6. ReservedMatchesMovements /\ reserved \in [Variants -> Nat]
  BY UnitsSets DEF LegacyInit, ReservedMatchesMovements
<1>7. QuantityMatchesMovements /\ quantity \in [Variants -> Nat]
  <2>1. \A v \in Variants : /\ quantity[v] = InitialStock[v] - Cardinality(ShippedUnits(v))
                            /\ InitialStock[v] \in Nat /\ Cardinality(ShippedUnits(v)) \in Nat
                            /\ quantity[v] >= 0
    BY <1>6, UnitsSets, StockAssumption DEF LegacyInit, StockChecks
  <2> QED BY <1>2, <2>1 DEF LegacyInit, QuantityMatchesMovements
<1>8. TypeOK
  BY <1>1, <1>2, <1>6, <1>7, StockAssumption DEF TypeOK
<1> QED BY <1>5, <1>6, <1>7, <1>8 DEF IInv

\* Once the movements of an order agree with its status no later transaction
\* makes them disagree, from whatever data the system started: an order that
\* reconcile_order has repaired stays repaired.
THEOREM RepairsLast == LegacySpec => AgreementKept
<1>1. IInv /\ [Next]_vars => [\A o \in Orders : Agrees(o) => Agrees(o)']_vars
  BY AgreementStep
<1> QED BY <1>1, LegacyInvInit, InvStep, PTL DEF LegacySpec, AgreementKept

-----------------------------------------------------------------------------
\* The counters and the journal implement the promise of StockClaims: the claim
\* of an order on a variant is what the movements of that item say.

claims == [o \in Orders |-> [v \in Variants |-> ClaimOf(o, v)]]

\* The claims are none, held, returned or shipped as the three kinds of
\* movements are there; being paired, they leave no other case.
LEMMA ClaimMeaning ==
  ASSUME MovementsPaired, NEW o \in Orders, NEW v \in Variants
  PROVE  /\ ClaimOf(o, v) = "none" <=> ~Has("RESERVE", o, v)
         /\ ClaimOf(o, v) = "held" <=> v \in OpenReserves(o)
         /\ ClaimOf(o, v) = "returned" <=> Has("RELEASE", o, v)
         /\ ClaimOf(o, v) = "shipped" <=> Has("OUT", o, v)
         /\ ClaimOf(o, v) \in {"none", "held", "returned", "shipped"}
BY DEF ClaimOf, OpenReserves, MovementsPaired

LEMMA ClaimMeaningNext ==
  ASSUME MovementsPaired', NEW o \in Orders, NEW v \in Variants
  PROVE  /\ ClaimOf(o, v)' = "none" <=> ~Has("RESERVE", o, v)'
         /\ ClaimOf(o, v)' = "held" <=> v \in OpenReserves(o)'
         /\ ClaimOf(o, v)' = "returned" <=> Has("RELEASE", o, v)'
         /\ ClaimOf(o, v)' = "shipped" <=> Has("OUT", o, v)'
BY DEF ClaimOf, OpenReserves, MovementsPaired

\* The instance counts with a Cardinality of its own, defined alike.
LEMMA SameCardinality ==
  ASSUME NEW S
  PROVE  Promise!Cardinality(S) = Cardinality(S)
BY DEF Promise!Cardinality, Cardinality

\* The units held of a stock are the ones its counter reserves.
LEMMA HeldIsReserved ==
  ASSUME IInv, NEW v \in Variants
  PROVE  Promise!Cardinality(Promise!Held(v)) = reserved[v]
<1>1. Promise!Held(v) = ReservedUnits(v)
  BY ClaimMeaning DEF IInv, Promise!Held, ReservedUnits, Units
<1> QED BY <1>1, SameCardinality DEF IInv, ReservedMatchesMovements

\* What is available is what is not claimed.
LEMMA SufficientIsCovered ==
  ASSUME IInv, NEW o \in Orders, Sufficient(o, Lines(o))
  PROVE  Promise!Covered(o)
<1> SUFFICES ASSUME NEW v \in live, Ordered[o][v] > 0
             PROVE  quantity[v] - Promise!Cardinality(Promise!Held(v)) >= Ordered[o][v]
  BY DEF Promise!Covered, Promise!Items
<1>1. v \in Variants /\ quantity[v] \in Nat /\ reserved[v] \in Nat
  BY DEF IInv, TypeOK
<1>2. Available(v) >= Ordered[o][v]
  BY DEF Sufficient, Lines
<1>3. Ordered[o][v] \in Nat
  BY <1>1, QuantityAssumption
<1> QED BY <1>1, <1>2, <1>3, HeldIsReserved DEF Available

LEMMA PromiseInit == Init => Promise!Init
<1> SUFFICES ASSUME Init PROVE Promise!Init
  OBVIOUS
<1>1. \A o \in Orders, v \in Variants : ClaimOf(o, v) = "none"
  BY DEF Init, ClaimOf, OpenReserves, Has
<1> QED BY <1>1 DEF Init, Promise!Init

\* The claims after a transaction that appends movements.
LEMMA ClaimsAfter ==
  ASSUME NEW o \in Orders, NEW S \in SUBSET Variants,
         NEW c \in {"held", "returned", "shipped"},
         \A q \in Orders, v \in Variants :
           ClaimOf(q, v)' = IF q = o /\ v \in S THEN c ELSE ClaimOf(q, v)
  PROVE  claims' = Promise!Claimed(o, S, c)
BY DEF claims, Promise!Claimed

\* reserve_stock claims the items of an order together, or does nothing.
LEMMA ReserveIsHold ==
  ASSUME IInv, IInv', NEW o \in Orders, ReserveStock(o), UNCHANGED live
  PROVE  Promise!Hold(o) \/ UNCHANGED <<live, quantity, claims>>
<1> DEFINE S == ToReserve(o)
<1>0. MovementsPaired /\ MovementsPaired' /\ TypeOK /\ S \in SUBSET Variants
  BY DEF IInv, TypeOK, ToReserve, Lines
<1>1. \A k, q, v : Has(k, q, v)' <=> Has(k, q, v) \/ (k = "RESERVE" /\ q = o /\ v \in S)
  BY Appended DEF ReserveStock
<1>2. CASE HasReserve(o)
  <2>1. movements' = movements
    BY <1>2 DEF ReserveStock, ToReserve, Entries
  <2> QED BY <2>1 DEF claims, ClaimOf, OpenReserves, Has, ReserveStock
<1>3. CASE ~HasReserve(o)
  <2>1. S = Lines(o) /\ \A v \in Variants : ~Has("RESERVE", o, v)
    BY <1>0, <1>3, HasReserveIffMovement DEF ToReserve
  <2>2. \A q \in Orders, v \in Variants :
          ClaimOf(q, v)' = IF q = o /\ v \in S THEN "held" ELSE ClaimOf(q, v)
    <3> SUFFICES ASSUME NEW q \in Orders, NEW v \in Variants
                 PROVE  ClaimOf(q, v)' = IF q = o /\ v \in S THEN "held" ELSE ClaimOf(q, v)
      OBVIOUS
    <3>1. CASE q = o /\ v \in S
      <4>1. v \in OpenReserves(o)'
        BY <1>0, <1>1, <2>1, <3>1 DEF OpenReserves, MovementsPaired
      <4> QED BY <1>0, <3>1, <4>1, ClaimMeaningNext
    <3>2. CASE ~(q = o /\ v \in S)
      BY <1>1, <3>2 DEF ClaimOf, OpenReserves
    <3> QED BY <3>1, <3>2
  <2>3. claims' = Promise!Claimed(o, S, "held")
    BY <1>0, <2>2, ClaimsAfter
  <2>4. Promise!Unclaimed(o)
    BY <1>0, <2>1, ClaimMeaning DEF Promise!Unclaimed
  <2>5. Promise!Covered(o)
    BY <2>1, SufficientIsCovered DEF ReserveStock
  <2>6. Promise!Items(o) = S
    BY <2>1 DEF Promise!Items, Lines
  <2> QED BY <2>3, <2>4, <2>5, <2>6 DEF Promise!Hold, claims, ReserveStock
<1> QED BY <1>2, <1>3

\* The open reserves of an order are its claims held, and closing them moves
\* each to what the appended movements say.
LEMMA ClosingClaims ==
  ASSUME IInv, IInv', NEW o \in Orders, NEW l \in {"RELEASE", "OUT"},
         movements' = movements \cup Entries(l, o, OpenReserves(o))
  PROVE  claims' = Promise!Claimed(o, OpenReserves(o),
                                   IF l = "OUT" THEN "shipped" ELSE "returned")
<1> DEFINE S == OpenReserves(o)
           c == IF l = "OUT" THEN "shipped" ELSE "returned"
<1>0. MovementsPaired /\ MovementsPaired' /\ S \in SUBSET Variants
  BY DEF IInv, OpenReserves
<1>1. \A k, q, v : Has(k, q, v)' <=> Has(k, q, v) \/ (k = l /\ q = o /\ v \in S)
  BY Appended
<1>2. \A q \in Orders, v \in Variants :
        ClaimOf(q, v)' = IF q = o /\ v \in S THEN c ELSE ClaimOf(q, v)
  <2> SUFFICES ASSUME NEW q \in Orders, NEW v \in Variants
               PROVE  ClaimOf(q, v)' = IF q = o /\ v \in S THEN c ELSE ClaimOf(q, v)
    OBVIOUS
  <2>1. CASE q = o /\ v \in S
    BY <1>0, <1>1, <2>1, ClaimMeaningNext
  <2>2. CASE ~(q = o /\ v \in S)
    BY <1>1, <2>2 DEF ClaimOf, OpenReserves
  <2> QED BY <2>1, <2>2
<1> QED BY <1>0, <1>2, ClaimsAfter

LEMMA OpenReservesHeld ==
  ASSUME IInv, NEW o \in Orders
  PROVE  Promise!HeldItems(o) = OpenReserves(o)
BY ClaimMeaning DEF IInv, Promise!HeldItems, OpenReserves

LEMMA ReleaseIsGiveBack ==
  ASSUME IInv, IInv', NEW o \in Orders, ReleaseStock(o), UNCHANGED live
  PROVE  Promise!GiveBack(o)
BY ClosingClaims, OpenReservesHeld DEF Promise!GiveBack, claims, ReleaseStock

LEMMA CommitIsShip ==
  ASSUME IInv, IInv', NEW o \in Orders, CommitStock(o), UNCHANGED live
  PROVE  Promise!Ship(o)
<1>1. claims' = Promise!Claimed(o, OpenReserves(o), "shipped")
  BY ClosingClaims DEF CommitStock
<1>2. quantity' = Promise!Taken(o, OpenReserves(o))
  BY QuantityAssumption DEF CommitStock, Promise!Taken, UnitsIn, IInv, TypeOK
<1> QED BY <1>1, <1>2, OpenReservesHeld DEF Promise!Ship, claims

LEMMA ReserveAndCommitIsBoth ==
  ASSUME IInv, IInv', NEW o \in Orders, ~HasReserve(o), ReserveAndCommit(o), UNCHANGED live
  PROVE  Promise!HoldAndShip(o)
<1> DEFINE S == Lines(o)
<1>0. MovementsPaired /\ MovementsPaired' /\ TypeOK /\ S \in SUBSET Variants
  BY DEF IInv, TypeOK, Lines
<1>1. \A k, q, v : Has(k, q, v)' <=>
        Has(k, q, v) \/ (k \in {"RESERVE", "OUT"} /\ q = o /\ v \in S)
  BY EntriesMember DEF ReserveAndCommit, Has
<1>2. \A q \in Orders, v \in Variants :
        ClaimOf(q, v)' = IF q = o /\ v \in S THEN "shipped" ELSE ClaimOf(q, v)
  <2> SUFFICES ASSUME NEW q \in Orders, NEW v \in Variants
               PROVE  ClaimOf(q, v)' = IF q = o /\ v \in S THEN "shipped" ELSE ClaimOf(q, v)
    OBVIOUS
  <2>1. CASE q = o /\ v \in S
    BY <1>0, <1>1, <2>1, ClaimMeaningNext
  <2>2. CASE ~(q = o /\ v \in S)
    BY <1>1, <2>2 DEF ClaimOf, OpenReserves
  <2> QED BY <2>1, <2>2
<1>3. claims' = Promise!Claimed(o, S, "shipped")
  BY <1>0, <1>2, ClaimsAfter
<1>4. Promise!Unclaimed(o)
  BY <1>0, HasReserveIffMovement, ClaimMeaning DEF Promise!Unclaimed
<1>5. Promise!Covered(o)
  BY SufficientIsCovered DEF ReserveAndCommit
<1>6. Promise!Items(o) = S
  BY DEF Promise!Items, Lines
<1>7. quantity' = Promise!Taken(o, S)
  BY <1>0, QuantityAssumption DEF ReserveAndCommit, Promise!Taken, UnitsIn, TypeOK
<1> QED BY <1>3, <1>4, <1>5, <1>6, <1>7 DEF Promise!HoldAndShip, claims

LEMMA OrderKeepsPromise ==
  ASSUME IInv, IInv', NEW o \in Orders, OrderNext(o)
  PROVE  Promise!Next \/ UNCHANGED <<live, quantity, claims>>
<1>1. live' = live
  BY DEF OrderNext, TransitionStatus, Cancel, ReconcileOrder
<1>2. \/ ReserveStock(o) \/ ReleaseStock(o) \/ CommitStock(o)
      \/ ~HasReserve(o) /\ ReserveAndCommit(o)
      \/ UNCHANGED stockVars
  BY DEF OrderNext, TransitionStatus, Cancel, ReconcileOrder
<1>3. CASE UNCHANGED stockVars
  BY <1>1, <1>3 DEF stockVars, claims, ClaimOf, OpenReserves, Has
<1> QED BY <1>1, <1>2, <1>3, ReserveIsHold, ReleaseIsGiveBack, CommitIsShip,
           ReserveAndCommitIsBoth DEF Promise!Next

\* A restock and a count supply the shelf, never with less than is claimed; a
\* deleted variant is discontinued.
LEMMA StockKeepsPromise ==
  ASSUME IInv, IInv', StockChecks, NEW v \in Variants, StockNext(v)
  PROVE  Promise!Next
<1>0. /\ reserved[v] \in Nat /\ quantity[v] \in Nat /\ reserved[v] <= quantity[v]
      /\ MaxStock \in Nat /\ TypeOK
  BY StockAssumption DEF IInv, TypeOK, StockChecks
<1>1. ASSUME NEW n \in RestockAmounts, Restock(v, n) PROVE Promise!Next
  <2>1. n \in Nat /\ quantity[v] + n <= MaxStock
    <3>1. n \in Nat
      BY StockAssumption
    <3>2. quantity'[v] <= MaxStock
      BY <1>1 DEF Restock, StockChecks
    <3>3. quantity'[v] = quantity[v] + n
      BY <1>0, <1>1 DEF Restock, TypeOK
    <3> QED BY <3>1, <3>2, <3>3
  <2>2. Promise!Supply(v, quantity[v] + n)
    BY <1>0, <1>1, <2>1, HeldIsReserved
    DEF Restock, Promise!Supply, ClaimOf, OpenReserves, Has
  <2> QED BY <1>0, <2>1, <2>2 DEF Promise!Next
<1>2. ASSUME NEW n \in 0..MaxStock, AdjustStock(v, n) PROVE Promise!Next
  <2>1. Promise!Supply(v, n)
    BY <1>0, <1>2, HeldIsReserved
    DEF AdjustStock, Promise!Supply, ClaimOf, OpenReserves, Has
  <2> QED BY <2>1 DEF Promise!Next
<1>3. CASE DeleteVariant(v)
  <2>1. \A o \in Orders, w \in Variants :
          ClaimOf(o, w)' = IF w = v THEN "none" ELSE ClaimOf(o, w)
    <3>1. \A k, o, w : Has(k, o, w)' <=> Has(k, o, w) /\ w # v
      BY <1>3 DEF DeleteVariant, Has, Movement
    <3> QED BY <3>1 DEF ClaimOf, OpenReserves
  <2>2. claims' = [o \in Orders |-> [claims[o] EXCEPT ![v] = "none"]]
    BY <2>1 DEF claims
  <2>3. Promise!Discontinue(v)
    BY <1>3, <2>2 DEF DeleteVariant, Promise!Discontinue, claims
  <2> QED BY <2>3 DEF Promise!Next
<1> QED BY <1>1, <1>2, <1>3 DEF StockNext

\* Every transaction is a step of the promise or changes nothing it speaks of:
\* the items of an order are claimed once and together, only as far as the
\* shelf covers all claims, and every claim held can be shipped or given back.
THEOREM PromiseKept == Spec => KeepsPromise
<1>1. IInv /\ IInv' /\ StockChecks /\ [Next]_vars => [Promise!Next]_(Promise!vars)
  <2> SUFFICES ASSUME IInv, IInv', StockChecks, [Next]_vars
               PROVE  Promise!Next \/ UNCHANGED <<live, quantity, claims>>
    BY DEF Promise!vars, claims
  <2>1. CASE UNCHANGED vars
    BY <2>1 DEF vars, claims, ClaimOf, OpenReserves, Has
  <2> QED BY <2>1, OrderKeepsPromise, StockKeepsPromise DEF Next
<1>2. IInv => TypeOK
  BY DEF IInv
<1> QED BY <1>1, <1>2, PromiseInit, InvInit, InvStep, ChecksInit, ChecksStep, PTL
        DEF Spec, KeepsPromise, Promise!Spec

=============================================================================
