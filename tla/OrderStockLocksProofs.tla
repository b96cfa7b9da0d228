------------------------ MODULE OrderStockLocksProofs ------------------------
(***************************************************************************)
(* Proofs about OrderStockLocks for every set of workers, orders and       *)
(* variants.  That the transactions implement the atomic steps of          *)
(* OrderStock rests on what they keep locked: the status and the           *)
(* movements of the order, and of each Stock row already checked its       *)
(* counters.                                                               *)
(***************************************************************************)
EXTENDS OrderStockLocks, WellFoundedInduction, TLAPS

\* What is proved about the atomic steps.
Books == INSTANCE OrderStockProofs

-----------------------------------------------------------------------------
\* The rows of a transaction.

\* Induction over a set of numbers.
LEMMA AllNumbers ==
  ASSUME NEW B \in SUBSET Nat, 0 \in B, \A k \in B : k + 1 \in B
  PROVE  B = Nat
<1> SUFFICES ASSUME NEW n \in Nat, n \notin B PROVE FALSE
  OBVIOUS
<1>1. PICK R : R = {ss \in Nat \X Nat : ss[1] < ss[2]}
  OBVIOUS
<1>2. IsWellFoundedOn(R, Nat)
  BY <1>1, NatLessThanWellFounded DEF OpToRel
<1>3. PICK rest : rest = Nat \ B
  OBVIOUS
<1>4. rest \subseteq Nat /\ rest # {}
  BY <1>3
<1>5. PICK k \in rest : \A i \in rest : ~(<<i, k>> \in R)
  BY <1>2, <1>4, WFMin
<1>6. k \in Nat /\ k # 0
  BY <1>3, <1>5
<1>7. k - 1 \in Nat /\ k - 1 < k /\ (k - 1) + 1 = k
  BY <1>6
<1>8. k - 1 \in B
  BY <1>1, <1>3, <1>5, <1>6, <1>7
<1> QED BY <1>3, <1>5, <1>7, <1>8

\* The lists that Selected builds, up to the i-th row.
Row(rows, S, i, f) == IF i = 0 THEN << >>
                      ELSE IF rows[i] \in S THEN Append(f[i - 1], rows[i]) ELSE f[i - 1]

Lists(rows, S, k, f) == f = [i \in 0..k |-> Row(rows, S, i, f)]

LEMMA ListsExist ==
  ASSUME NEW rows, NEW S, NEW n \in Nat
  PROVE  \E f : Lists(rows, S, n, f)
<1>1. PICK B : B = {k \in Nat : \E f : Lists(rows, S, k, f)}
  OBVIOUS
<1>2. 0 \in B
  <2>1. PICK f : f = [i \in 0..0 |-> << >>]
    OBVIOUS
  <2>2. Lists(rows, S, 0, f)
    BY <2>1 DEF Lists, Row
  <2> QED BY <1>1, <2>2
<1>3. ASSUME NEW k \in B PROVE k + 1 \in B
  <2>1. k \in Nat /\ k + 1 \in Nat
    BY <1>1
  <2>2. PICK f : Lists(rows, S, k, f)
    BY <1>1
  <2>3. PICK g : g = [i \in 0..(k + 1) |-> Row(rows, S, i, f)]
    OBVIOUS
  <2>4. \A i \in 0..k : g[i] = f[i]
    BY <2>1, <2>2, <2>3 DEF Lists
  <2>5. \A i \in 0..(k + 1) : Row(rows, S, i, g) = Row(rows, S, i, f)
    <3> SUFFICES ASSUME NEW i \in 0..(k + 1), i # 0 PROVE g[i - 1] = f[i - 1]
      BY DEF Row
    <3>1. i - 1 \in 0..k
      BY <2>1
    <3> QED BY <2>4, <3>1
  <2>6. Lists(rows, S, k + 1, g)
    BY <2>3, <2>5 DEF Lists
  <2> QED BY <1>1, <2>1, <2>6
<1>4. B = Nat
  BY <1>1, <1>2, <1>3, AllNumbers
<1> QED BY <1>1, <1>4

LEMMA SelectedIsList ==
  ASSUME NEW rows \in Seq(Variants), NEW S
  PROVE  \E f : Lists(rows, S, Len(rows), f) /\ Selected(rows, S) = f[Len(rows)]
<1>1. Selected(rows, S) = (CHOOSE f : Lists(rows, S, Len(rows), f))[Len(rows)]
  BY Zenon DEF Selected, Lists, Row
<1>2. \E f : Lists(rows, S, Len(rows), f)
  <2>1. Len(rows) \in Nat
    OBVIOUS
  <2> QED BY <2>1, ListsExist
<1> QED BY <1>1, <1>2, Zenon

LEMMA SetOfAppend ==
  ASSUME NEW rows \in Seq(Variants), NEW v \in Variants
  PROVE  /\ Append(rows, v) \in Seq(Variants)
         /\ ToSet(Append(rows, v)) = ToSet(rows) \cup {v}
<1>1. PICK m \in Nat : m = Len(rows) /\ DOMAIN rows = 1..m
  OBVIOUS
<1>2. PICK after : after = Append(rows, v)
  OBVIOUS
<1>3. /\ DOMAIN after = 1..(m + 1) /\ after[m + 1] = v
      /\ \A j \in 1..m : after[j] = rows[j]
  BY <1>1, <1>2
<1>4. ToSet(after) = ToSet(rows) \cup {v}
  BY <1>1, <1>3 DEF ToSet
<1> QED BY <1>2, <1>4

LEMMA SetOfTail ==
  ASSUME NEW rows \in Seq(Variants), rows # << >>
  PROVE  ToSet(rows) = ToSet(Tail(rows)) \cup {Head(rows)}
<1>1. PICK m \in Nat : m + 1 = Len(rows) /\ DOMAIN rows = 1..(m + 1)
  <2>1. Len(rows) \in Nat /\ Len(rows) # 0 /\ DOMAIN rows = 1..Len(rows)
    OBVIOUS
  <2>2. Len(rows) - 1 \in Nat /\ (Len(rows) - 1) + 1 = Len(rows)
    BY <2>1
  <2> QED BY <2>1, <2>2
<1>2. PICK rest : rest = Tail(rows)
  OBVIOUS
<1>3. DOMAIN rest = 1..m /\ \A i \in 1..m : rest[i] = rows[i + 1]
  BY <1>1, <1>2
<1>4. Head(rows) = rows[1]
  OBVIOUS
<1>5. \A v \in ToSet(rows) : v \in ToSet(rest) \cup {rows[1]}
  <2> SUFFICES ASSUME NEW i \in 1..(m + 1), i # 1
               PROVE  \E j \in DOMAIN rest : rows[i] = rest[j]
    BY <1>1 DEF ToSet
  <2>1. i - 1 \in 1..m /\ (i - 1) + 1 = i
    BY <1>1
  <2> QED BY <1>3, <2>1
<1>6. \A v \in ToSet(rest) \cup {rows[1]} : v \in ToSet(rows)
  BY <1>1, <1>3 DEF ToSet
<1> QED BY <1>2, <1>4, <1>5, <1>6

\* The rows selected are those asked for.
LEMMA SelectedRows ==
  ASSUME NEW rows \in Seq(Variants), NEW S
  PROVE  Selected(rows, S) \in Seq(Variants) /\ ToSet(Selected(rows, S)) = ToSet(rows) \cap S
<1>1. PICK n \in Nat : n = Len(rows) /\ DOMAIN rows = 1..n
  OBVIOUS
<1>2. PICK f : Lists(rows, S, n, f) /\ Selected(rows, S) = f[n]
  BY <1>1, SelectedIsList
<1>3. PICK B : B = {i \in Nat : i <= n => /\ f[i] \in Seq(Variants)
                                          /\ ToSet(f[i]) = {rows[j] : j \in 1..i} \cap S}
  OBVIOUS
<1>4. 0 \in B
  <2>1. f[0] = << >>
    BY <1>1, <1>2 DEF Lists, Row
  <2>2. ToSet(f[0]) = {} /\ {rows[j] : j \in 1..0} = {} /\ f[0] \in Seq(Variants)
    BY <2>1 DEF ToSet
  <2> QED BY <1>3, <2>2
<1>5. ASSUME NEW i \in B PROVE i + 1 \in B
  <2>1. i \in Nat /\ i + 1 \in Nat
    BY <1>3
  <2>2. ASSUME i + 1 <= n
        PROVE  /\ f[i + 1] \in Seq(Variants)
               /\ ToSet(f[i + 1]) = {rows[j] : j \in 1..(i + 1)} \cap S
    <3>1. i <= n /\ i + 1 \in 1..n /\ i + 1 \in 0..n /\ i + 1 # 0 /\ (i + 1) - 1 = i
      BY <1>1, <2>1, <2>2
    <3>2. PICK before \in Seq(Variants) :
            before = f[i] /\ ToSet(before) = {rows[j] : j \in 1..i} \cap S
      BY <1>3, <3>1
    <3>3. PICK v \in Variants : v = rows[i + 1]
      BY <1>1, <3>1
    <3>4. f[i + 1] = IF v \in S THEN Append(before, v) ELSE before
      <4>1. f[i + 1] = Row(rows, S, i + 1, f)
        BY <1>2, <3>1 DEF Lists
      <4> QED BY <3>1, <3>2, <3>3, <4>1 DEF Row
    <3>5. {rows[j] : j \in 1..(i + 1)} = {rows[j] : j \in 1..i} \cup {v}
      BY <2>1, <3>3
    <3>6. Append(before, v) \in Seq(Variants) /\ ToSet(Append(before, v)) = ToSet(before) \cup {v}
      BY SetOfAppend
    <3>7. f[i + 1] \in Seq(Variants)
      BY <3>4, <3>6
    <3>8. ToSet(f[i + 1]) = ({rows[j] : j \in 1..i} \cup {v}) \cap S
      BY <3>2, <3>4, <3>6
    <3> QED BY <3>5, <3>7, <3>8
  <2> QED BY <1>3, <2>1, <2>2
<1>6. B = Nat
  <2>1. B \in SUBSET Nat
    BY <1>3
  <2> QED BY <1>4, <1>5, <2>1, AllNumbers
<1>7. f[n] \in Seq(Variants) /\ ToSet(f[n]) = {rows[j] : j \in 1..n} \cap S
  <2>1. n \in B /\ n <= n
    BY <1>1, <1>6
  <2> QED BY <1>3, <2>1
<1>8. {rows[j] : j \in 1..n} = ToSet(rows)
  BY <1>1 DEF ToSet
<1> QED BY <1>2, <1>7, <1>8

LEMMA ReversedRows ==
  ASSUME NEW rows \in Seq(Variants)
  PROVE  Reverse(rows) \in Seq(Variants) /\ ToSet(Reverse(rows)) = ToSet(rows)
<1>1. PICK n \in Nat : n = Len(rows) /\ DOMAIN rows = 1..n
  OBVIOUS
<1>2. Reverse(rows) = [i \in 1..n |-> rows[(n - i) + 1]]
  BY <1>1 DEF Reverse
<1>3. \A i \in 1..n : (n - i) + 1 \in 1..n /\ (n - ((n - i) + 1)) + 1 = i
  BY <1>1
<1>4. Reverse(rows) \in Seq(Variants) /\ DOMAIN Reverse(rows) = 1..n
  BY <1>1, <1>2, <1>3
<1>5. PICK back : back = Reverse(rows)
  OBVIOUS
<1>6. \A i \in 1..n : back[i] = rows[(n - i) + 1] /\ rows[i] = back[(n - i) + 1]
  BY <1>2, <1>3, <1>5
<1>7. ToSet(back) = ToSet(rows)
  <2>1. \A v \in ToSet(back) : v \in ToSet(rows)
    BY <1>1, <1>3, <1>4, <1>5, <1>6 DEF ToSet
  <2>2. \A v \in ToSet(rows) : v \in ToSet(back)
    <3> SUFFICES ASSUME NEW i \in 1..n PROVE \E j \in DOMAIN back : rows[i] = back[j]
      BY <1>1 DEF ToSet
    <3> QED BY <1>3, <1>4, <1>5, <1>6
  <2> QED BY <2>1, <2>2
<1> QED BY <1>4, <1>5, <1>7

-----------------------------------------------------------------------------
\* Who has locked what.

\* An order is locked once, a Stock row is locked once and under an order.
LocksTyped ==
  /\ task \in [Workers -> Tasks]
  /\ held \in [Workers -> SUBSET Variants]
  /\ plan \in [Workers -> Seq(Variants)]
  /\ \A w \in Workers : held[w] # {} \/ plan[w] # << >> => HasOrder(w)
  /\ \A w, u \in Workers : w # u => held[w] \cap held[u] = {}
  /\ \A w, u \in Workers :
       HasOrder(w) /\ HasOrder(u) /\ task[w].order = task[u].order => w = u

\* The end of a transaction only frees.
LEMMA EndTyped ==
  ASSUME LocksTyped, NEW w \in Workers, Ended(w)
  PROVE  LocksTyped'
<1>1. /\ task' \in [Workers -> Tasks] /\ held' \in [Workers -> SUBSET Variants]
      /\ plan' \in [Workers -> Seq(Variants)]
      /\ task'[w] = Idle /\ held'[w] = {} /\ plan'[w] = << >>
      /\ \A u \in Workers : u # w => task'[u] = task[u] /\ held'[u] = held[u] /\ plan'[u] = plan[u]
  BY DEF Ended, LocksTyped, Tasks
<1>2. ~HasOrder(w)'
  BY <1>1 DEF HasOrder, Idle
<1>3. \A u \in Workers : u # w => HasOrder(u)' = HasOrder(u)
  BY <1>1 DEF HasOrder
<1> QED BY <1>1, <1>2, <1>3 DEF LocksTyped

LEMMA TaskKnown ==
  ASSUME LocksTyped, NEW w \in Workers, Waiting(w) \/ HasOrder(w)
  PROVE  /\ task[w].order \in Orders /\ task[w].goal \in Goals
         /\ task[w] = [step |-> task[w].step, order |-> task[w].order, goal |-> task[w].goal]
<1>1. task[w] \in Tasks /\ task[w] # Idle
  BY DEF LocksTyped, Waiting, HasOrder, Idle
<1> QED BY <1>1 DEF Tasks

LEMMA RowsTyped ==
  ASSUME NEW o \in Orders, NEW goal \in Goals
  PROVE  RowsToLock(o, goal) \in Seq(Variants)
<1>1. ItemOrder[o] \in Seq(Variants)
  BY ItemOrderAssumption
<1>2. Reverse(ItemOrder[o]) \in Seq(Variants)
  BY <1>1, ReversedRows
<1>3. PICK op : op = Operation(o, goal)
  OBVIOUS
<1>4. CASE op = "reserve"
  BY <1>1, <1>3, <1>4, SelectedRows DEF RowsToLock
<1>5. CASE op \in {"release", "commit"}
  BY <1>2, <1>3, <1>5, SelectedRows DEF RowsToLock
<1>6. CASE op \notin {"reserve", "release", "commit"}
  BY <1>3, <1>6 DEF RowsToLock
<1> QED BY <1>4, <1>5, <1>6

LEMMA LocksKept == LocksTyped /\ [Next]_vars => LocksTyped'
<1> SUFFICES ASSUME LocksTyped, [Next]_vars PROVE LocksTyped'
  OBVIOUS
<1>1. ASSUME NEW w \in Workers, NEW o \in Orders, NEW goal \in Goals, Begin(w, o, goal)
      PROVE  LocksTyped'
  <2>1. PICK new \in Tasks : new = [step |-> "begun", order |-> o, goal |-> goal]
    <3>1. [step |-> "begun", order |-> o, goal |-> goal] \in Tasks
      BY DEF Tasks
    <3> QED BY <3>1
  <2>2. task' = [task EXCEPT ![w] = new] /\ UNCHANGED <<held, plan>> /\ task[w] = Idle
    BY <1>1, <2>1 DEF Begin
  <2>3. task' \in [Workers -> Tasks] /\ ~HasOrder(w)' /\ ~HasOrder(w)
    BY <2>1, <2>2 DEF LocksTyped, HasOrder, Idle
  <2>4. \A u \in Workers : u # w => task'[u] = task[u] /\ HasOrder(u)' = HasOrder(u)
    BY <2>2 DEF LocksTyped, HasOrder
  <2> QED BY <2>2, <2>3, <2>4 DEF LocksTyped
<1>2. ASSUME NEW w \in Workers, LockOrder(w)
      PROVE  LocksTyped'
  <2>1. PICK o \in Orders, goal \in Goals :
          task[w] = [step |-> "begun", order |-> o, goal |-> goal]
    BY <1>2, TaskKnown DEF LockOrder, Waiting
  <2>2. CASE Allowed(o, goal)
    <3>1. PICK new \in Tasks : new = [step |-> "locked", order |-> o, goal |-> goal]
      <4>1. [step |-> "locked", order |-> o, goal |-> goal] \in Tasks
        BY DEF Tasks
      <4> QED BY <4>1
    <3>2. /\ task' = [task EXCEPT ![w] = new] /\ held' = held
          /\ plan' = [plan EXCEPT ![w] = RowsToLock(o, goal)]
      BY <1>2, <2>1, <2>2, <3>1 DEF LockOrder, LocksTyped
    <3>3. /\ task' \in [Workers -> Tasks] /\ plan' \in [Workers -> Seq(Variants)]
          /\ HasOrder(w)' /\ task'[w].order = o
      BY <3>1, <3>2, RowsTyped DEF LocksTyped, HasOrder
    <3>4. \A u \in Workers : u # w => /\ task'[u] = task[u] /\ HasOrder(u)' = HasOrder(u)
                                      /\ plan'[u] = plan[u]
      BY <3>2 DEF LocksTyped, HasOrder
    <3>5. \A u \in Workers : HasOrder(u) => task[u].order # o
      BY <1>2, <2>1 DEF LockOrder, OrderLocked
    <3> QED BY <3>2, <3>3, <3>4, <3>5 DEF LocksTyped
  <2>3. CASE ~Allowed(o, goal)
    BY <1>2, <2>1, <2>3, EndTyped DEF LockOrder
  <2> QED BY <2>2, <2>3
<1>3. ASSUME NEW w \in Workers, LockStock(w)
      PROVE  LocksTyped'
  <2>1. CASE Ended(w)
    BY <2>1, EndTyped
  <2>2. CASE ~Ended(w)
    <3>1. PICK v \in Variants : v = Head(plan[w]) /\ Tail(plan[w]) \in Seq(Variants)
      BY <1>3 DEF LockStock, LocksTyped
    <3>2. /\ held' = [held EXCEPT ![w] = held[w] \cup {v}] /\ task' = task
          /\ plan' = [plan EXCEPT ![w] = Tail(plan[w])] /\ HasOrder(w)
          /\ \A u \in Workers : v \notin held[u]
      BY <1>3, <2>2, <3>1 DEF LockStock, LocksTyped, StockLocked
    <3>3. held' \in [Workers -> SUBSET Variants] /\ plan' \in [Workers -> Seq(Variants)]
      BY <3>1, <3>2 DEF LocksTyped
    <3>4. \A u \in Workers : u # w => held'[u] = held[u] /\ plan'[u] = plan[u]
      BY <3>2 DEF LocksTyped
    <3>5. held'[w] = held[w] \cup {v} /\ \A u \in Workers : HasOrder(u)' = HasOrder(u)
      BY <3>2 DEF LocksTyped, HasOrder
    <3> QED BY <3>2, <3>3, <3>4, <3>5 DEF LocksTyped
  <2> QED BY <2>1, <2>2
<1>4. ASSUME NEW w \in Workers, Commit(w) \/ Abort(w)
      PROVE  LocksTyped'
  BY <1>4, EndTyped DEF Commit, Abort
<1>5. CASE UNCHANGED <<task, held, plan>>
  BY <1>5 DEF LocksTyped, HasOrder
<1> QED BY <1>1, <1>2, <1>3, <1>4, <1>5 DEF Next, WorkerNext, StockStep, AbortVictim, vars

LEMMA LocksInit == Init => LocksTyped
BY DEF Init, LocksTyped, Tasks, HasOrder, Idle

\* A cycle of transactions always has one among those that have locked
\* different orders and wait for Stock rows.
LEMMA CyclesAreOfStock == LocksTyped => OrdersNeverInCycle
<1> SUFFICES ASSUME LocksTyped, NEW W \in SUBSET Workers, Deadlocked(W)
             PROVE  \E C \in SUBSET W :
                      /\ Deadlocked(C)
                      /\ \A w \in C : HasOrder(w) /\ held[w] # {}
                      /\ \A w, u \in C : w # u => task[w].order # task[u].order
  BY DEF OrdersNeverInCycle
<1>1. PICK C \in SUBSET W : C = {w \in W : held[w] # {}}
  OBVIOUS
<1>2. \A w \in C : HasOrder(w) /\ ~Waiting(w)
  BY <1>1 DEF LocksTyped, HasOrder, Waiting
<1>3. ASSUME NEW w \in W, HasOrder(w)
      PROVE  \E u \in C : u # w /\ WaitsFor(w, u)
  <2>1. PICK u \in W : u # w /\ WaitsFor(w, u)
    BY DEF Deadlocked
  <2>2. Head(plan[w]) \in held[u]
    BY <1>3, <2>1 DEF WaitsFor, HasOrder, Waiting
  <2> QED BY <1>1, <2>1, <2>2
<1>4. \E w \in W : HasOrder(w)
  <2>1. PICK w \in W, u \in W : WaitsFor(w, u)
    BY DEF Deadlocked
  <2> QED BY <2>1 DEF WaitsFor
<1>5. Deadlocked(C)
  BY <1>2, <1>3, <1>4 DEF Deadlocked
<1>6. \A w, u \in C : w # u => task[w].order # task[u].order
  BY <1>2 DEF LocksTyped
<1> QED BY <1>1, <1>2, <1>5, <1>6

\* The paths of one order cannot deadlock, for any number of workers and
\* orders: who waits for an Order row blocks nobody (_locked_order).
THEOREM NoCycleOfOneOrder == Spec => []OrdersNeverInCycle
BY LocksInit, LocksKept, CyclesAreOfStock, PTL DEF Spec

-----------------------------------------------------------------------------
\* The atomic steps, of which the proofs have their own instance.

LEMMA SameReads ==
  ASSUME NEW o
  PROVE  /\ Books!Lines(o) = Atomic!Lines(o) /\ (Books!HasReserve(o) <=> Atomic!HasReserve(o))
         /\ Books!ToReserve(o) = Atomic!ToReserve(o)
         /\ Books!OpenReserves(o) = Atomic!OpenReserves(o)
         /\ \A v : Books!Available(v) = Atomic!Available(v)
         /\ \A S : Books!Sufficient(o, S) <=> Atomic!Sufficient(o, S)
         /\ \A S, v : Books!UnitsIn(o, S, v) = Atomic!UnitsIn(o, S, v)
         /\ \A k, S : Books!Entries(k, o, S) = Atomic!Entries(k, o, S)
BY DEF Atomic!Lines, Books!Lines, Atomic!HasReserve, Books!HasReserve, Atomic!ToReserve,
       Books!ToReserve, Atomic!Has, Books!Has, Atomic!Movement, Books!Movement,
       Atomic!Entries, Books!Entries, Atomic!OpenReserves, Books!OpenReserves,
       Atomic!Available, Books!Available, Atomic!Sufficient, Books!Sufficient,
       Atomic!UnitsIn, Books!UnitsIn

LEMMA SameChecks == Books!StockChecks' <=> Atomic!StockChecks'
BY DEF Atomic!StockChecks, Books!StockChecks

LEMMA SameBooking ==
  ASSUME NEW o
  PROVE  /\ Atomic!ReserveStock(o) => Books!ReserveStock(o)
         /\ Atomic!ReleaseStock(o) => Books!ReleaseStock(o)
         /\ Atomic!CommitStock(o) => Books!CommitStock(o)
         /\ Atomic!ReserveAndCommit(o) => Books!ReserveAndCommit(o)
BY SameReads, SameChecks
   DEF Atomic!ReserveStock, Books!ReserveStock, Atomic!ReleaseStock, Books!ReleaseStock,
       Atomic!CommitStock, Books!CommitStock, Atomic!ReserveAndCommit,
       Books!ReserveAndCommit

LEMMA SameStep == [Atomic!Next]_tables => [Books!Next]_(Books!vars)
<1>1. ASSUME NEW o \in Orders, Atomic!OrderNext(o) PROVE Books!OrderNext(o)
  BY <1>1, SameBooking, SameReads
     DEF Atomic!OrderNext, Books!OrderNext, Atomic!TransitionStatus, Books!TransitionStatus,
         Atomic!Cancel, Books!Cancel, Atomic!ReconcileOrder, Books!ReconcileOrder,
         Atomic!Statuses, Books!Statuses, Atomic!OrderStatusTransitions,
         Books!OrderStatusTransitions, Atomic!Holding, Books!Holding, Atomic!stockVars,
         Books!stockVars
<1>2. ASSUME NEW v \in Variants, Atomic!StockNext(v) PROVE Books!StockNext(v)
  BY <1>2, SameChecks
     DEF Atomic!StockNext, Books!StockNext, Atomic!Restock, Books!Restock,
         Atomic!AdjustStock, Books!AdjustStock, Atomic!DeleteVariant, Books!DeleteVariant
<1> QED BY <1>1, <1>2 DEF Atomic!Next, Books!Next, tables, Books!vars

\* What holds of the tables whenever only atomic steps are taken.
BooksInv == Books!IInv /\ Books!StockChecks /\ Books!StatusMatchesMovements

LEMMA OrdersFinite == Books!IsFiniteSet(Orders)
BY OrdersAssumption DEF Books!IsFiniteSet, IsFiniteSet

LEMMA BooksInit == Atomic!Init => BooksInv
<1> SUFFICES ASSUME Atomic!Init PROVE BooksInv
  OBVIOUS
<1>1. Books!Init
  BY DEF Atomic!Init, Books!Init
<1>2. Books!IInv
  BY <1>1, Books!InvInit, OrdersFinite, QuantityAssumption, StockAssumption
<1>3. Books!StockChecks
  BY <1>1, Books!ChecksInit, OrdersFinite, QuantityAssumption, StockAssumption
<1>4. \A o \in Orders : Books!OrderBooked(o)
  BY <1>1, Books!BookedInit, OrdersFinite, QuantityAssumption, StockAssumption
<1>5. Books!TypeOK /\ Books!MovementsPaired
  BY <1>2 DEF Books!IInv
<1>6. \A o \in Orders : Books!Agrees(o) <=> Books!OrderBooked(o)
  BY <1>5, Books!AgreesIffBooked, OrdersFinite, QuantityAssumption, StockAssumption
<1> QED BY <1>2, <1>3, <1>4, <1>6 DEF BooksInv, Books!StatusMatchesMovements

LEMMA BooksKept == BooksInv /\ [Atomic!Next]_tables => BooksInv'
<1> SUFFICES ASSUME BooksInv, [Atomic!Next]_tables PROVE BooksInv'
  OBVIOUS
<1> USE OrdersFinite, QuantityAssumption, StockAssumption
<1>1. Books!IInv /\ Books!StockChecks /\ [Books!Next]_(Books!vars)
  BY SameStep DEF BooksInv
<1>2. Books!IInv'
  BY <1>1, Books!InvStep
<1>3. Books!StockChecks'
  <2>1. Books!TypeOK
    BY <1>1 DEF Books!IInv
  <2> QED BY <1>1, <2>1, Books!ChecksStep
<1>4. \A o \in Orders : Books!Agrees(o) => Books!Agrees(o)'
  BY <1>1, Books!AgreementStep
<1>5. Books!StatusMatchesMovements'
  BY <1>4 DEF BooksInv, Books!StatusMatchesMovements
<1> QED BY <1>2, <1>3, <1>5 DEF BooksInv

\* What the transactions rely on.
LEMMA BooksSay ==
  ASSUME BooksInv
  PROVE  /\ status \in [Orders -> Atomic!Statuses] /\ live \subseteq Variants
         /\ quantity \in [Variants -> Nat] /\ reserved \in [Variants -> Nat]
         /\ \A v \in Variants : reserved[v] <= quantity[v] /\ quantity[v] <= MaxStock
         /\ \A o \in Orders :
              /\ \A v \in Atomic!OpenReserves(o) :
                   v \in live /\ Ordered[o][v] > 0 /\ Ordered[o][v] <= reserved[v]
              /\ status[o] = "PENDING" => ~Atomic!HasReserve(o)
              /\ status[o] \in Atomic!Holding => Atomic!ToReserve(o) = {}
              /\ status[o] \in {"DELIVERED", "CANCELLED"} => Atomic!OpenReserves(o) = {}
              /\ status[o] = "DELIVERED" /\ ~Atomic!HasReserve(o) => Atomic!Lines(o) = {}
<1> USE OrdersFinite, QuantityAssumption, StockAssumption
<1>1. Books!TypeOK /\ Books!MovementsPaired /\ Books!UndoFitsChecks
  BY Books!UndoFits DEF BooksInv, Books!IInv
<1>2. /\ status \in [Orders -> Books!Statuses] /\ live \subseteq Variants
      /\ quantity \in [Variants -> Nat] /\ reserved \in [Variants -> Nat]
  BY <1>1 DEF Books!TypeOK
<1>3. \A v \in Variants : reserved[v] <= quantity[v] /\ quantity[v] <= MaxStock
  BY DEF BooksInv, Books!StockChecks
<1>4. ASSUME NEW o \in Orders
      PROVE  /\ \A v \in Books!OpenReserves(o) :
                  v \in live /\ Ordered[o][v] > 0 /\ Ordered[o][v] <= reserved[v]
             /\ status[o] = "PENDING" => ~Books!HasReserve(o)
             /\ status[o] \in Books!Holding => Books!ToReserve(o) = {}
             /\ status[o] \in {"DELIVERED", "CANCELLED"} => Books!OpenReserves(o) = {}
             /\ status[o] = "DELIVERED" /\ ~Books!HasReserve(o) => Books!Lines(o) = {}
  <2>1. Books!OrderBooked(o)
    <3>1. Books!Agrees(o)
      BY DEF BooksInv, Books!StatusMatchesMovements
    <3> QED BY <1>1, <3>1, Books!AgreesIffBooked
  <2>2. Books!HasReserve(o) <=> \E v \in Variants : Books!Has("RESERVE", o, v)
    BY <1>1, Books!HasReserveIffMovement
  <2>3. \A v \in Variants :
          /\ Books!Has("RELEASE", o, v) \/ Books!Has("OUT", o, v) => Books!Has("RESERVE", o, v)
          /\ ~(Books!Has("RELEASE", o, v) /\ Books!Has("OUT", o, v))
          /\ Books!Has("RESERVE", o, v) => v \in Books!Lines(o)
    BY <1>1 DEF Books!MovementsPaired
  <2>4. \A v \in Books!OpenReserves(o) : v \in Variants /\ Ordered[o][v] <= reserved[v]
    BY <1>1 DEF Books!UndoFitsChecks, Books!OpenReserves
  <2>5. \A v \in Books!Lines(o) : v \in Variants /\ v \in live /\ Ordered[o][v] > 0
    BY <1>2 DEF Books!Lines
  <2>6. \A v \in Books!OpenReserves(o) : v \in live /\ Ordered[o][v] > 0 /\ Ordered[o][v] <= reserved[v]
    BY <2>3, <2>4, <2>5 DEF Books!OpenReserves
  <2>7. status[o] = "PENDING" => ~Books!HasReserve(o)
    BY <2>1, <2>2, <2>3 DEF Books!OrderBooked
  <2>8. status[o] \in Books!Holding => Books!ToReserve(o) = {}
    BY <2>1, <2>2, <2>5 DEF Books!OrderBooked, Books!ToReserve
  <2>9. status[o] \in {"DELIVERED", "CANCELLED"} => Books!OpenReserves(o) = {}
    BY <2>1, <2>3 DEF Books!OrderBooked, Books!OpenReserves
  <2>10. status[o] = "DELIVERED" /\ ~Books!HasReserve(o) => Books!Lines(o) = {}
    BY <2>1, <2>2, <2>5 DEF Books!OrderBooked
  <2> QED BY <2>6, <2>7, <2>8, <2>9, <2>10
<1>5. Books!Statuses = Atomic!Statuses /\ Books!Holding = Atomic!Holding
  BY DEF Books!Statuses, Atomic!Statuses, Books!Holding, Atomic!Holding
<1> QED BY <1>2, <1>3, <1>4, <1>5, SameReads

-----------------------------------------------------------------------------
\* What a transaction has read holds until it commits.

\* The rows that the request needs, by what is in the tables now.
Due(o, goal) ==
  CASE goal = "CONFIRMED" -> Atomic!Lines(o)
    [] goal \in {"DELIVERED", "CANCELLED"} -> Atomic!OpenReserves(o)
    [] OTHER -> {}

\* o may go to its goal; H are the rows checked, and those in P are to come.
Ready(o, goal, H, P) ==
  /\ goal = "reconcile" \/ goal \in Atomic!OrderStatusTransitions[status[o]]
  /\ H \subseteq live
  /\ (H \cup P) \cap live = Due(o, goal)
  /\ goal = "CONFIRMED" => \A v \in H : Atomic!Available(v) >= Ordered[o][v]

Prepared ==
  \A w \in Workers :
    HasOrder(w) => Ready(task[w].order, task[w].goal, held[w], ToSet(plan[w]))

LInv == BooksInv /\ LocksTyped /\ Prepared

\* Once the order is locked: nothing is needed for a reconciliation, as the
\* tables agree, and otherwise the rows listed are those needed.
LEMMA RowsAreDue ==
  ASSUME BooksInv, NEW o \in Orders, NEW goal \in Goals, Allowed(o, goal)
  PROVE  Ready(o, goal, {}, ToSet(RowsToLock(o, goal)))
<1> USE ItemOrderAssumption
<1>1. PICK s \in Atomic!Statuses : s = status[o]
  BY BooksSay
<1>2. goal = "reconcile" \/ goal \in Atomic!OrderStatusTransitions[s]
  BY <1>1 DEF Allowed
<1>3. /\ ItemOrder[o] \in Seq(Variants) /\ Reverse(ItemOrder[o]) \in Seq(Variants)
      /\ ToSet(ItemOrder[o]) = {v \in Variants : Ordered[o][v] > 0}
      /\ ToSet(Reverse(ItemOrder[o])) = {v \in Variants : Ordered[o][v] > 0}
  BY ReversedRows
<1>4. ToSet(<< >>) = {}
  BY DEF ToSet
<1>5. /\ Operation(o, goal) = "reserve" =>
           ToSet(RowsToLock(o, goal)) = {v \in Variants : Ordered[o][v] > 0} \cap Atomic!ToReserve(o)
      /\ Operation(o, goal) \in {"release", "commit"} =>
           ToSet(RowsToLock(o, goal)) = {v \in Variants : Ordered[o][v] > 0} \cap Atomic!OpenReserves(o)
      /\ Operation(o, goal) = "none" => ToSet(RowsToLock(o, goal)) = {}
  <2>1. PICK op : op = Operation(o, goal)
    OBVIOUS
  <2>2. CASE op = "reserve"
    <3>1. RowsToLock(o, goal) = Selected(ItemOrder[o], Atomic!ToReserve(o))
      BY <2>1, <2>2 DEF RowsToLock
    <3> QED BY <1>3, <2>1, <2>2, <3>1, SelectedRows
  <2>3. CASE op \in {"release", "commit"}
    <3>1. RowsToLock(o, goal) = Selected(Reverse(ItemOrder[o]), Atomic!OpenReserves(o))
      BY <2>1, <2>3 DEF RowsToLock
    <3> QED BY <1>3, <2>1, <2>3, <3>1, SelectedRows
  <2>4. CASE op = "none"
    <3>1. RowsToLock(o, goal) = << >>
      BY <2>1, <2>4 DEF RowsToLock
    <3> QED BY <1>4, <2>1, <2>4, <3>1
  <2> QED BY <2>1, <2>2, <2>3, <2>4
<1>6. Due(o, goal) \subseteq live
  BY BooksSay DEF Due, Atomic!Lines
<1>7. ToSet(RowsToLock(o, goal)) \cap live = Due(o, goal)
  <2>1. CASE goal = "CONFIRMED"
    <3>1. Operation(o, goal) = "reserve" /\ s = "PENDING"
      BY <1>1, <1>2, <2>1 DEF Operation, Atomic!OrderStatusTransitions, Atomic!Statuses
    <3>2. Atomic!ToReserve(o) = Atomic!Lines(o)
      BY <1>1, <3>1, BooksSay DEF Atomic!ToReserve
    <3> QED BY <1>5, <2>1, <3>1, <3>2, BooksSay DEF Due, Atomic!Lines
  <2>2. CASE goal \in {"DELIVERED", "CANCELLED"}
    <3>1. Operation(o, goal) \in {"release", "commit"}
      BY <2>2 DEF Operation
    <3>2. Due(o, goal) = Atomic!OpenReserves(o)
      BY <2>2 DEF Due
    <3> QED BY <1>5, <3>1, <3>2, BooksSay
  <2>3. CASE goal = "reconcile"
    <3>1. Due(o, goal) = {}
      BY <2>3 DEF Due
    <3>2. CASE s \in Atomic!Holding
      <4>1. Operation(o, goal) = "reserve"
        BY <1>1, <2>3, <3>2 DEF Operation, Atomic!Holding
      <4> QED BY <1>1, <1>5, <3>1, <3>2, <4>1, BooksSay
    <3>3. CASE s = "CANCELLED"
      <4>1. Operation(o, goal) = "release"
        BY <1>1, <2>3, <3>3 DEF Operation, Atomic!Holding
      <4> QED BY <1>1, <1>5, <3>1, <3>3, <4>1, BooksSay
    <3>4. CASE s = "DELIVERED"
      <4>1. Operation(o, goal) = IF ~Atomic!HasReserve(o) THEN "reserve" ELSE "commit"
        BY <1>1, <2>3, <3>4 DEF Operation, Atomic!Holding
      <4>2. ~Atomic!HasReserve(o) => Atomic!ToReserve(o) = {}
        BY <1>1, <3>4, BooksSay DEF Atomic!ToReserve
      <4>3. Atomic!OpenReserves(o) = {}
        BY <1>1, <3>4, BooksSay
      <4> QED BY <1>5, <3>1, <4>1, <4>2, <4>3
    <3>5. CASE s = "PENDING"
      <4>1. Operation(o, goal) = "none"
        BY <1>1, <2>3, <3>5 DEF Operation, Atomic!Holding
      <4> QED BY <1>5, <3>1, <4>1
    <3> QED BY <3>2, <3>3, <3>4, <3>5 DEF Atomic!Statuses, Atomic!Holding
  <2>4. CASE goal \notin {"CONFIRMED", "DELIVERED", "CANCELLED", "reconcile"}
    <3>1. Operation(o, goal) = "none"
      BY <2>4 DEF Operation
    <3> QED BY <1>5, <2>4, <3>1 DEF Due
  <2> QED BY <2>1, <2>2, <2>3, <2>4
<1> QED BY <1>1, <1>2, <1>7 DEF Ready

\* A step that changes no row that a transaction holds leaves it ready.
LEMMA StaysReady ==
  ASSUME NEW o \in Orders, NEW goal, NEW H, NEW P, Ready(o, goal, H, P),
         status'[o] = status[o], live' \subseteq live, H \subseteq live',
         Atomic!OpenReserves(o)' = Atomic!OpenReserves(o) \cap live',
         \A v \in H : Atomic!Available(v)' = Atomic!Available(v)
  PROVE  Ready(o, goal, H, P)'
<1>1. Atomic!OrderStatusTransitions' = Atomic!OrderStatusTransitions
  BY DEF Atomic!OrderStatusTransitions
<1>2. Atomic!Lines(o)' = Atomic!Lines(o) \cap live'
  BY DEF Atomic!Lines
<1>3. Due(o, goal)' = Due(o, goal) \cap live'
  BY <1>2 DEF Due
<1>4. (H \cup P) \cap live' = Due(o, goal)'
  BY <1>3 DEF Ready
<1> QED BY <1>1, <1>4 DEF Ready

\* Nobody else's rows are written.
LEMMA OthersUntouched ==
  ASSUME BooksInv, NEW o \in Orders, NEW goal \in Goals, NEW H \in SUBSET Variants, Write(o, goal, H),
         NEW p \in Orders, p # o
  PROVE  /\ status'[p] = status[p] /\ live' = live
         /\ Atomic!OpenReserves(p)' = Atomic!OpenReserves(p)
         /\ \A v \in Variants \ H : Atomic!Available(v)' = Atomic!Available(v)
<1>1. status'[p] = status[p] /\ live' = live
  BY BooksSay DEF Write
<1> DEFINE new == {Atomic!Movement(k, o, v) : k \in KindsToAdd(o, goal), v \in H}
<1>2. movements' = movements \cup new
  BY DEF Write
<1>3. \A k, v : Atomic!Has(k, p, v)' <=> Atomic!Has(k, p, v)
  <2>1. \A m \in new : m.order = o
    BY DEF Atomic!Movement
  <2>2. \A k, v : Atomic!Movement(k, p, v).order = p
    BY DEF Atomic!Movement
  <2> HIDE DEF new
  <2> QED BY <1>2, <2>1, <2>2 DEF Atomic!Has
<1>4. Atomic!OpenReserves(p)' = Atomic!OpenReserves(p)
  BY <1>3 DEF Atomic!OpenReserves
<1>5. ASSUME NEW v \in Variants \ H
      PROVE  reserved'[v] = reserved[v] /\ quantity'[v] = quantity[v]
  <2>1. reserved[v] \in Nat /\ quantity[v] \in Nat
    BY BooksSay
  <2>2. reserved'[v] = reserved[v] + 0 /\ quantity'[v] = quantity[v] + 0
    BY <1>5 DEF Write, Changed
  <2> QED BY <2>1, <2>2
<1> QED BY <1>1, <1>4, <1>5 DEF Atomic!Available

LEMMA PreparedKept ==
  ASSUME LInv, [Next]_vars
  PROVE  Prepared'
<1> BooksInv /\ LocksTyped /\ Prepared
  BY DEF LInv
<1>1. ASSUME NEW w \in Workers, UNCHANGED tables,
             \A u \in Workers : u # w => /\ task'[u] = task[u] /\ held'[u] = held[u]
                                         /\ plan'[u] = plan[u],
             HasOrder(w)' => Ready(task[w].order, task[w].goal, held'[w], ToSet(plan'[w]))
                               /\ task'[w].order = task[w].order /\ task'[w].goal = task[w].goal
      PROVE  Prepared'
  <2>1. \A o, goal, H, P : Ready(o, goal, H, P)' = Ready(o, goal, H, P)
    BY <1>1 DEF tables, Ready, Due, Atomic!Lines, Atomic!OpenReserves, Atomic!Has, Atomic!Available,
                Atomic!OrderStatusTransitions
  <2> QED BY <1>1, <2>1 DEF Prepared, HasOrder
<1>2. ASSUME NEW w \in Workers, Ended(w), UNCHANGED tables
      PROVE  Prepared'
  <2>1. task'[w] = Idle /\ \A u \in Workers : u # w => /\ task'[u] = task[u] /\ held'[u] = held[u]
                                                       /\ plan'[u] = plan[u]
    BY <1>2 DEF Ended, LocksTyped
  <2>2. ~HasOrder(w)'
    BY <2>1 DEF HasOrder, Idle
  <2> QED BY <1>1, <1>2, <2>1, <2>2
<1>3. ASSUME NEW w \in Workers, NEW o \in Orders, NEW goal \in Goals, Begin(w, o, goal)
      PROVE  Prepared'
  <2>1. /\ task'[w].step = "begun" /\ UNCHANGED <<held, plan>>
        /\ \A u \in Workers : u # w => task'[u] = task[u]
    BY <1>3 DEF Begin, LocksTyped
  <2>2. ~HasOrder(w)'
    BY <2>1 DEF HasOrder
  <2> QED BY <1>1, <1>3, <2>1, <2>2 DEF Begin
<1>4. ASSUME NEW w \in Workers, LockOrder(w)
      PROVE  Prepared'
  <2>1. PICK o \in Orders, goal \in Goals :
          task[w] = [step |-> "begun", order |-> o, goal |-> goal]
    BY <1>4, TaskKnown DEF LockOrder, Waiting
  <2>2. CASE Allowed(o, goal)
    <3>1. /\ task'[w].order = o /\ task'[w].goal = goal /\ held' = held
          /\ plan'[w] = RowsToLock(o, goal) /\ UNCHANGED tables
          /\ \A u \in Workers : u # w => task'[u] = task[u] /\ plan'[u] = plan[u]
      BY <1>4, <2>1, <2>2 DEF LockOrder, LocksTyped
    <3>2. held[w] = {}
      BY <2>1 DEF LocksTyped, HasOrder
    <3>3. Ready(o, goal, held'[w], ToSet(plan'[w]))
      BY <2>2, <3>1, <3>2, RowsAreDue
    <3> QED BY <1>1, <2>1, <3>1, <3>3
  <2>3. CASE ~Allowed(o, goal)
    BY <1>2, <1>4, <2>1, <2>3 DEF LockOrder
  <2> QED BY <2>2, <2>3
<1>5. ASSUME NEW w \in Workers, LockStock(w)
      PROVE  Prepared'
  <2>1. CASE Ended(w)
    BY <1>2, <1>5, <2>1 DEF LockStock
  <2>2. CASE ~Ended(w)
    <3>1. PICK rows \in Seq(Variants), v \in Variants : rows = plan[w] /\ v = Head(rows) /\ rows # << >>
      BY <1>5 DEF LockStock, LocksTyped
    <3>2. PICK o \in Orders, goal \in Goals : o = task[w].order /\ goal = task[w].goal
      BY <1>5, TaskKnown DEF LockStock
    <3>3. /\ v \in live /\ Enough(o, goal, v) /\ task' = task /\ UNCHANGED tables
          /\ held'[w] = held[w] \cup {v} /\ plan'[w] = Tail(rows)
          /\ \A u \in Workers : u # w => held'[u] = held[u] /\ plan'[u] = plan[u]
      BY <1>5, <2>2, <3>1, <3>2 DEF LockStock, LocksTyped
    <3>4. ToSet(rows) = ToSet(Tail(rows)) \cup {v}
      BY <3>1, SetOfTail
    <3>5. Ready(o, goal, held[w], ToSet(rows))
      BY <1>5, <3>1, <3>2 DEF Prepared, LockStock
    <3>6. goal = "CONFIRMED" => Atomic!Available(v) >= Ordered[o][v]
      BY <3>3 DEF Enough, Operation
    <3>7. (held[w] \cup {v}) \cup ToSet(Tail(rows)) = held[w] \cup ToSet(rows)
      BY <3>4
    <3>8. Ready(o, goal, held[w] \cup {v}, ToSet(Tail(rows)))
      BY <3>3, <3>5, <3>6, <3>7 DEF Ready
    <3> QED BY <1>1, <3>2, <3>3, <3>8
  <2> QED BY <2>1, <2>2
<1>6. ASSUME NEW w \in Workers, Commit(w)
      PROVE  Prepared'
  <2>1. PICK o \in Orders, goal \in Goals : o = task[w].order /\ goal = task[w].goal /\ HasOrder(w)
    BY <1>6, TaskKnown DEF Commit
  <2>2. Write(o, goal, held[w]) /\ held[w] \in SUBSET Variants
    BY <1>6, <2>1 DEF Commit, LocksTyped
  <2>3. /\ task'[w] = Idle
        /\ \A u \in Workers : u # w => /\ task'[u] = task[u] /\ held'[u] = held[u]
                                       /\ plan'[u] = plan[u]
    BY <1>6 DEF Commit, Ended, LocksTyped
  <2>4. ASSUME NEW u \in Workers, HasOrder(u)'
        PROVE  Ready(task[u].order, task[u].goal, held[u], ToSet(plan[u]))'
                 /\ task'[u] = task[u] /\ held'[u] = held[u] /\ plan'[u] = plan[u]
    <3>1. u # w /\ HasOrder(u)
      BY <2>3, <2>4 DEF HasOrder, Idle
    <3>2. PICK p, aim, H, P :
            /\ p \in Orders
            /\ p = task[u].order /\ aim = task[u].goal /\ H = held[u] /\ P = ToSet(plan[u])
            /\ p # o
      BY <2>1, <3>1, TaskKnown DEF LocksTyped
    <3>3. H \subseteq Variants \ held[w]
      BY <3>1, <3>2 DEF LocksTyped
    <3>4. Ready(p, aim, H, P)
      BY <3>1, <3>2 DEF Prepared
    <3>5. /\ status'[p] = status[p] /\ live' = live
          /\ Atomic!OpenReserves(p)' = Atomic!OpenReserves(p)
          /\ \A v \in Variants \ held[w] : Atomic!Available(v)' = Atomic!Available(v)
      BY <2>2, <3>2, OthersUntouched
    <3>6. Atomic!OpenReserves(p) \subseteq live
      BY <3>2, BooksSay
    <3>7. Ready(p, aim, H, P)'
      <4>1. H \subseteq live'
        BY <3>4, <3>5 DEF Ready
      <4> QED BY <3>2, <3>3, <3>4, <3>5, <3>6, <4>1, StaysReady
    <3>8. task'[u] = task[u] /\ held'[u] = held[u] /\ plan'[u] = plan[u]
      BY <2>3, <3>1
    <3> QED BY <3>2, <3>7, <3>8
  <2> QED BY <2>4 DEF Prepared
<1>7. ASSUME NEW v \in Variants, StockStep(v)
      PROVE  Prepared'
  <2>1. UNCHANGED <<task, held, plan>> /\ status' = status /\ live' \subseteq live
    BY <1>7 DEF StockStep, Atomic!StockNext, Atomic!Restock, Atomic!AdjustStock, Atomic!DeleteVariant
  <2>2. \A x \in Variants : x # v => /\ quantity'[x] = quantity[x] /\ reserved'[x] = reserved[x]
                                     /\ x \in live' <=> x \in live
    BY <1>7, BooksSay DEF StockStep, Atomic!StockNext, Atomic!Restock, Atomic!AdjustStock,
                          Atomic!DeleteVariant
  <2>3. \A p \in Orders : Atomic!OpenReserves(p)' = Atomic!OpenReserves(p) \cap live'
    <3>1. \A p \in Orders : Atomic!OpenReserves(p) \subseteq live
      BY BooksSay
    <3>2. CASE movements' = movements /\ live' = live
      BY <3>1, <3>2 DEF Atomic!OpenReserves, Atomic!Has
    <3>3. CASE Atomic!DeleteVariant(v)
      <4>1. \A k, p, x : Atomic!Has(k, p, x)' <=> Atomic!Has(k, p, x) /\ x # v
        BY <3>3 DEF Atomic!DeleteVariant, Atomic!Has, Atomic!Movement
      <4> QED BY <3>1, <3>3, <4>1 DEF Atomic!OpenReserves, Atomic!DeleteVariant
    <3> QED BY <1>7, <3>2, <3>3 DEF StockStep, Atomic!StockNext, Atomic!Restock, Atomic!AdjustStock
  <2>4. ASSUME NEW u \in Workers, HasOrder(u)
        PROVE  Ready(task[u].order, task[u].goal, held[u], ToSet(plan[u]))'
    <3>1. PICK p, aim, H, P :
            p \in Orders /\ p = task[u].order /\ aim = task[u].goal /\ H = held[u] /\ P = ToSet(plan[u])
      BY <2>4, TaskKnown
    <3>2. v \notin H /\ H \subseteq Variants
      BY <1>7, <3>1 DEF StockStep, StockLocked, LocksTyped
    <3>3. Ready(p, aim, H, P)
      BY <2>4, <3>1 DEF Prepared
    <3>4. H \subseteq live' /\ \A x \in H : Atomic!Available(x)' = Atomic!Available(x)
      BY <2>2, <3>2, <3>3 DEF Ready, Atomic!Available
    <3>5. Ready(p, aim, H, P)'
      BY <2>1, <2>3, <3>1, <3>3, <3>4, StaysReady
    <3> QED BY <2>1, <3>1, <3>5
  <2> QED BY <2>1, <2>4 DEF Prepared, HasOrder
<1>8. CASE UNCHANGED vars
  <2>1. \A o, goal, H, P : Ready(o, goal, H, P)' = Ready(o, goal, H, P)
    BY <1>8 DEF vars, tables, Ready, Due, Atomic!Lines, Atomic!OpenReserves, Atomic!Has,
                Atomic!Available, Atomic!OrderStatusTransitions
  <2> QED BY <1>8, <2>1 DEF vars, Prepared, HasOrder
<1> QED BY <1>2, <1>3, <1>4, <1>5, <1>6, <1>7, <1>8 DEF Next, WorkerNext, Abort, AbortVictim

LEMMA ChangedBy ==
  ASSUME NEW f \in [Variants -> Nat], NEW o \in Orders, NEW H
  PROVE  /\ Changed(f, 0, o, H) = f
         /\ Changed(f, 1, o, H) = [v \in Variants |-> f[v] + Atomic!UnitsIn(o, H, v)]
         /\ Changed(f, -1, o, H) = [v \in Variants |-> f[v] - Atomic!UnitsIn(o, H, v)]
<1>1. \A v \in Variants : Ordered[o][v] \in Nat /\ f[v] \in Nat
  BY QuantityAssumption
<1>2. Changed(f, 0, o, H) = f
  <2>1. \A v \in Variants : f[v] + (IF v \in H THEN 0 * Ordered[o][v] ELSE 0) = f[v]
    BY <1>1
  <2> QED BY <2>1 DEF Changed
<1>3. Changed(f, 1, o, H) = [v \in Variants |-> f[v] + Atomic!UnitsIn(o, H, v)]
  <2>1. \A v \in Variants : f[v] + (IF v \in H THEN 1 * Ordered[o][v] ELSE 0)
                              = f[v] + Atomic!UnitsIn(o, H, v)
    BY <1>1 DEF Atomic!UnitsIn
  <2> QED BY <2>1 DEF Changed
<1>4. Changed(f, -1, o, H) = [v \in Variants |-> f[v] - Atomic!UnitsIn(o, H, v)]
  <2>1. \A v \in Variants : f[v] + (IF v \in H THEN (-1) * Ordered[o][v] ELSE 0)
                              = f[v] - Atomic!UnitsIn(o, H, v)
    BY <1>1 DEF Atomic!UnitsIn
  <2> QED BY <2>1 DEF Changed
<1> QED BY <1>2, <1>3, <1>4

\* A transaction that has locked and checked all its rows writes what the
\* atomic step writes, and it fits the constraints of the table.
LEMMA WriteIsStep ==
  ASSUME BooksInv, NEW o \in Orders, NEW goal \in Goals, NEW H \in SUBSET Variants,
         Ready(o, goal, H, {}), Write(o, goal, H)
  PROVE  Atomic!OrderNext(o) \/ UNCHANGED tables
<1>1. H = Due(o, goal)
  BY DEF Ready
<1>2. PICK s \in Atomic!Statuses : s = status[o]
  BY BooksSay
<1>3. /\ quantity \in [Variants -> Nat] /\ reserved \in [Variants -> Nat]
      /\ \A v \in Variants : reserved[v] <= quantity[v] /\ quantity[v] <= MaxStock
      /\ \A v \in Variants : Ordered[o][v] \in Nat
  BY BooksSay, QuantityAssumption
<1>4. UNCHANGED <<live, supplied>>
  BY DEF Write
<1>5. PICK op : op = Operation(o, goal)
  OBVIOUS
<1>6. CASE goal = "reconcile"
  <2>1. H = {} /\ status' = status
    BY <1>1, <1>6 DEF Due, Write
  <2>2. movements' = movements
    BY <2>1 DEF Write
  <2>3. \A n : Changed(reserved, n, o, {}) = [v \in Variants |-> reserved[v] + 0]
    BY DEF Changed
  <2>4. \A n : Changed(quantity, n, o, {}) = [v \in Variants |-> quantity[v] + 0]
    BY DEF Changed
  <2>5. reserved' = [v \in Variants |-> reserved[v] + 0] /\ quantity' = [v \in Variants |-> quantity[v] + 0]
    BY <2>1, <2>3, <2>4 DEF Write
  <2>6. reserved' = reserved /\ quantity' = quantity
    BY <1>3, <2>5
  <2> QED BY <1>4, <2>1, <2>2, <2>6 DEF tables
<1>7. CASE goal # "reconcile"
  <2>1. /\ goal \in Atomic!OrderStatusTransitions[s]
        /\ status' = [status EXCEPT ![o] = goal]
        /\ ~Both(o, goal)
    BY <1>2, <1>7 DEF Ready, Write, Both
  <2>2. CASE goal = "CONFIRMED"
    <3>1. s = "PENDING" /\ op = "reserve"
      BY <1>2, <1>5, <2>1, <2>2 DEF Atomic!OrderStatusTransitions, Atomic!Statuses, Operation
    <3>2. H = Atomic!ToReserve(o)
      BY <1>1, <1>2, <2>2, <3>1, BooksSay DEF Due, Atomic!ToReserve
    <3>3. Atomic!Sufficient(o, H)
      BY <2>2 DEF Ready, Atomic!Sufficient
    <3>4. KindsToAdd(o, goal) = {"RESERVE"}
      BY <1>5, <2>1, <3>1 DEF KindsToAdd
    <3>5. movements' = movements \cup Atomic!Entries("RESERVE", o, H)
      BY <3>4 DEF Write, Atomic!Entries
    <3>6. reserved' = Changed(reserved, 1, o, H) /\ quantity' = Changed(quantity, 0, o, H)
      BY <1>5, <2>1, <3>1 DEF Write
    <3>7. /\ reserved' = [v \in Variants |-> reserved[v] + Atomic!UnitsIn(o, H, v)]
          /\ quantity' = quantity
      BY <1>3, <3>6, ChangedBy
    <3>8. Atomic!StockChecks'
      <4> SUFFICES ASSUME NEW v \in Variants
                   PROVE  /\ 0 <= reserved'[v] /\ reserved'[v] <= quantity'[v]
                          /\ quantity'[v] <= MaxStock
        BY DEF Atomic!StockChecks
      <4>1. v \in H => quantity[v] >= reserved[v] + Ordered[o][v]
        BY <1>3, <3>3 DEF Atomic!Sufficient, Atomic!Available
      <4> QED BY <1>3, <3>7, <4>1 DEF Atomic!UnitsIn
    <3>9. Atomic!ReserveStock(o)
      BY <1>4, <3>2, <3>3, <3>5, <3>7, <3>8 DEF Atomic!ReserveStock
    <3>10. Atomic!TransitionStatus(o, "CONFIRMED")
      BY <1>2, <1>4, <2>1, <2>2, <3>9 DEF Atomic!TransitionStatus
    <3> QED BY <3>10 DEF Atomic!OrderNext, Atomic!Statuses
  <2>3. CASE goal \in {"CANCELLED", "DELIVERED"}
    <3>1. H = Atomic!OpenReserves(o)
      BY <1>1, <2>3 DEF Due
    <3>2. \A v \in H : Ordered[o][v] <= reserved[v]
      BY <3>1, BooksSay
    <3>3. op = IF goal = "CANCELLED" THEN "release" ELSE "commit"
      BY <1>5, <1>7, <2>3 DEF Operation
    <3>4. reserved' = [v \in Variants |-> reserved[v] - Atomic!UnitsIn(o, H, v)]
      <4>1. reserved' = Changed(reserved, -1, o, H)
        BY <1>5, <2>1, <3>3 DEF Write
      <4> QED BY <1>3, <4>1, ChangedBy
    <3>5. CASE goal = "CANCELLED"
      <4>1. KindsToAdd(o, goal) = {"RELEASE"}
        BY <1>5, <2>1, <3>3, <3>5 DEF KindsToAdd
      <4>2. movements' = movements \cup Atomic!Entries("RELEASE", o, H)
        BY <4>1 DEF Write, Atomic!Entries
      <4>3. quantity' = quantity
        <5>1. quantity' = Changed(quantity, 0, o, H)
          BY <1>5, <2>1, <3>3, <3>5 DEF Write
        <5> QED BY <1>3, <5>1, ChangedBy
      <4>4. Atomic!StockChecks'
        BY <1>3, <3>2, <3>4, <4>3 DEF Atomic!StockChecks, Atomic!UnitsIn
      <4>5. Atomic!ReleaseStock(o)
        BY <1>4, <3>1, <3>4, <4>2, <4>3, <4>4 DEF Atomic!ReleaseStock
      <4>6. Atomic!Cancel(o)
        BY <1>2, <1>4, <2>1, <3>5, <4>5 DEF Atomic!Cancel
      <4> QED BY <4>6 DEF Atomic!OrderNext
    <3>6. CASE goal = "DELIVERED"
      <4>1. KindsToAdd(o, goal) = {"OUT"}
        BY <1>5, <2>1, <3>3, <3>6 DEF KindsToAdd
      <4>2. movements' = movements \cup Atomic!Entries("OUT", o, H)
        BY <4>1 DEF Write, Atomic!Entries
      <4>3. quantity' = [v \in Variants |-> quantity[v] - Atomic!UnitsIn(o, H, v)]
        <5>1. quantity' = Changed(quantity, -1, o, H)
          BY <1>5, <2>1, <3>3, <3>6 DEF Write
        <5> QED BY <1>3, <5>1, ChangedBy
      <4>4. Atomic!StockChecks'
        BY <1>3, <3>2, <3>4, <4>3, StockAssumption DEF Atomic!StockChecks, Atomic!UnitsIn
      <4>5. Atomic!CommitStock(o)
        BY <1>4, <3>1, <3>4, <4>2, <4>3, <4>4 DEF Atomic!CommitStock
      <4>6. Atomic!TransitionStatus(o, "DELIVERED")
        BY <1>2, <1>4, <2>1, <3>6, <4>5 DEF Atomic!TransitionStatus
      <4> QED BY <4>6 DEF Atomic!OrderNext, Atomic!Statuses
    <3> QED BY <2>3, <3>5, <3>6
  <2>4. CASE goal \in {"PROCESSING", "SHIPPED"}
    <3>1. H = {} /\ op = "none"
      BY <1>1, <1>5, <2>4 DEF Due, Operation
    <3>2. movements' = movements
      BY <3>1 DEF Write
    <3>3. reserved' = Changed(reserved, 0, o, H) /\ quantity' = Changed(quantity, 0, o, H)
      BY <1>5, <2>1, <3>1 DEF Write
    <3>4. reserved' = reserved /\ quantity' = quantity
      BY <1>3, <3>3, ChangedBy
    <3>5. Atomic!TransitionStatus(o, goal)
      BY <1>2, <1>4, <2>1, <2>4, <3>2, <3>4 DEF Atomic!TransitionStatus, Atomic!stockVars
    <3> QED BY <2>4, <3>5 DEF Atomic!OrderNext, Atomic!Statuses
  <2>5. goal \in {"CONFIRMED", "CANCELLED", "DELIVERED", "PROCESSING", "SHIPPED"}
    BY <1>2, <2>1 DEF Atomic!OrderStatusTransitions, Atomic!Statuses
  <2> QED BY <2>2, <2>3, <2>4, <2>5
<1> QED BY <1>6, <1>7

\* Only COMMIT and the steps of one Stock row change a table.
LEMMA TablesStep == LInv /\ [Next]_vars => [Atomic!Next]_tables
<1> SUFFICES ASSUME LInv, [Next]_vars, ~UNCHANGED tables
             PROVE  Atomic!Next
  OBVIOUS
<1>1. ASSUME NEW w \in Workers, Commit(w)
      PROVE  Atomic!Next
  <2>1. PICK o \in Orders, goal \in Goals, H \in SUBSET Variants :
          o = task[w].order /\ goal = task[w].goal /\ H = held[w] /\ HasOrder(w) /\ plan[w] = << >>
    BY <1>1, TaskKnown DEF Commit, LInv, LocksTyped
  <2>2. ToSet(plan[w]) = {}
    BY <2>1 DEF ToSet
  <2>3. Ready(o, goal, H, {}) /\ Write(o, goal, H)
    BY <1>1, <2>1, <2>2 DEF LInv, Prepared, Commit
  <2>4. Atomic!OrderNext(o)
    BY <2>1, <2>3, WriteIsStep DEF LInv
  <2> QED BY <2>4 DEF Atomic!Next
<1>2. ASSUME NEW v \in Variants, StockStep(v)
      PROVE  Atomic!Next
  BY <1>2 DEF StockStep, Atomic!Next
<1>3. \/ \E w \in Workers : Commit(w)
      \/ \E v \in Variants : StockStep(v)
      \/ UNCHANGED tables
  BY DEF Next, WorkerNext, Begin, LockOrder, LockStock, Abort, AbortVictim, vars
<1> QED BY <1>1, <1>2, <1>3

LEMMA LInvInit == Init => LInv
<1>1. Init => Prepared
  BY DEF Init, Prepared, HasOrder, Idle
<1> QED BY <1>1, LocksInit, BooksInit DEF LInv, Init

LEMMA LInvKept == LInv /\ [Next]_vars => LInv'
BY TablesStep, BooksKept, LocksKept, PreparedKept DEF LInv

\* The transactions implement the atomic steps: what they have read and
\* checked under their locks is still so when they commit, whatever the other
\* workers, the warehouse and the catalog do in between (reserve_stock,
\* release_stock, commit_stock, transition_status, cancel, reconcile_order).
THEOREM LocksImplementSteps == Spec => ImplementsOrderStock
<1>1. Init => Atomic!Init
  BY DEF Init
<1>2. Spec => []LInv
  BY LInvInit, LInvKept, PTL DEF Spec
<1>3. tables = Atomic!vars
  BY DEF tables, Atomic!vars
<1>4. LInv /\ [Next]_vars => [Atomic!Next]_(Atomic!vars)
  BY TablesStep, <1>3 DEF tables, Atomic!vars
<1> QED BY <1>1, <1>2, <1>4, PTL DEF Spec, ImplementsOrderStock, Atomic!Spec

=============================================================================
