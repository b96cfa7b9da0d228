-------------------------- MODULE OrderStockLocks --------------------------
(***************************************************************************)
(* The transactions of module OrderStock, lock by lock, under READ         *)
(* COMMITTED: SELECT ... FOR UPDATE of the Order row, a read of its items  *)
(* and movements, then SELECT ... FOR UPDATE, check and UPDATE of one      *)
(* Stock row after the other, and COMMIT.  What a transaction has written  *)
(* is seen by the others when it commits.                                  *)
(*                                                                         *)
(* A worker is a process that serves one request or command at a time.     *)
(* PostgreSQL aborts a transaction of a cycle of waiting ones.  The        *)
(* warehouse's and the catalog's own transactions lock a single Stock row  *)
(* and are one step each.                                                  *)
(***************************************************************************)
EXTENDS Integers, FiniteSets, Sequences, SequencesExt

CONSTANTS
  Orders, Variants, Ordered, MaxItemQuantity, MaxStock, RestockAmounts,
  InitialStock,
  Workers,
  ItemOrder   \* the items of an order, as `order.items' returns them

ASSUME OrdersAssumption == IsFiniteSet(Orders)
ASSUME QuantityAssumption ==
  /\ MaxItemQuantity \in Nat
  /\ Ordered \in [Orders -> [Variants -> 0..MaxItemQuantity]]
ASSUME StockAssumption ==
  /\ MaxStock \in Nat
  /\ RestockAmounts \subseteq Nat \ {0}
  /\ InitialStock \in [Variants -> 0..MaxStock]
ASSUME ItemOrderAssumption ==
  \A o \in Orders :
    /\ ItemOrder[o] \in Seq(Variants)
    /\ IsInjective(ItemOrder[o])
    /\ ToSet(ItemOrder[o]) = {v \in Variants : Ordered[o][v] > 0}

VARIABLES
  status, live, quantity, reserved, movements, supplied,  \* what is committed
  task,    \* the request that a worker serves
  held,    \* the workers' Stock rows: locked, checked and updated
  plan     \* the Stock rows that it has still to lock

tables == <<status, live, quantity, reserved, movements, supplied>>
vars == <<tables, task, held, plan>>

Atomic == INSTANCE OrderStock

Idle == [step |-> "idle"]

\* A request: to move order o to a status, or to reconcile it.
Goals == Atomic!Statuses \cup {"reconcile"}

Tasks ==
  {Idle} \cup [step : {"begun", "locked"}, order : Orders, goal : Goals]

Waiting(w) == task[w].step = "begun"
HasOrder(w) == task[w].step = "locked"

OrderLocked(o) == \E w \in Workers : HasOrder(w) /\ task[w].order = o
StockLocked(v) == \E w \in Workers : v \in held[w]

-----------------------------------------------------------------------------
\* The part of a transaction that reads after it has locked the order.

Allowed(o, goal) ==
  goal = "reconcile" \/ goal \in Atomic!OrderStatusTransitions[status[o]]

\* What is to be done to the stock of o: the status asked for decides, or,
\* when it is reconciled, the status that it has.
Operation(o, goal) ==
  LET s == IF goal = "reconcile" THEN status[o] ELSE goal IN
  CASE s = "CONFIRMED" \/ (goal = "reconcile" /\ s \in Atomic!Holding) -> "reserve"
    [] s = "CANCELLED" -> "release"
    [] s = "DELIVERED" -> IF goal = "reconcile" /\ ~Atomic!HasReserve(o)
                            THEN "reserve" ELSE "commit"
    [] OTHER -> "none"

\* The rows that are in S, in their order.
Selected(rows, S) ==
  LET f[i \in 0..Len(rows)] ==
        IF i = 0 THEN << >>
        ELSE IF rows[i] \in S THEN Append(f[i - 1], rows[i]) ELSE f[i - 1]
  IN f[Len(rows)]

\* Stock rows in the order of the items, or of the movements, which are
\* listed newest first.
RowsToLock(o, goal) ==
  LET op == Operation(o, goal) IN
  CASE op = "reserve" -> Selected(ItemOrder[o], Atomic!ToReserve(o))
    [] op \in {"release", "commit"} ->
         Selected(Reverse(ItemOrder[o]), Atomic!OpenReserves(o))
    [] OTHER -> << >>

-----------------------------------------------------------------------------
\* Mutant: a Stock row is locked before the Order row.
BeginWithStock(w, o, goal) ==
  /\ task[w] = Idle
  /\ task' = [task EXCEPT ![w] = [step |-> "begun", order |-> o, goal |-> goal]]
  /\ held' = [held EXCEPT ![w] = {v \in {Head(ItemOrder[o])} : ~StockLocked(v)}]
  /\ UNCHANGED <<tables, plan>>

Begin(w, o, goal) ==
  /\ task[w] = Idle
  /\ task' = [task EXCEPT ![w] = [step |-> "begun", order |-> o, goal |-> goal]]
  /\ UNCHANGED <<tables, held, plan>>

\* The end of a transaction: its locks are free.
Ended(w) ==
  /\ task' = [task EXCEPT ![w] = Idle]
  /\ held' = [held EXCEPT ![w] = {}]
  /\ plan' = [plan EXCEPT ![w] = << >>]

LockOrder(w) ==
  /\ Waiting(w) /\ ~OrderLocked(task[w].order)
  /\ LET o == task[w].order goal == task[w].goal IN
       IF Allowed(o, goal)
         THEN /\ task' = [task EXCEPT ![w].step = "locked"]
              /\ plan' = [plan EXCEPT ![w] = RowsToLock(o, goal)]
              /\ UNCHANGED held
         ELSE Ended(w)
  /\ UNCHANGED tables

\* Mutant: the stock is not checked again under the lock.
TakenForEnough(o, goal, v) == v \in live

\* The check of reserve_stock, once the row is locked.
Enough(o, goal, v) ==
  Operation(o, goal) = "reserve" => Atomic!Available(v) >= Ordered[o][v]

\* The next Stock row: the transaction fails if the row is gone or the stock
\* is short.
LockStock(w) ==
  /\ HasOrder(w) /\ plan[w] # << >>
  /\ LET v == Head(plan[w]) IN
       /\ ~StockLocked(v)
       /\ IF v \in live /\ Enough(task[w].order, task[w].goal, v)
            THEN /\ held' = [held EXCEPT ![w] = @ \cup {v}]
                 /\ plan' = [plan EXCEPT ![w] = Tail(@)]
                 /\ UNCHANGED task
            ELSE Ended(w)
  /\ UNCHANGED tables

\* A delivered order that was never reserved is reserved and written off.
Both(o, goal) == goal = "reconcile" /\ status[o] = "DELIVERED" /\ Operation(o, goal) = "reserve"

KindsToAdd(o, goal) ==
  LET op == Operation(o, goal) IN
  CASE Both(o, goal)    -> {"RESERVE", "OUT"}
    [] op = "reserve" /\ ~Both(o, goal) -> {"RESERVE"}
    [] op = "release"   -> {"RELEASE"}
    [] op = "commit"    -> {"OUT"}
    [] OTHER            -> {}

\* The items of o in H, added n times to a counter f.
Changed(f, n, o, H) ==
  [v \in Variants |-> f[v] + (IF v \in H THEN n * Ordered[o][v] ELSE 0)]

\* What a transaction has written of o and its Stock rows H.
Write(o, goal, H) ==
  LET op == Operation(o, goal) IN
  /\ status' = IF goal = "reconcile" THEN status ELSE [status EXCEPT ![o] = goal]
  /\ reserved' = Changed(reserved, IF op = "reserve" /\ ~Both(o, goal) THEN 1
                                   ELSE IF op \in {"release", "commit"} THEN -1 ELSE 0, o, H)
  /\ quantity' = Changed(quantity, IF Both(o, goal) \/ op = "commit" THEN -1 ELSE 0, o, H)
  /\ movements' = movements \cup {Atomic!Movement(k, o, v) : k \in KindsToAdd(o, goal), v \in H}
  /\ UNCHANGED <<live, supplied>>

\* COMMIT: the rows updated, their movements and the status appear.
Commit(w) ==
  /\ HasOrder(w) /\ plan[w] = << >>
  /\ Write(task[w].order, task[w].goal, held[w])
  /\ Ended(w)

\* The process dies or the database fails before COMMIT.
Abort(w) ==
  /\ task[w] # Idle
  /\ Ended(w)
  /\ UNCHANGED tables

\* A step of a transaction that locks one Stock row.
StockStep(v) ==
  /\ ~StockLocked(v)
  /\ Atomic!StockNext(v)
  /\ UNCHANGED <<task, held, plan>>

-----------------------------------------------------------------------------
\* Waiting.

\* w waits for a row that u has locked.
WaitsFor(w, u) ==
  \/ Waiting(w) /\ HasOrder(u) /\ task[u].order = task[w].order
  \/ HasOrder(w) /\ plan[w] # << >> /\ Head(plan[w]) \in held[u]

\* W is a set of workers that wait for each other.
Deadlocked(W) ==
  W # {} /\ \A w \in W : \E u \in W : u # w /\ WaitsFor(w, u)

\* PostgreSQL finds a deadlock and aborts one of its transactions.
AbortVictim ==
  \E W \in SUBSET Workers : Deadlocked(W) /\ \E w \in W : HasOrder(w) /\ Abort(w)

Init ==
  /\ Atomic!Init
  /\ task = [w \in Workers |-> Idle]
  /\ held = [w \in Workers |-> {}]
  /\ plan = [w \in Workers |-> << >>]

WorkerNext(w) ==
  \/ \E o \in Orders, goal \in Goals : Begin(w, o, goal)
  \/ LockOrder(w)
  \/ LockStock(w)
  \/ Commit(w)
  \/ Abort(w)

Next ==
  \/ \E w \in Workers : WorkerNext(w)
  \/ \E v \in Variants : StockStep(v)
  \/ AbortVictim

Spec == Init /\ [][Next]_vars

-----------------------------------------------------------------------------
\* Workers are where they can be, and no row is locked twice.
TypeOK ==
  /\ task \in [Workers -> Tasks]
  /\ \A w \in Workers :
       /\ held[w] \subseteq Variants
       /\ plan[w] \in Seq(Variants)
       /\ held[w] # {} \/ plan[w] # << >> => HasOrder(w)
  /\ \A w, u \in Workers : w # u => held[w] \cap held[u] = {}

\* The transactions implement the atomic steps of OrderStock: what was read
\* and checked under the locks is still so at COMMIT, whatever the other
\* transactions do (inventory_service.py, reserve_stock, release_stock and
\* commit_stock; order_service.py, transition_status and cancel).
ImplementsOrderStock == Atomic!Spec

\* A transaction that waits for an Order row blocks nobody, so the paths of
\* one order cannot deadlock: a cycle is always one of transactions that have
\* locked different orders and wait for Stock rows (_locked_order).
OrdersNeverInCycle ==
  \A W \in SUBSET Workers :
    Deadlocked(W) =>
      \E C \in SUBSET W :
        /\ Deadlocked(C)
        /\ \A w \in C : HasOrder(w) /\ held[w] # {}
        /\ \A w, u \in C : w # u => task[w].order # task[u].order
=============================================================================
