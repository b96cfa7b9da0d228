----------------------------- MODULE Notifications -----------------------------
(***************************************************************************)
(* What a customer is told about one order.                                *)
(*                                                                         *)
(* A transaction that changes the order (or takes its payment) registers   *)
(* callbacks; after COMMIT the same process runs them one by one, each in  *)
(* autocommit: it inserts a notification and marks it sent in a second     *)
(* statement, or publishes a Celery task.  A task that composes an email   *)
(* inserts its row and publishes another, which delivers it.  The process  *)
(* or a worker may die between any two of these; a callback that raises is *)
(* logged and the next one runs (robust=True).                             *)
(*                                                                         *)
(* Abstractions.  Celery acknowledges a task when it is taken, so that a   *)
(* task runs at most once; titles and texts are left out.                  *)
(***************************************************************************)
EXTENDS Integers, Sequences

CONSTANTS
  Requests, \* requests that may be in flight at the same time
  Workers,  \* Celery workers
  MaxNotes  \* bound: notifications

VARIABLES
  order,    \* Order.status, "none" before the checkout
  paid,     \* the payment is SUCCEEDED
  locks,    \* the requests that hold the rows of the order and the payment
  request,  \* what the requests are at
  notes,    \* Notification rows, in the order of their keys
  queue,    \* the tasks published
  worker,   \* what the workers are at
  happened  \* history: what has been committed

noteVars == <<order, paid, locks, request, notes, queue, worker, happened>>

OrderStatusTransitions ==
  [none |-> {"pending"}, pending |-> {"confirmed", "cancelled"},
   confirmed |-> {"processing", "cancelled"}, processing |-> {"shipped", "cancelled"},
   shipped |-> {"delivered"}, delivered |-> {}, cancelled |-> {}]

Free == "free"
Idle == [step |-> "idle"]

-----------------------------------------------------------------------------
\* The callbacks a change of status registers: ORDER_STATUS_NOTIFICATION_TYPES
\* and _email_task_for_status.
InApp(about) == [kind |-> "in_app", about |-> about]
Email(about) == [kind |-> "email", about |-> about]

StatusHooks(status) ==
  IF status \in {"confirmed", "shipped"} THEN <<InApp(status), Email(status)>>
  ELSE IF status \in {"pending", "delivered", "cancelled"} THEN <<InApp(status)>>
  ELSE << >>

\* A transaction is open: what it will commit and run.
Open(r, rows, events, hooks) ==
  /\ request[r] = Idle
  /\ \A row \in rows : locks[row] = Free
  /\ locks' = [row \in DOMAIN locks |-> IF row \in rows THEN r ELSE locks[row]]
  /\ request' = [request EXCEPT ![r] =
                   [step |-> "open", events |-> events, hooks |-> hooks, sending |-> 0]]
  /\ UNCHANGED <<order, paid, notes, queue, worker, happened>>

\* create_from_cart, transition_status, cancel
ChangeStatus(r, status) ==
  /\ status \in OrderStatusTransitions[order]
  /\ Open(r, {"order"}, {status}, StatusHooks(status))

\* confirm_payment: of a PENDING order, which it confirms ...
PayAndConfirm(r) ==
  /\ ~paid /\ order = "pending"
  /\ Open(r, {"order", "payment"}, {"paid", "confirmed"},
          <<InApp("paid")>> \o StatusHooks("confirmed"))

\* Mutant: the callbacks of the savepoint that was rolled back stay.
PayKeepingHooks(r) ==
  /\ ~paid /\ order \in {"confirmed", "processing", "shipped"}
  /\ Open(r, {"payment"}, {"paid"}, <<InApp("paid")>> \o StatusHooks("confirmed"))

\* ... or of one that staff have confirmed: confirm() fails in a savepoint.
PayOnly(r) ==
  /\ ~paid /\ order \in {"confirmed", "processing", "shipped"}
  /\ Open(r, {"payment"}, {"paid"}, <<InApp("paid")>>)

Unlocked(r) == [row \in DOMAIN locks |-> IF locks[row] = r THEN Free ELSE locks[row]]

Rollback(r) ==
  /\ request[r].step = "open"
  /\ request' = [request EXCEPT ![r] = Idle]
  /\ locks' = Unlocked(r)
  /\ UNCHANGED <<order, paid, notes, queue, worker, happened>>

Commit(r) ==
  /\ request[r].step = "open"
  /\ order' = IF request[r].events \subseteq {"paid"} THEN order
              ELSE CHOOSE status \in request[r].events \ {"paid"} : TRUE
  /\ paid' = (paid \/ "paid" \in request[r].events)
  /\ happened' = happened \cup request[r].events
  /\ request' = [request EXCEPT ![r].step = "hooks"]
  /\ locks' = Unlocked(r)
  /\ UNCHANGED <<notes, queue, worker>>

-----------------------------------------------------------------------------
\* The callbacks after COMMIT.
Committed(r) == request[r].step = "hooks"

HookIs(r, kind) ==
  /\ Committed(r) /\ request[r].hooks # << >>
  /\ Head(request[r].hooks).kind = kind

NextHook(r) ==
  request' = [request EXCEPT ![r].hooks = Tail(@), ![r].sending = 0]

NewNote(channel, about) ==
  /\ Len(notes) < MaxNotes
  /\ notes' = Append(notes, [channel |-> channel, about |-> about,
                             status |-> "pending", read |-> FALSE])

\* NotificationService.create
CreateNote(r) ==
  /\ HookIs(r, "in_app") /\ request[r].sending = 0
  /\ NewNote("in_app", Head(request[r].hooks).about)
  /\ request' = [request EXCEPT ![r].sending = Len(notes')]
  /\ UNCHANGED <<order, paid, locks, queue, worker, happened>>

\* _send: an UPDATE of the status by a copy of the row.
SendNote(r) ==
  /\ HookIs(r, "in_app") /\ request[r].sending # 0
  /\ notes' = [notes EXCEPT ![request[r].sending].status = "sent"]
  /\ NextHook(r)
  /\ UNCHANGED <<order, paid, locks, queue, worker, happened>>

\* email_task.delay
PublishEmail(r) ==
  /\ HookIs(r, "email")
  /\ queue' = Append(queue, [job |-> "compose", about |-> Head(request[r].hooks).about])
  /\ NextHook(r)
  /\ UNCHANGED <<order, paid, locks, notes, worker, happened>>

\* The database or the broker does not answer.
SkipHook(r) ==
  /\ Committed(r) /\ request[r].hooks # << >>
  /\ NextHook(r)
  /\ UNCHANGED <<order, paid, locks, notes, queue, worker, happened>>

\* The request is over, or its process has died.
Leave(r) ==
  /\ request[r].step = "hooks"
  /\ request' = [request EXCEPT ![r] = Idle]
  /\ UNCHANGED <<order, paid, locks, notes, queue, worker, happened>>

-----------------------------------------------------------------------------
\* A worker takes a task; one that delivers reads its row.
TakeTask(w) ==
  /\ worker[w] = Idle /\ queue # << >>
  /\ queue' = Tail(queue)
  /\ worker' = [worker EXCEPT ![w] =
       IF Head(queue).job = "compose" THEN [step |-> "compose", about |-> Head(queue).about]
       ELSE [step |-> "deliver", note |-> Head(queue).note, copy |-> notes[Head(queue).note]]]
  /\ UNCHANGED <<order, paid, locks, request, notes, happened>>

\* send_order_confirmation, send_order_shipped
ComposeEmail(w) ==
  /\ worker[w].step = "compose"
  /\ NewNote("email", worker[w].about)
  /\ worker' = [worker EXCEPT ![w] = [step |-> "publish", note |-> Len(notes')]]
  /\ UNCHANGED <<order, paid, locks, request, queue, happened>>

PublishDelivery(w) ==
  /\ worker[w].step = "publish"
  /\ queue' = Append(queue, [job |-> "deliver", note |-> worker[w].note])
  /\ worker' = [worker EXCEPT ![w] = Idle]
  /\ UNCHANGED <<order, paid, locks, request, notes, happened>>

\* Mutant: the whole row is saved from the copy.
DeliverWhole(w) ==
  /\ worker[w].step = "deliver"
  /\ notes' = [notes EXCEPT ![worker[w].note] = [worker[w].copy EXCEPT !.status = "sent"]]
  /\ worker' = [worker EXCEPT ![w] = Idle]
  /\ UNCHANGED <<order, paid, locks, request, queue, happened>>

\* send_email_notification: save(update_fields=['status', 'sent_at'])
DeliverEmail(w) ==
  /\ worker[w].step = "deliver"
  /\ notes' = [notes EXCEPT ![worker[w].note].status = "sent"]
  /\ worker' = [worker EXCEPT ![w] = Idle]
  /\ UNCHANGED <<order, paid, locks, request, queue, happened>>

\* The worker dies; the task was acknowledged.
LoseTask(w) ==
  /\ worker[w] # Idle
  /\ worker' = [worker EXCEPT ![w] = Idle]
  /\ UNCHANGED <<order, paid, locks, request, notes, queue, happened>>

-----------------------------------------------------------------------------
\* The customer.
Read(note) == IF note.read THEN note ELSE [note EXCEPT !.read = TRUE, !.status = "read"]

MarkRead(i) ==
  /\ notes' = [notes EXCEPT ![i] = Read(@)]
  /\ UNCHANGED <<order, paid, locks, request, queue, worker, happened>>

MarkAllRead ==
  /\ notes' = [i \in DOMAIN notes |-> Read(notes[i])]
  /\ UNCHANGED <<order, paid, locks, request, queue, worker, happened>>

Init ==
  /\ order = "none" /\ paid = FALSE /\ locks = [order |-> Free, payment |-> Free]
  /\ request = [r \in Requests |-> Idle]
  /\ notes = << >> /\ queue = << >> /\ worker = [w \in Workers |-> Idle]
  /\ happened = {}

Next ==
  \/ \E r \in Requests :
       \/ \E status \in DOMAIN OrderStatusTransitions : ChangeStatus(r, status)
       \/ PayAndConfirm(r) \/ PayOnly(r) \/ Rollback(r) \/ Commit(r)
       \/ CreateNote(r) \/ SendNote(r) \/ PublishEmail(r) \/ SkipHook(r) \/ Leave(r)
  \/ \E w \in Workers :
       TakeTask(w) \/ ComposeEmail(w) \/ PublishDelivery(w) \/ DeliverEmail(w) \/ LoseTask(w)
  \/ \E i \in DOMAIN notes : MarkRead(i)
  \/ MarkAllRead

Spec == Init /\ [][Next]_noteVars

-----------------------------------------------------------------------------
\* A customer is told only what was committed, and once on each channel:
\* neither a transaction that is rolled back, nor the savepoint of an order
\* that staff have confirmed before, nor a second webhook adds a notification
\* (NotificationEvents, PaymentService.confirm_payment).
ToldOnce ==
  /\ \A i \in DOMAIN notes : notes[i].about \in happened
  /\ \A i, j \in DOMAIN notes :
       notes[i].about = notes[j].about /\ notes[i].channel = notes[j].channel => i = j

\* What was read stays read, although a request and a worker save copies of
\* rows that they have loaded before (mark_read, send_email_notification).
ReadStaysRead ==
  [][\A i \in DOMAIN notes : notes[i].read => notes'[i].read]_noteVars
=============================================================================
