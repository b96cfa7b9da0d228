--------------------------- MODULE WebhookDeliveries ---------------------------
(***************************************************************************)
(* Deliveries of the payment provider's events about one payment, and the  *)
(* nonces that keep a signed message from being handled again.             *)
(*                                                                         *)
(* A message is checked for its age, then its nonce is inserted in a       *)
(* transaction of its own, then the event is handled in another one.  A    *)
(* command deletes old nonces in the meantime.  The network repeats,       *)
(* delays and reorders messages; the provider sends an event again, under  *)
(* a new nonce, when it likes.                                             *)
(*                                                                         *)
(* Abstractions.  Signatures: only messages the provider has sent are let  *)
(* in.  PENDING and PROCESSING payments are "open", FAILED and CANCELLED   *)
(* ones "closed"; PaymentCoordination has the payment in full.  A request  *)
(* is over within Patience, the timeout of gunicorn.                       *)
(***************************************************************************)
EXTENDS Integers

CONSTANTS
  Nonces,    \* X-Webhook-Nonce: one per message of the provider
  Workers,   \* requests that may be in flight at the same time
  Tolerance, \* WEBHOOK_TIMESTAMP_TOLERANCE_SECONDS
  Retention, \* WEBHOOK_NONCE_RETENTION_SECONDS
  Patience,  \* gunicorn --timeout
  MaxClock   \* bound: the clock

VARIABLES
  clock,        \* timezone.now(), on the server
  sent,         \* signed messages: nonce, timestamp, event
  nonces,       \* PaymentWebhookNonce rows
  worker,       \* what the requests are at
  payment,      \* the status of the payment
  finished,     \* the order is delivered or cancelled
  cleaning,     \* the cutoff of a cleanup that has not deleted yet
  handled,      \* history: how often each message was let through
  answered      \* history: events answered with 200

webhookVars == <<clock, sent, nonces, worker, payment, finished, cleaning, handled, answered>>

Events == {"succeeded", "failed"}
Idle == [step |-> "idle"]
NotCleaning == -1

At(w, step) == worker[w].step = step
Go(w, next) == worker' = [worker EXCEPT ![w] = next]

-----------------------------------------------------------------------------
\* The provider: a new message, under a clock that may be ahead.
Send(n, event) ==
  /\ \A message \in sent : message.nonce # n
  /\ \E ts \in {clock, clock + Tolerance} :
       sent' = sent \cup {[nonce |-> n, ts |-> ts, event |-> event]}
  /\ UNCHANGED <<clock, nonces, worker, payment, finished, cleaning, handled, answered>>

Distance(a, b) == IF a > b THEN a - b ELSE b - a

\* is_fresh_webhook_timestamp
Fresh(message) == Distance(clock, message.ts) <= Tolerance

\* _verify_webhook_security, up to the nonce.
Receive(w, message) ==
  /\ worker[w] = Idle
  /\ Fresh(message)
  /\ Go(w, [step |-> "verified", message |-> message, since |-> clock])
  /\ UNCHANGED <<clock, sent, nonces, payment, finished, cleaning, handled, answered>>

NonceRow(message) == [nonce |-> message.nonce, ts |-> message.ts]

\* claim_webhook_nonce: the INSERT and its COMMIT.  A nonce that is there is
\* a replay: 403.
ClaimNonce(w) ==
  /\ At(w, "verified")
  /\ IF \E row \in nonces : row.nonce = worker[w].message.nonce
       THEN (Go(w, Idle) /\ UNCHANGED <<nonces, handled>>)
       ELSE /\ nonces' = nonces \cup {NonceRow(worker[w].message)}
            /\ handled' = [handled EXCEPT ![worker[w].message.nonce] = @ + 1]
            /\ Go(w, [worker[w] EXCEPT !.step = "claimed"])
  /\ UNCHANGED <<clock, sent, payment, finished, cleaning, answered>>

\* 200: the provider need not send the event again.
Answer(w) ==
  /\ answered' = answered \cup {worker[w].message.event}
  /\ Go(w, Idle)

Handling(w, event) == At(w, "claimed") /\ worker[w].message.event = event

\* handle_webhook: a charge of an order that is still open is taken, once.
ConfirmPayment(w) ==
  /\ Handling(w, "succeeded")
  /\ payment = "succeeded" \/ (payment = "open" /\ ~finished)
  /\ payment' = "succeeded"
  /\ Answer(w)
  /\ UNCHANGED <<clock, sent, nonces, finished, cleaning, handled>>

\* One of an order that is finished rolls back, and the payment is closed in
\* a transaction of its own.
FindFinished(w) ==
  /\ Handling(w, "succeeded") /\ payment = "open" /\ finished
  /\ Go(w, [worker[w] EXCEPT !.step = "closing"])
  /\ UNCHANGED <<clock, sent, nonces, payment, finished, cleaning, handled, answered>>

\* Its refusal, when another request was faster, is only logged.
ClosePayment(w) ==
  /\ At(w, "closing")
  /\ payment' = IF payment = "open" THEN "closed" ELSE payment
  /\ Answer(w)
  /\ UNCHANGED <<clock, sent, nonces, finished, cleaning, handled>>

FailPayment(w) ==
  /\ Handling(w, "failed") /\ payment = "open"
  /\ payment' = "closed"
  /\ Answer(w)
  /\ UNCHANGED <<clock, sent, nonces, finished, cleaning, handled>>

\* 400, 502 after a ROLLBACK, or a worker that was killed: the nonce stays.
Fail(w) ==
  /\ worker[w] # Idle
  /\ Go(w, Idle)
  /\ UNCHANGED <<clock, sent, nonces, payment, finished, cleaning, handled, answered>>

-----------------------------------------------------------------------------
\* cleanup_webhook_nonces takes its cutoff, counts, and deletes later.
StartCleanup ==
  /\ cleaning = NotCleaning /\ clock >= Retention
  /\ cleaning' = clock - Retention
  /\ UNCHANGED <<clock, sent, nonces, worker, payment, finished, handled, answered>>

\* Mutant: nonces at the cutoff go, too.
DeleteToCutoff ==
  /\ cleaning # NotCleaning /\ cleaning' = NotCleaning
  /\ nonces' = {row \in nonces : row.ts > cleaning}
  /\ UNCHANGED <<clock, sent, worker, payment, finished, handled, answered>>

DeleteNonces ==
  /\ cleaning # NotCleaning /\ cleaning' = NotCleaning
  /\ nonces' = {row \in nonces : row.ts >= cleaning}
  /\ UNCHANGED <<clock, sent, worker, payment, finished, handled, answered>>

-----------------------------------------------------------------------------
\* The order is cancelled or delivered meanwhile.
FinishOrder ==
  /\ ~finished /\ finished' = TRUE
  /\ UNCHANGED <<clock, sent, nonces, worker, payment, cleaning, handled, answered>>

\* The customer, or cleanup_stale_payments, cancels the payment.
CancelPayment ==
  /\ payment = "open" /\ payment' = "closed"
  /\ UNCHANGED <<clock, sent, nonces, worker, finished, cleaning, handled, answered>>

TimePasses ==
  /\ clock < MaxClock
  /\ \A w \in {v \in Workers : worker[v] # Idle} : clock - worker[w].since < Patience
  /\ clock' = clock + 1
  /\ UNCHANGED <<sent, nonces, worker, payment, finished, cleaning, handled, answered>>

Init ==
  /\ clock = 0 /\ sent = {} /\ nonces = {}
  /\ worker = [w \in Workers |-> Idle]
  /\ payment = "open" /\ finished = FALSE /\ cleaning = NotCleaning
  /\ handled = [n \in Nonces |-> 0] /\ answered = {}

Next ==
  \/ \E n \in Nonces, event \in Events : Send(n, event)
  \/ \E w \in Workers :
       \/ \E message \in sent : Receive(w, message)
       \/ ClaimNonce(w) \/ ConfirmPayment(w) \/ FindFinished(w) \/ ClosePayment(w)
       \/ FailPayment(w) \/ Fail(w)
  \/ StartCleanup \/ DeleteNonces
  \/ FinishOrder \/ CancelPayment \/ TimePasses

Spec == Init /\ [][Next]_webhookVars

-----------------------------------------------------------------------------
\* No message is handled twice, although nonces are deleted and a repetition
\* may have passed the check of its age before (claim_webhook_nonce,
\* cleanup_webhook_nonces); it needs Patience <= Retention - Tolerance.  And
\* an event is answered with 200 only when there is nothing left to do for
\* it: its charge was taken or its order is finished, its payment is closed
\* (PaymentWebhookView.post).
HandledOnceAndSettled ==
  /\ \A n \in Nonces : handled[n] <= 1
  /\ "succeeded" \in answered => payment = "succeeded" \/ finished
  /\ "failed" \in answered => payment = "closed"
=============================================================================
