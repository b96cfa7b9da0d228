------------------------------- MODULE Platform -------------------------------
(***************************************************************************)
(* The parts of the shop around an order, side by side: the reports of its *)
(* sales, deliveries of webhooks, notifications, the customer's account    *)
(* and addresses, shipments, what a delivery costs; the numbers customers  *)
(* know things by, and the identifiers under which all that is logged.     *)
(*                                                                         *)
(* The parts keep their state in different tables and wait for no locks of *)
(* each other; what one needs of another (that an order is finished, that  *)
(* it is paid) it has as a step of its own that may happen at any time.  A *)
(* behaviour here is one of the part it has chosen at the start, while the *)
(* others rest.                                                            *)
(***************************************************************************)
EXTENDS Integers, Sequences, FiniteSets, TLC

CONSTANTS
  Requests,  \* requests that may be in flight at the same time
  Orders, Customers, Kinds, UnitPrices, Quantities, Discounts, Periods, Step, LastDay,
  Nonces, Tolerance, Retention, Patience, MaxClock,
  CeleryWorkers, MaxNotes,
  MaxValue,
  MaxAddresses, MaxKey,
  Web, Parent, Given, MaxIds, MaxMessages, MaxDepth,
  Checkouts, Zones, Methods, Places, NoPlace, MaxShippingCost, Coverages, Tariffs, Purchases,
  MaxOld, MaxPk, MaxTaken

\* Money and quantities are not below zero, and a period is some days long.
ASSUME ReportsAssumption ==
  /\ IsFiniteSet(Orders)
  /\ UnitPrices \subseteq Nat /\ Quantities \subseteq Nat /\ Discounts \subseteq Nat
  /\ Step \in [Periods -> Nat \ {0}]

\* WEBHOOK_NONCE_RETENTION_SECONDS is the tolerance and 60 seconds more, the
\* timeout of gunicorn.
ASSUME WebhookAssumption ==
  /\ Tolerance \in Nat /\ Retention \in Nat /\ Patience \in Nat
  /\ Tolerance + Patience <= Retention

\* A lock that nobody holds is told from one that a request holds.
ASSUME RequestsAssumption == "free" \notin Requests

\* There were so many orders before the sequences.
ASSUME OldAssumption == MaxOld \in Nat

\* Money and weights are not below zero.  The admin's form checks that of the
\* prices of a method, and not of its maximum.
ASSUME TariffsAssumption ==
  /\ MaxShippingCost \in Nat
  /\ \A t \in Tariffs : /\ {t.base, t.perKg} \subseteq Nat /\ t.threshold \in Int
                       /\ t.maximum \in Nat \cup {-1}
  /\ \A p \in Purchases : {p.subtotal, p.weight, p.discount} \subseteq Nat

\* A row of a method is not a method.
ASSUME MethodsAssumption == [zone |-> 0] \notin Methods

\* A process of the deployment is of one kind.
ASSUME ProcessesAssumption ==
  Web \cap CeleryWorkers = {} /\ Parent \notin Web \cup CeleryWorkers

\* Clients send finitely many identifiers, and NoId is none.
ASSUME GivenAssumption ==
  Given \subseteq Nat \ {0} /\ \E last \in Given : \A id \in Given : id <= last

VARIABLES
  part,
  today, sales, deleted,
  serverTime, sent, nonces, delivery, payment, finished, cleaning, handled, answered,
  order, paid, locks, request, notes, queue, celery, happened,
  row, links, session, chosen, latest, putBack,
  addresses, lastKey, saving, met,
  status, shipment, creating, listed,
  context, states, running, queued, lastId, leaked,
  zones, methods, orders,
  table, lastValue, inserting, lastPk, told

TheReports == INSTANCE SalesReports WITH Categories <- Kinds, Prices <- UnitPrices,
                                         MaxTime <- LastDay, clock <- today
TheWebhooks == INSTANCE WebhookDeliveries WITH Workers <- Requests, clock <- serverTime,
                                               worker <- delivery
TheNotes == INSTANCE Notifications WITH Workers <- CeleryWorkers, worker <- celery
TheAccounts == INSTANCE Accounts WITH Clients <- Requests, client <- session
TheAddresses == INSTANCE Addresses WITH Clients <- Requests, client <- saving
TheShipments == INSTANCE Fulfilment
TheContexts == INSTANCE WorkContexts WITH Workers <- CeleryWorkers
TheTariffs == INSTANCE DeliveryTariffs WITH Orders <- Checkouts
TheNumbers == INSTANCE PublicNumbers WITH MaxKey <- MaxPk, MaxValue <- MaxTaken,
                                          lastKey <- lastPk

saleVars == <<today, sales, deleted>>
webhookVars == <<serverTime, sent, nonces, delivery, payment, finished, cleaning, handled, answered>>
noteVars == <<order, paid, locks, request, notes, queue, celery, happened>>
accountVars == <<row, links, session, chosen, latest, putBack>>
addressVars == <<addresses, lastKey, saving, met>>
shipmentVars == <<status, shipment, creating, listed>>
contextVars == <<context, states, running, queued, lastId, leaked>>
tariffVars == <<zones, methods, orders>>
numberVars == <<table, lastValue, inserting, lastPk, told>>
vars == <<part, saleVars, webhookVars, noteVars, accountVars, addressVars, shipmentVars,
          contextVars, tariffVars, numberVars>>

Parts == {"reports", "webhooks", "notes", "accounts", "addresses", "shipments",
          "contexts", "tariffs", "numbers"}

Init ==
  /\ part \in Parts
  /\ TheReports!Init /\ TheWebhooks!Init /\ TheNotes!Init /\ TheAccounts!Init
  /\ TheAddresses!Init /\ TheShipments!Init /\ TheContexts!Init /\ TheTariffs!Init
  /\ TheNumbers!Init

\* A step of the chosen part.
Next ==
  /\ UNCHANGED part
  /\ \/ /\ part = "reports" /\ TheReports!Next
        /\ UNCHANGED <<webhookVars, noteVars, accountVars, addressVars, shipmentVars,
                       contextVars, tariffVars, numberVars>>
     \/ /\ part = "webhooks" /\ TheWebhooks!Next
        /\ UNCHANGED <<saleVars, noteVars, accountVars, addressVars, shipmentVars,
                       contextVars, tariffVars, numberVars>>
     \/ /\ part = "notes" /\ TheNotes!Next
        /\ UNCHANGED <<saleVars, webhookVars, accountVars, addressVars, shipmentVars,
                       contextVars, tariffVars, numberVars>>
     \/ /\ part = "accounts" /\ TheAccounts!Next
        /\ UNCHANGED <<saleVars, webhookVars, noteVars, addressVars, shipmentVars,
                       contextVars, tariffVars, numberVars>>
     \/ /\ part = "addresses" /\ TheAddresses!Next
        /\ UNCHANGED <<saleVars, webhookVars, noteVars, accountVars, shipmentVars,
                       contextVars, tariffVars, numberVars>>
     \/ /\ part = "shipments" /\ TheShipments!Next
        /\ UNCHANGED <<saleVars, webhookVars, noteVars, accountVars, addressVars,
                       contextVars, tariffVars, numberVars>>
     \/ /\ part = "contexts" /\ TheContexts!Next
        /\ UNCHANGED <<saleVars, webhookVars, noteVars, accountVars, addressVars,
                       shipmentVars, tariffVars, numberVars>>
     \/ /\ part = "tariffs" /\ TheTariffs!Next
        /\ UNCHANGED <<saleVars, webhookVars, noteVars, accountVars, addressVars,
                       shipmentVars, contextVars, numberVars>>
     \/ /\ part = "numbers" /\ TheNumbers!Next
        /\ UNCHANGED <<saleVars, webhookVars, noteVars, accountVars, addressVars,
                       shipmentVars, contextVars, tariffVars>>

Spec == Init /\ [][Next]_vars

-----------------------------------------------------------------------------
\* The reports of a dashboard agree with each other
\* (AnalyticsService.get_dashboard).
ReportsAgree == TheReports!ReportsAgree

\* A signed message is handled at most once, and answered with 200 only when
\* nothing is left to do for it (PaymentWebhookView.post).
HandledOnceAndSettled == TheWebhooks!HandledOnceAndSettled

\* A customer is told what was committed, and once (NotificationEvents).
ToldOnce == TheNotes!ToldOnce

\* A notification that was read stays read (NotificationService, tasks).
ReadStaysRead == TheNotes!ReadStaysRead

\* What was last set on purpose in an account stays, but for saves of the
\* whole row (UserService, ChangePasswordView).
ChangesKept == TheAccounts!ChangesKept

\* A user has one default address at most, unless requests met (Address.save).
OneDefault == TheAddresses!OneDefault

\* Goods do not leave for an order that is not being processed
\* (ShippingService).
OrderKeepsUp == TheShipments!OrderKeepsUp

\* A shipment that comes back cancels its order (transition_status).
ReturnCancels == TheShipments!ReturnCancels

\* A process writes under the identifiers of the work it does, and under none
\* when it does nothing (middleware, celery_observability).
IdsFollowWork == TheContexts!IdsFollowWork

\* An order is charged what its delivery was quoted at, unless a tariff was
\* edited meanwhile (ShippingService).
DeliveryAgrees == TheTariffs!DeliveryAgrees

\* A number that a customer was told never comes to mean something else
\* (allocate_order_number, allocate_shipment_number, Payment.save).
NumbersIdentify == TheNumbers!NumbersIdentify
=============================================================================
