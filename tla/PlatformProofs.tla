---------------------------- MODULE PlatformProofs ----------------------------
(***************************************************************************)
(* Proofs about the parts of Platform, for any values of all constants     *)
(* that meet its assumptions.  A step of the platform is a step of one     *)
(* part and leaves the others alone, so that what is proved of a part      *)
(* holds in the whole.  The shipments are those of module Fulfilment,      *)
(* whose theorems are used.  Each other part has an inductive invariant,   *)
(* which says above all what the requests, messages and tasks under way    *)
(* have read or written so far, and that it is still so.                   *)
(***************************************************************************)
EXTENDS Platform, FiniteSetTheorems, WellFoundedInduction, TLAPS

Shipments == INSTANCE FulfilmentProofs

\* A step of the platform is a step of its shipments, or leaves them alone.
LEMMA ShipmentStep == [Next]_vars => [TheShipments!Next]_shipmentVars
<1>1. ASSUME UNCHANGED vars PROVE UNCHANGED shipmentVars
  BY <1>1 DEF vars, shipmentVars
<1>2. ASSUME Next PROVE TheShipments!Next \/ UNCHANGED shipmentVars
  BY <1>2 DEF Next
<1> QED
  BY <1>1, <1>2

\* The proofs' own instance of Fulfilment has the same definitions.
LEMMA SameInit == TheShipments!Init => Shipments!Init
BY DEF TheShipments!Init, Shipments!Init

LEMMA SameStep == [TheShipments!Next]_shipmentVars => [Shipments!Next]_(Shipments!vars)
BY DEF shipmentVars, Shipments!vars,
       TheShipments!Next, TheShipments!OrderNext, TheShipments!TransitionOrder,
       TheShipments!CheckOrder, TheShipments!InsertShipment, TheShipments!TransitionShipment,
       TheShipments!ListStale, TheShipments!ReturnStale, TheShipments!Synced,
       TheShipments!Statuses, TheShipments!OrderStatusTransitions, TheShipments!OrderStatusMap,
       TheShipments!ShipmentStatuses, TheShipments!ShipmentStatusTransitions,
       Shipments!Next, Shipments!OrderNext, Shipments!TransitionOrder,
       Shipments!CheckOrder, Shipments!InsertShipment, Shipments!TransitionShipment,
       Shipments!ListStale, Shipments!ReturnStale, Shipments!Synced,
       Shipments!Statuses, Shipments!OrderStatusTransitions, Shipments!OrderStatusMap,
       Shipments!ShipmentStatuses, Shipments!ShipmentStatusTransitions

\* The behaviour of the shipments is the one module Fulfilment specifies.
THEOREM ImplementsShipments == Spec => Shipments!Spec
<1>1. Init => Shipments!Init
  BY SameInit DEF Init
<1>2. [Next]_vars => [Shipments!Next]_(Shipments!vars)
  BY ShipmentStep, SameStep
<1> QED
  BY <1>1, <1>2, PTL DEF Spec, Shipments!Spec

\* Nothing is packed for an order that is not paid, and no goods are on their
\* way for one that is only confirmed, although create_shipment and the
\* cleanup use what they have read without a lock (ShippingService).
THEOREM ShipmentsFollow == Spec => []OrderKeepsUp
<1>1. Shipments!OrderKeepsUp => OrderKeepsUp
  BY DEF OrderKeepsUp, TheShipments!OrderKeepsUp, Shipments!OrderKeepsUp
<1> QED
  BY <1>1, ImplementsShipments, Shipments!ShipmentsFollow, PTL

\* A shipment that comes back by its own transition leaves its order
\* cancelled, or delivered, in the same step (transition_status).
THEOREM ReturnsCancel == Spec => ReturnCancels
<1>1. Shipments!ReturnCancels => ReturnCancels
  BY PTL DEF ReturnCancels, TheShipments!ReturnCancels, Shipments!ReturnCancels,
     TheShipments!vars, Shipments!vars
<1> QED
  BY <1>1, ImplementsShipments, Shipments!ReturnsCancel, PTL

-----------------------------------------------------------------------------
\* Deliveries of webhooks.

\* A step of the platform is a step of its webhooks, or leaves them alone.
LEMMA WebhookStep == [Next]_vars => [TheWebhooks!Next]_webhookVars
<1>1. ASSUME UNCHANGED vars PROVE UNCHANGED webhookVars
  BY <1>1 DEF vars, webhookVars
<1>2. ASSUME Next PROVE TheWebhooks!Next \/ UNCHANGED webhookVars
  BY <1>2 DEF Next
<1> QED BY <1>1, <1>2

AtWork == {"verified", "claimed", "closing"}

\* Messages are told apart by their nonces, which the rows repeat; and a
\* request that is under way has verified its message lately.
MessagesKnown ==
  /\ serverTime \in Nat
  /\ sent \subseteq [nonce : Nonces, ts : Int, event : TheWebhooks!Events]
  /\ \A m, n \in sent : m.nonce = n.nonce => m = n
  /\ \A entry \in nonces : \E m \in sent : entry = TheWebhooks!NonceRow(m)
  /\ delivery \in [Requests -> {TheWebhooks!Idle} \cup
                                [step : AtWork, message : sent, since : Nat]]
  /\ \A w \in Requests :
       delivery[w] # TheWebhooks!Idle =>
         /\ delivery[w].since <= serverTime /\ serverTime <= delivery[w].since + Patience
         /\ delivery[w].since <= delivery[w].message.ts + Tolerance
  /\ cleaning = TheWebhooks!NotCleaning
       \/ (cleaning \in Nat /\ cleaning + Retention <= serverTime)

\* A message that was let through has its nonce in the table, or is older than
\* any request can still have verified.
NoncesHold ==
  /\ handled \in [Nonces -> {0, 1}]
  /\ \A n \in Nonces :
       handled[n] = 1 => \/ \E entry \in nonces : entry.nonce = n
                         \/ \E m \in sent : m.nonce = n /\ m.ts + Retention < serverTime

\* What was answered is done, and whoever closes a payment knows why.
AnswersHold ==
  /\ payment \in {"open", "succeeded", "closed"}
  /\ \A w \in Requests :
       TheWebhooks!At(w, "closing") => finished /\ delivery[w].message.event = "succeeded"
  /\ "succeeded" \in answered => payment = "succeeded" \/ finished
  /\ "failed" \in answered => payment = "closed"

WebhookInv == MessagesKnown /\ NoncesHold /\ AnswersHold

LEMMA WebhookInit == Init => WebhookInv
BY DEF Init, TheWebhooks!Init, WebhookInv, MessagesKnown, NoncesHold, AnswersHold,
   TheWebhooks!Idle, TheWebhooks!At

\* The nonce of a message that a request has verified is there if the message
\* was let through: it could be deleted only when the request is over.
LEMMA NonceIsThere ==
  ASSUME MessagesKnown, NoncesHold, NEW w \in Requests, TheWebhooks!At(w, "verified"),
         handled[delivery[w].message.nonce] = 1
  PROVE  \E entry \in nonces : entry.nonce = delivery[w].message.nonce
<1> DEFINE m == delivery[w].message
<1>1. /\ m \in sent /\ m.ts \in Int /\ m.nonce \in Nonces /\ delivery[w].since \in Nat
      /\ serverTime <= delivery[w].since + Patience /\ delivery[w].since <= m.ts + Tolerance
  BY DEF MessagesKnown, TheWebhooks!At, TheWebhooks!Idle
<1>2. ASSUME NEW n \in sent, n.nonce = m.nonce, n.ts + Retention < serverTime
      PROVE  FALSE
  BY <1>1, <1>2, WebhookAssumption DEF MessagesKnown
<1> QED BY <1>1, <1>2 DEF NoncesHold

\* The steps of one request.
LEMMA DeliveryStep ==
  ASSUME WebhookInv, NEW w \in Requests,
         \/ \E message \in sent : TheWebhooks!Receive(w, message)
         \/ TheWebhooks!ClaimNonce(w) \/ TheWebhooks!ConfirmPayment(w)
         \/ TheWebhooks!FindFinished(w) \/ TheWebhooks!ClosePayment(w)
         \/ TheWebhooks!FailPayment(w) \/ TheWebhooks!Fail(w)
  PROVE  WebhookInv'
<1> USE WebhookAssumption
    DEF WebhookInv, MessagesKnown, AnswersHold, AtWork,
        TheWebhooks!Go, TheWebhooks!At, TheWebhooks!Idle, TheWebhooks!Events
<1>1. ASSUME NEW message \in sent, TheWebhooks!Receive(w, message)
      PROVE  WebhookInv'
  BY <1>1 DEF TheWebhooks!Receive, TheWebhooks!Fresh, TheWebhooks!Distance, NoncesHold
<1>2. CASE TheWebhooks!ClaimNonce(w)
  <2>1. CASE \E entry \in nonces : entry.nonce = delivery[w].message.nonce
    BY <1>2, <2>1, SMTT(30) DEF TheWebhooks!ClaimNonce, NoncesHold
  <2>2. CASE ~\E entry \in nonces : entry.nonce = delivery[w].message.nonce
    <3> DEFINE m == delivery[w].message
    <3>1. /\ nonces' = nonces \cup {TheWebhooks!NonceRow(m)}
          /\ handled' = [handled EXCEPT ![m.nonce] = @ + 1]
          /\ delivery' = [delivery EXCEPT ![w] = [delivery[w] EXCEPT !.step = "claimed"]]
          /\ UNCHANGED <<serverTime, sent, payment, finished, cleaning, answered>>
          /\ delivery[w].step = "verified"
      BY <1>2, <2>2 DEF TheWebhooks!ClaimNonce
    <3>2. m \in sent /\ m.nonce \in Nonces
      BY <3>1
    <3>3. handled[m.nonce] = 0
      BY <2>2, <3>1, <3>2, NonceIsThere DEF NoncesHold
    <3>4. TheWebhooks!NonceRow(m).nonce = m.nonce
      BY DEF TheWebhooks!NonceRow
    <3>5. NoncesHold'
      BY <3>1, <3>2, <3>3, <3>4 DEF NoncesHold
    <3>6. MessagesKnown' /\ AnswersHold'
      BY <3>1, <3>2
    <3> QED BY <3>5, <3>6
  <2> QED BY <2>1, <2>2
<1>3. CASE TheWebhooks!ConfirmPayment(w) \/ TheWebhooks!FailPayment(w)
  BY <1>3 DEF TheWebhooks!ConfirmPayment, TheWebhooks!FailPayment, TheWebhooks!Handling,
     TheWebhooks!Answer, NoncesHold
<1>4. CASE TheWebhooks!FindFinished(w)
  BY <1>4 DEF TheWebhooks!FindFinished, TheWebhooks!Handling, NoncesHold
<1>5. CASE TheWebhooks!ClosePayment(w)
  BY <1>5 DEF TheWebhooks!ClosePayment, TheWebhooks!Answer, NoncesHold
<1>6. CASE TheWebhooks!Fail(w)
  BY <1>6 DEF TheWebhooks!Fail, NoncesHold
<1> QED BY <1>1, <1>2, <1>3, <1>4, <1>5, <1>6

\* The provider, the cleanup, the order, the customer and the clock.
LEMMA SurroundingsStep ==
  ASSUME WebhookInv,
         \/ \E n \in Nonces, event \in TheWebhooks!Events : TheWebhooks!Send(n, event)
         \/ TheWebhooks!StartCleanup \/ TheWebhooks!DeleteNonces
         \/ TheWebhooks!FinishOrder \/ TheWebhooks!CancelPayment \/ TheWebhooks!TimePasses
  PROVE  WebhookInv'
<1> USE WebhookAssumption
    DEF WebhookInv, MessagesKnown, AnswersHold, NoncesHold, AtWork, TheWebhooks!At,
        TheWebhooks!Idle, TheWebhooks!NotCleaning
<1>1. ASSUME NEW n \in Nonces, NEW event \in TheWebhooks!Events, TheWebhooks!Send(n, event)
      PROVE  WebhookInv'
  <2>1. PICK ts \in {serverTime, serverTime + Tolerance} :
          sent' = sent \cup {[nonce |-> n, ts |-> ts, event |-> event]}
    BY <1>1 DEF TheWebhooks!Send
  <2> DEFINE m == [nonce |-> n, ts |-> ts, event |-> event]
  <2>2. /\ m \in [nonce : Nonces, ts : Int, event : TheWebhooks!Events]
        /\ \A old \in sent : old.nonce # n
        /\ UNCHANGED <<serverTime, nonces, delivery, payment, finished, cleaning, handled, answered>>
    BY <1>1 DEF TheWebhooks!Send
  <2> QED BY <2>1, <2>2
<1>2. CASE TheWebhooks!StartCleanup
  BY <1>2 DEF TheWebhooks!StartCleanup
<1>3. CASE TheWebhooks!DeleteNonces
  <2>1. /\ nonces' = {entry \in nonces : entry.ts >= cleaning}
        /\ cleaning' = TheWebhooks!NotCleaning
        /\ cleaning \in Nat /\ cleaning + Retention <= serverTime
        /\ UNCHANGED <<serverTime, sent, delivery, payment, finished, handled, answered>>
    BY <1>3 DEF TheWebhooks!DeleteNonces
  <2>2. ASSUME NEW n \in Nonces, NEW entry \in nonces, entry.nonce = n, entry \notin nonces'
        PROVE  \E m \in sent : m.nonce = n /\ m.ts + Retention < serverTime
    <3>1. PICK m \in sent : entry = TheWebhooks!NonceRow(m)
      OBVIOUS
    <3>2. entry.nonce = m.nonce /\ entry.ts = m.ts /\ m.ts \in Int
      BY <3>1 DEF TheWebhooks!NonceRow
    <3>3. entry.ts < cleaning
      BY <2>1, <2>2, <3>2
    <3> QED BY <2>1, <2>2, <3>2, <3>3
  <2>3. NoncesHold'
    BY <2>1, <2>2
  <2>4. MessagesKnown' /\ AnswersHold'
    BY <2>1
  <2> QED BY <2>3, <2>4
<1>4. CASE TheWebhooks!FinishOrder \/ TheWebhooks!CancelPayment
  BY <1>4 DEF TheWebhooks!FinishOrder, TheWebhooks!CancelPayment
<1>5. CASE TheWebhooks!TimePasses
  <2>1. /\ serverTime' = serverTime + 1
        /\ \A w \in Requests : delivery[w] # TheWebhooks!Idle =>
                              serverTime - delivery[w].since < Patience
        /\ UNCHANGED <<sent, nonces, delivery, payment, finished, cleaning, handled, answered>>
    BY <1>5 DEF TheWebhooks!TimePasses
  <2>2. \A w \in Requests : delivery[w] # TheWebhooks!Idle =>
          delivery[w].since \in Nat /\ delivery[w].since <= serverTime'
          /\ serverTime' <= delivery[w].since + Patience
    BY <2>1
  <2>3. MessagesKnown'
    BY <2>1, <2>2
  <2>4. NoncesHold'
    BY <2>1
  <2> QED BY <2>1, <2>3, <2>4
<1> QED BY <1>1, <1>2, <1>3, <1>4, <1>5

LEMMA WebhookKept == WebhookInv /\ [TheWebhooks!Next]_webhookVars => WebhookInv'
<1> SUFFICES ASSUME WebhookInv, [TheWebhooks!Next]_webhookVars PROVE WebhookInv'
  OBVIOUS
<1>1. CASE UNCHANGED webhookVars
  BY <1>1 DEF webhookVars, WebhookInv, MessagesKnown, NoncesHold, AnswersHold, TheWebhooks!At
<1> QED BY <1>1, DeliveryStep, SurroundingsStep DEF TheWebhooks!Next

\* Because a request is over within Patience, and nonces are kept for that
\* longer than a message is fresh, no message is let through twice, however
\* the network repeats it and whenever the cleanup runs; and 200 is answered
\* only when nothing is left to do.
THEOREM WebhooksOnceAndSettled == Spec => []HandledOnceAndSettled
<1>1. WebhookInv => HandledOnceAndSettled
  BY DEF WebhookInv, NoncesHold, AnswersHold, HandledOnceAndSettled,
     TheWebhooks!HandledOnceAndSettled
<1> QED BY <1>1, WebhookInit, WebhookStep, WebhookKept, PTL DEF Spec

-----------------------------------------------------------------------------
\* The customer's account.

\* A step of the platform is a step of its accounts, or leaves them alone.
LEMMA AccountStep == [Next]_vars => [TheAccounts!Next]_accountVars
<1>1. ASSUME UNCHANGED vars PROVE UNCHANGED accountVars
  BY <1>1 DEF vars, accountVars
<1>2. ASSUME Next PROVE TheAccounts!Next \/ UNCHANGED accountVars
  BY <1>2 DEF Next
<1> QED BY <1>1, <1>2

\* The row and its copies have the columns of the table, and what was set on
\* purpose is in the row or was put back.
AccountInv ==
  /\ DOMAIN row = TheAccounts!Columns /\ row = [col \in TheAccounts!Columns |-> row[col]]
  /\ DOMAIN session = Requests /\ session = [c \in Requests |-> session[c]]
  /\ \A c \in Requests : session[c] # TheAccounts!Idle =>
       /\ session[c].step # "idle"
       /\ DOMAIN session[c].copy = TheAccounts!Columns
       /\ session[c].copy = [col \in TheAccounts!Columns |-> session[c].copy[col]]
  /\ ChangesKept

LEMMA AccountInit == Init => AccountInv
<1> SUFFICES ASSUME Init PROVE AccountInv
  OBVIOUS
<1>1. /\ row = [password |-> 0, name |-> 0, active |-> TRUE] /\ latest = row
      /\ session = [c \in Requests |-> TheAccounts!Idle]
  BY DEF Init, TheAccounts!Init
<1> QED BY <1>1 DEF AccountInv, ChangesKept, TheAccounts!ChangesKept, TheAccounts!Columns

\* A request that holds a copy of the row, or has something put into it.
LEMMA CopyTaken ==
  ASSUME AccountInv, NEW c \in Requests, NEW step, step # "idle", NEW copy,
         DOMAIN copy = TheAccounts!Columns, copy = [col \in TheAccounts!Columns |-> copy[col]],
         session' = [session EXCEPT ![c] = [step |-> step, copy |-> copy]],
         UNCHANGED <<row, links, chosen, latest, putBack>>
  PROVE  AccountInv'
<1>1. /\ DOMAIN session' = Requests /\ session' = [d \in Requests |-> session'[d]]
      /\ session'[c] = [step |-> step, copy |-> copy]
      /\ \A d \in Requests \ {c} : session'[d] = session[d]
  BY DEF AccountInv
<1>2. ASSUME NEW d \in Requests, session'[d] # TheAccounts!Idle
      PROVE  /\ session'[d].step # "idle"
             /\ DOMAIN session'[d].copy = TheAccounts!Columns
             /\ session'[d].copy = [col \in TheAccounts!Columns |-> session'[d].copy[col]]
  <2>1. CASE d = c
    <3>1. session'[d].step = step /\ session'[d].copy = copy
      BY <1>1, <2>1
    <3> QED BY <3>1
  <2>2. CASE d # c
    BY <1>1, <1>2, <2>2 DEF AccountInv
  <2> QED BY <2>1, <2>2
<1> QED BY <1>1, <1>2 DEF AccountInv, ChangesKept, TheAccounts!ChangesKept

\* save(update_fields=[column]): the other columns are as they were.
LEMMA ColumnSaved ==
  ASSUME AccountInv, NEW c \in Requests, NEW column \in TheAccounts!Columns, NEW value,
         TheAccounts!SaveColumn(c, column, value)
  PROVE  AccountInv'
BY DEF AccountInv, ChangesKept, TheAccounts!ChangesKept, TheAccounts!SaveColumn,
   TheAccounts!Written, TheAccounts!Idle

\* save(): what is older than what was set on purpose is known as put back.
LEMMA WholeSaved ==
  ASSUME AccountInv, NEW c \in Requests, NEW new, NEW meant \in SUBSET TheAccounts!Columns,
         DOMAIN new = TheAccounts!Columns, new = [col \in TheAccounts!Columns |-> new[col]],
         TheAccounts!SaveWhole(c, new, meant)
  PROVE  AccountInv'
BY DEF AccountInv, ChangesKept, TheAccounts!ChangesKept, TheAccounts!SaveWhole,
   TheAccounts!Written, TheAccounts!Idle

LEMMA AccountKept == AccountInv /\ [TheAccounts!Next]_accountVars => AccountInv'
<1> SUFFICES ASSUME AccountInv, [TheAccounts!Next]_accountVars PROVE AccountInv'
  OBVIOUS
<1> USE DEF TheAccounts!At, TheAccounts!Copy
<1>1. CASE UNCHANGED accountVars
  BY <1>1 DEF accountVars, AccountInv, ChangesKept, TheAccounts!ChangesKept
<1>2. ASSUME NEW c \in Requests, NEW step \in {"password", "profile", "leaving", "link"},
             TheAccounts!Load(c, step)
      PROVE  AccountInv'
  BY <1>2, CopyTaken DEF TheAccounts!Load, TheAccounts!Idle, AccountInv
<1>3. ASSUME NEW c \in Requests, NEW old, TheAccounts!ChangePassword(c, old)
      PROVE  AccountInv'
  <2> DEFINE new == [session[c].copy EXCEPT !.password = chosen'.password]
  <2>1. session[c] # TheAccounts!Idle
    BY <1>3 DEF TheAccounts!ChangePassword, TheAccounts!Idle
  <2>2. DOMAIN new = TheAccounts!Columns /\ new = [col \in TheAccounts!Columns |-> new[col]]
    BY <2>1 DEF AccountInv
  <2>3. TheAccounts!SaveWhole(c, new, {"password"}) /\ {"password"} \subseteq TheAccounts!Columns
    BY <1>3 DEF TheAccounts!ChangePassword, TheAccounts!Columns
  <2> QED BY <2>2, <2>3, WholeSaved
<1>4. ASSUME NEW c \in Requests,
             TheAccounts!UpdateProfile(c) \/ TheAccounts!Deactivate(c) \/ TheAccounts!ConfirmReset(c)
      PROVE  AccountInv'
  <2>1. {"password", "name", "active"} \subseteq TheAccounts!Columns
    BY DEF TheAccounts!Columns
  <2> QED BY <1>4, <2>1, ColumnSaved DEF TheAccounts!UpdateProfile, TheAccounts!Deactivate,
                                         TheAccounts!ConfirmReset
<1>5. ASSUME NEW c \in Requests,
             TheAccounts!OpenForm(c) \/ TheAccounts!PostForm(c) \/ TheAccounts!Refuse(c)
      PROVE  AccountInv'
  <2>1. CASE TheAccounts!OpenForm(c)
    BY <2>1, CopyTaken DEF TheAccounts!OpenForm, AccountInv
  <2>2. CASE TheAccounts!PostForm(c)
    <3> DEFINE copy == [session[c].copy EXCEPT !.password = row.password]
    <3>1. session[c] # TheAccounts!Idle
      BY <2>2 DEF TheAccounts!PostForm, TheAccounts!Idle
    <3>2. DOMAIN copy = TheAccounts!Columns /\ copy = [col \in TheAccounts!Columns |-> copy[col]]
      BY <3>1 DEF AccountInv
    <3>3. session' = [session EXCEPT ![c] = [step |-> "posted", copy |-> copy]]
          /\ UNCHANGED <<row, links, chosen, latest, putBack>>
      BY <2>2 DEF TheAccounts!PostForm
    <3> HIDE DEF copy
    <3> QED BY <3>2, <3>3, CopyTaken
  <2>3. CASE TheAccounts!Refuse(c)
    BY <2>3 DEF TheAccounts!Refuse, AccountInv, ChangesKept, TheAccounts!ChangesKept
  <2> QED BY <1>5, <2>1, <2>2, <2>3
<1>6. ASSUME NEW c \in Requests, NEW flip \in BOOLEAN, TheAccounts!SaveForm(c, flip)
      PROVE  AccountInv'
  <2> DEFINE copy == session[c].copy
             flipped == [copy EXCEPT !.active = ~@]
  <2>1. session[c] # TheAccounts!Idle
    BY <1>6 DEF TheAccounts!SaveForm, TheAccounts!Idle
  <2>2. /\ DOMAIN copy = TheAccounts!Columns
        /\ copy = [col \in TheAccounts!Columns |-> copy[col]]
        /\ DOMAIN flipped = TheAccounts!Columns
        /\ flipped = [col \in TheAccounts!Columns |-> flipped[col]]
    BY <2>1 DEF AccountInv
  <2>3. \/ TheAccounts!SaveWhole(c, flipped, {"active"})
        \/ TheAccounts!SaveWhole(c, copy, {})
    BY <1>6 DEF TheAccounts!SaveForm
  <2>4. {"active"} \in SUBSET TheAccounts!Columns /\ {} \in SUBSET TheAccounts!Columns
    BY DEF TheAccounts!Columns
  <2> HIDE DEF copy, flipped
  <2> QED BY <2>2, <2>3, <2>4, WholeSaved
<1>7. ASSUME TheAccounts!RequestReset PROVE AccountInv'
  BY <1>7 DEF TheAccounts!RequestReset, AccountInv, ChangesKept, TheAccounts!ChangesKept
<1> QED BY <1>1, <1>2, <1>3, <1>4, <1>5, <1>6, <1>7 DEF TheAccounts!Next, TheAccounts!CheckLink

\* What was last set on purpose in an account stays, whatever copies requests
\* and forms still hold, but for columns that a save of the whole row has put
\* back (UserService, ChangePasswordView, UserAdmin).
THEOREM PurposeStays == Spec => []ChangesKept
<1>1. AccountInv => ChangesKept
  BY DEF AccountInv
<1> QED BY <1>1, AccountInit, AccountStep, AccountKept, PTL DEF Spec

-----------------------------------------------------------------------------
\* The customer's addresses.

\* A step of the platform is a step of its addresses, or leaves them alone.
LEMMA AddressStep == [Next]_vars => [TheAddresses!Next]_addressVars
<1>1. ASSUME UNCHANGED vars PROVE UNCHANGED addressVars
  BY <1>1 DEF vars, addressVars
<1>2. ASSUME Next PROVE TheAddresses!Next \/ UNCHANGED addressVars
  BY <1>2 DEF Next
<1> QED BY <1>1, <1>2

AddressRow == [key : Nat, default : BOOLEAN]
Cleared(c) == saving[c].step = "cleared"

\* Rows are told apart by their keys, and a request that saves holds a row; it
\* has cleared the others only for a default.
AddressesKnown ==
  /\ lastKey \in Nat
  /\ addresses \subseteq AddressRow
  /\ \A a, b \in addresses : a.key = b.key => a = b
  /\ saving \in [Requests -> {TheAddresses!Idle} \cup
                              [step : {"saving", "cleared"}, kind : {"fresh", "whole", "flag"},
                               row : AddressRow, seen : SUBSET AddressRow, alone : BOOLEAN]]
  /\ met \in BOOLEAN
  /\ \A c \in Requests : Cleared(c) => saving[c].row.default

\* Of two requests between their statements neither is alone; one that is alone
\* has cleared every default there is, but for the row it saves.
ClearedHold ==
  /\ \A c, d \in Requests : c # d /\ Cleared(c) /\ Cleared(d) => ~saving[c].alone
  /\ \A c \in Requests : Cleared(c) /\ saving[c].alone =>
       \A a \in addresses : a.default /\ a.key # saving[c].row.key =>
         \E s \in saving[c].seen : s.key = a.key

\* Unless requests met, two defaults are the same row.
SameDefault ==
  ~met => \A a, b \in addresses : a.default /\ b.default => a = b

AddressInv == AddressesKnown /\ ClearedHold /\ SameDefault

LEMMA AddressInit == Init => AddressInv
<1> SUFFICES ASSUME Init PROVE AddressInv
  OBVIOUS
<1>1. /\ addresses = {} /\ lastKey = 0 /\ met = FALSE
      /\ saving = [c \in Requests |-> TheAddresses!Idle]
  BY DEF Init, TheAddresses!Init
<1> QED BY <1>1 DEF AddressInv, AddressesKnown, ClearedHold, SameDefault, Cleared,
                    TheAddresses!Idle

\* The row that is saved replaces the one of its key, the cleared ones lose
\* their flag, and the rest stays.
LEMMA RowSaved ==
  ASSUME AddressesKnown, NEW c \in Requests, saving[c] # TheAddresses!Idle,
         NEW cleared \in SUBSET AddressRow, TheAddresses!SaveRow(c, cleared)
  PROVE  /\ addresses' \subseteq AddressRow
         /\ \A a, b \in addresses' : a.key = b.key => a = b
         /\ \A a \in addresses' :
              \/ a = saving[c].row
              \/ /\ a.key # saving[c].row.key
                 /\ \E old \in addresses :
                      /\ old.key = a.key /\ (a.default => old.default)
                      /\ (\E s \in cleared : s.key = a.key) => ~a.default
                      /\ a.default => a = old
<1> DEFINE row_ == saving[c].row
           Flagged(a) == IF a.key \in {s.key : s \in cleared}
                         THEN [a EXCEPT !.default = FALSE] ELSE a
<1>1. addresses' = {Flagged(a) : a \in {a \in addresses : a.key # row_.key}} \cup {row_}
  BY DEF TheAddresses!SaveRow, TheAddresses!Others
<1>2. row_ \in AddressRow
  BY DEF AddressesKnown
<1>3. \A a \in AddressRow : /\ Flagged(a) \in AddressRow /\ Flagged(a).key = a.key
                            /\ Flagged(a).default => a.default /\ Flagged(a) = a
                            /\ (\E s \in cleared : s.key = a.key) => ~Flagged(a).default
  BY DEF AddressRow
<1>4. addresses \subseteq AddressRow /\ \A a, b \in addresses : a.key = b.key => a = b
  BY DEF AddressesKnown
<1> HIDE DEF Flagged, row_
<1>5. \A a \in addresses' :
        a = row_ \/ (a.key # row_.key /\ \E old \in addresses : a = Flagged(old) /\ old.key = a.key)
  BY <1>1, <1>3, <1>4
<1>6. \A a, b \in addresses' : a.key = b.key => a = b
  BY <1>4, <1>5
<1>7. addresses' \subseteq AddressRow
  BY <1>1, <1>2, <1>3, <1>4
<1>8. \A a \in addresses' :
        \/ a = row_
        \/ /\ a.key # row_.key
           /\ \E old \in addresses :
                /\ old.key = a.key /\ (a.default => old.default)
                /\ (\E s \in cleared : s.key = a.key) => ~a.default
                /\ a.default => a = old
  BY <1>3, <1>4, <1>5
<1> QED BY <1>6, <1>7, <1>8 DEF row_

LEMMA AddressKept == AddressInv /\ [TheAddresses!Next]_addressVars => AddressInv'
<1> SUFFICES ASSUME AddressInv, [TheAddresses!Next]_addressVars PROVE AddressInv'
  OBVIOUS
<1> USE DEF AddressInv, TheAddresses!Idle, Cleared
<1>1. CASE UNCHANGED addressVars
  BY <1>1 DEF addressVars, AddressesKnown, ClearedHold, SameDefault
<1>2. ASSUME NEW c \in Requests, NEW kind \in {"fresh", "whole", "flag"}, NEW held \in AddressRow,
             TheAddresses!Hold(c, kind, held), lastKey' \in Nat
      PROVE  AddressInv'
  BY <1>2 DEF TheAddresses!Hold, AddressesKnown, ClearedHold, SameDefault
<1>3. ASSUME NEW c \in Requests, NEW default \in BOOLEAN, TheAddresses!CreateAddress(c, default)
      PROVE  AddressInv'
  <2>1. lastKey' \in Nat /\ TheAddresses!Row(lastKey', default) \in AddressRow
    BY <1>3 DEF TheAddresses!CreateAddress, TheAddresses!Row, AddressesKnown, AddressRow
  <2> QED BY <1>2, <1>3, <2>1 DEF TheAddresses!CreateAddress
<1>4. ASSUME NEW c \in Requests, NEW address \in addresses, NEW default \in BOOLEAN,
             TheAddresses!LoadAddress(c, address, default) \/ TheAddresses!SetDefault(c, address)
      PROVE  AddressInv'
  <2>1. /\ lastKey' \in Nat
        /\ TheAddresses!Row(address.key, default) \in AddressRow
        /\ TheAddresses!Row(address.key, TRUE) \in AddressRow
    BY <1>4 DEF TheAddresses!LoadAddress, TheAddresses!SetDefault, TheAddresses!Row,
       AddressesKnown, AddressRow
  <2> QED BY <1>2, <1>4, <2>1 DEF TheAddresses!LoadAddress, TheAddresses!SetDefault
<1>5. ASSUME NEW c \in Requests, TheAddresses!ClearOthers(c)
      PROVE  AddressInv'
  <2> DEFINE between == {d \in Requests \ {c} : saving[d].step = "cleared"}
             seen == {a \in addresses : a.key # saving[c].row.key /\ a.default}
  <2>1. /\ saving[c].step = "saving" /\ saving[c].row.default
        /\ saving' = [d \in Requests |->
             IF d = c THEN [saving[c] EXCEPT !.step = "cleared", !.alone = (between = {}),
                                             !.seen = seen]
             ELSE IF d \in between THEN [saving[d] EXCEPT !.alone = FALSE]
             ELSE saving[d]]
        /\ UNCHANGED <<addresses, lastKey, met>>
    <3>1. TheAddresses!Defaults(TheAddresses!Others(saving[c].row)) = seen
      BY DEF TheAddresses!Defaults, TheAddresses!Others
    <3> QED BY <1>5, <3>1 DEF TheAddresses!ClearOthers
  <2> DEFINE new == [saving[c] EXCEPT !.step = "cleared", !.alone = (between = {}), !.seen = seen]
  <2>2. /\ seen \in SUBSET AddressRow
        /\ saving[c] \in [step : {"saving", "cleared"}, kind : {"fresh", "whole", "flag"},
                          row : AddressRow, seen : SUBSET AddressRow, alone : BOOLEAN]
    <3>1. addresses \subseteq AddressRow
      BY DEF AddressesKnown
    <3>2. saving[c].step # TheAddresses!Idle.step
      BY <2>1
    <3>3. saving[c] # TheAddresses!Idle
      BY <3>2
    <3> HIDE <2>1
    <3>4. saving[c] \in [step : {"saving", "cleared"}, kind : {"fresh", "whole", "flag"},
                          row : AddressRow, seen : SUBSET AddressRow, alone : BOOLEAN]
      BY <3>3 DEF AddressesKnown
    <3> QED BY <3>1, <3>4
  <2>3. /\ new \in [step : {"saving", "cleared"}, kind : {"fresh", "whole", "flag"},
                     row : AddressRow, seen : SUBSET AddressRow, alone : BOOLEAN]
        /\ new.step = "cleared" /\ new.row = saving[c].row /\ new.seen = seen
        /\ new.alone = (between = {})
    BY <2>2
  <2> HIDE DEF new
  <2>4. /\ saving'[c] = new
        /\ \A d \in between : saving'[d] = [saving[d] EXCEPT !.alone = FALSE]
        /\ \A d \in Requests \ (between \cup {c}) : saving'[d] = saving[d]
        /\ saving' \in [Requests -> {saving'[d] : d \in Requests}]
    BY <2>1 DEF new
  <2>5. \A d \in between :
          /\ saving'[d] \in [step : {"saving", "cleared"}, kind : {"fresh", "whole", "flag"},
                             row : AddressRow, seen : SUBSET AddressRow, alone : BOOLEAN]
          /\ saving'[d].step = "cleared" /\ saving'[d].row = saving[d].row /\ ~saving'[d].alone
    <3> TAKE d \in between
    <3>1. saving[d].step = "cleared" /\ saving[d] \in
            [step : {"saving", "cleared"}, kind : {"fresh", "whole", "flag"},
             row : AddressRow, seen : SUBSET AddressRow, alone : BOOLEAN]
      BY DEF AddressesKnown
    <3> QED BY <2>4, <3>1, ZenonT(60)
  <2>6. AddressesKnown'
    <3>1. saving' \in [Requests -> {TheAddresses!Idle} \cup
                              [step : {"saving", "cleared"}, kind : {"fresh", "whole", "flag"},
                               row : AddressRow, seen : SUBSET AddressRow, alone : BOOLEAN]]
      BY <2>3, <2>4, <2>5 DEF AddressesKnown
    <3>2. \A d \in Requests : Cleared(d)' => saving'[d].row.default
      BY <2>1, <2>3, <2>4, <2>5 DEF AddressesKnown
    <3> QED BY <2>1, <3>1, <3>2 DEF AddressesKnown
  <2>7. ClearedHold'
    <3>1. ASSUME NEW d \in Requests, NEW e \in Requests, d # e, Cleared(d)', Cleared(e)'
          PROVE  ~saving'[d].alone
      <4>1. CASE d = c
        <5>1. e \in between
          BY <2>4, <3>1, <4>1
        <5> QED BY <2>3, <2>4, <4>1, <5>1
      <4>2. CASE d # c
        BY <2>4, <2>5, <3>1, <4>2
      <4> QED BY <4>1, <4>2
    <3>2. ASSUME NEW d \in Requests, Cleared(d)', saving'[d].alone,
                 NEW a \in addresses', a.default, a.key # saving'[d].row.key
          PROVE  \E s \in saving'[d].seen : s.key = a.key
      <4>1. CASE d = c
        BY <2>1, <2>3, <2>4, <3>2, <4>1
      <4>2. CASE d # c
        <5>1. d \notin between
          BY <2>5, <3>2
        <5> QED BY <2>4, <3>2, <4>2, <5>1
      <4> QED BY <4>1, <4>2
    <3> QED BY <3>1, <3>2 DEF ClearedHold
  <2> QED BY <2>1, <2>6, <2>7 DEF SameDefault
<1>6. ASSUME NEW c \in Requests, TheAddresses!SaveOther(c)
      PROVE  AddressInv'
  <2>1. /\ saving[c].step = "saving" /\ ~saving[c].row.default
        /\ saving' = [saving EXCEPT ![c] = TheAddresses!Idle]
        /\ UNCHANGED <<lastKey, met>>
    BY <1>6 DEF TheAddresses!SaveOther
  <2>2. /\ addresses' \subseteq AddressRow
        /\ \A a, b \in addresses' : a.key = b.key => a = b
        /\ \A a \in addresses' : a.default => a \in addresses
    BY <1>6, <2>1, RowSaved DEF TheAddresses!SaveOther
  <2> QED BY <2>1, <2>2 DEF AddressesKnown, ClearedHold, SameDefault
<1>7. ASSUME NEW c \in Requests, TheAddresses!SaveDefault(c)
      PROVE  AddressInv'
  <2>1. /\ Cleared(c) /\ met' = ~saving[c].alone
        /\ saving' = [saving EXCEPT ![c] = TheAddresses!Idle]
        /\ saving[c].seen \in SUBSET AddressRow
        /\ TheAddresses!SaveRow(c, saving[c].seen)
        /\ UNCHANGED lastKey
    BY <1>7 DEF TheAddresses!SaveDefault, AddressesKnown
  <2>2. /\ addresses' \subseteq AddressRow
        /\ \A a, b \in addresses' : a.key = b.key => a = b
        /\ \A a \in addresses' :
              \/ a = saving[c].row
              \/ /\ a.key # saving[c].row.key
                 /\ \E old \in addresses :
                      /\ old.key = a.key /\ (a.default => old.default)
                      /\ (\E s \in saving[c].seen : s.key = a.key) => ~a.default
                      /\ a.default => a = old
    BY <2>1, RowSaved
  <2>3. AddressesKnown'
    BY <2>1, <2>2 DEF AddressesKnown
  <2>4. SameDefault'
    <3>1. ASSUME saving[c].alone, NEW a \in addresses', a.default
          PROVE  a = saving[c].row
      BY <2>1, <2>2, <3>1 DEF ClearedHold
    <3>2. met' = (~saving[c].alone) /\ saving[c].alone \in BOOLEAN
      BY <2>1 DEF AddressesKnown
    <3> QED BY <3>1, <3>2 DEF SameDefault
  <2>5. ClearedHold'
    BY <2>1 DEF ClearedHold, AddressesKnown
  <2> QED BY <2>3, <2>4, <2>5
<1>8. ASSUME NEW address \in addresses, TheAddresses!DeleteAddress(address)
      PROVE  AddressInv'
  BY <1>8 DEF TheAddresses!DeleteAddress, AddressesKnown, ClearedHold, SameDefault
<1>9. ASSUME NEW c \in Requests, TheAddresses!Refuse(c)
      PROVE  AddressInv'
  BY <1>9 DEF TheAddresses!Refuse, AddressesKnown, ClearedHold, SameDefault
<1> QED BY <1>1, <1>3, <1>4, <1>5, <1>6, <1>7, <1>8, <1>9 DEF TheAddresses!Next

\* A set whose members are all the same has one at most.
LEMMA OneAtMost ==
  ASSUME NEW S, \A x, y \in S : x = y
  PROVE  TheAddresses!Cardinality(S) <= 1
<1>1. TheAddresses!Cardinality(S) = Cardinality(S)
  BY DEF TheAddresses!Cardinality, Cardinality
<1>2. CASE S = {}
  BY <1>1, <1>2, FS_EmptySet
<1>3. ASSUME NEW x \in S PROVE Cardinality(S) = 1
  <2>1. S = {x}
    BY <1>3
  <2> QED BY <2>1, FS_Singleton
<1> QED BY <1>1, <1>2, <1>3

\* A user has one default address at most, unless the last two requests that
\* made one met between the two statements of Address.save: a request that is
\* alone there has cleared every other default, and none comes in between.
THEOREM DefaultIsOne == Spec => []OneDefault
<1>1. AddressInv => OneDefault
  <2> SUFFICES ASSUME AddressInv, ~met PROVE OneDefault
    BY DEF OneDefault, TheAddresses!OneDefault
  <2>1. \A a, b \in TheAddresses!Defaults(addresses) : a = b
    BY DEF TheAddresses!Defaults, AddressInv, SameDefault
  <2> QED BY <2>1, OneAtMost DEF OneDefault, TheAddresses!OneDefault
<1> QED BY <1>1, AddressInit, AddressStep, AddressKept, PTL DEF Spec

-----------------------------------------------------------------------------
\* Notifications.

\* What remains of a sequence, and what is added to it.
LEMMA TailProperties ==
  ASSUME NEW S, NEW s \in Seq(S), s # << >>
  PROVE  /\ Len(s) \in Nat /\ 1 \in 1..Len(s) /\ Head(s) = s[1] /\ Head(s) \in S
         /\ Tail(s) \in Seq(S) /\ Len(Tail(s)) = Len(s) - 1
         /\ \A i \in 1..Len(Tail(s)) : i + 1 \in 1..Len(s) /\ Tail(s)[i] = s[i + 1]
OBVIOUS

LEMMA AppendProperties ==
  ASSUME NEW S, NEW s \in Seq(S), NEW x \in S
  PROVE  /\ Append(s, x) \in Seq(S) /\ Len(Append(s, x)) = Len(s) + 1 /\ Len(s) \in Nat
         /\ \A i \in 1..Len(s) : Append(s, x)[i] = s[i]
         /\ Append(s, x)[Len(s) + 1] = x
OBVIOUS

\* A step of the platform is a step of its notifications, or leaves them alone.
LEMMA NoteStep == [Next]_vars => [TheNotes!Next]_noteVars
<1>1. ASSUME UNCHANGED vars PROVE UNCHANGED noteVars
  BY <1>1 DEF vars, noteVars
<1>2. ASSUME Next PROVE TheNotes!Next \/ UNCHANGED noteVars
  BY <1>2 DEF Next
<1> QED BY <1>1, <1>2

Happenings == {"paid", "pending", "confirmed", "processing", "shipped", "delivered", "cancelled"}
Hook == [kind : {"in_app", "email"}, about : Happenings]
Transaction == [step : {"open", "hooks"}, events : SUBSET Happenings, hooks : Seq(Hook),
                sending : Nat]
Note == [channel : {"in_app", "email"}, about : Happenings,
         status : {"pending", "sent", "read"}, read : BOOLEAN]
Task == [job : {"compose"}, about : Happenings] \cup [job : {"deliver"}, note : Nat]

NotesTyped ==
  /\ order \in Happenings \cup {"none"} /\ order # "paid" /\ happened \subseteq Happenings
  /\ paid \in BOOLEAN /\ (paid <=> "paid" \in happened)
  /\ locks \in [{"order", "payment"} -> Requests \cup {TheNotes!Free}]
  /\ request \in [Requests -> {TheNotes!Idle} \cup Transaction]
  /\ notes \in Seq(Note) /\ queue \in Seq(Task)
  /\ DOMAIN celery = CeleryWorkers
  /\ \A w \in CeleryWorkers :
       celery[w].step = "publish" => celery[w].note \in Nat

Under(r, step) == request[r].step = step

\* How far an order is in each status: it never comes back to one.
Age == [none |-> 0, pending |-> 1, confirmed |-> 2, processing |-> 3,
        shipped |-> 4, delivered |-> 5, cancelled |-> 6]

\* A transaction that is open is going to commit something new, and has locked
\* what that depends on; what was committed happened once.
EventsHold ==
  /\ \A past \in happened \ {"paid"} : Age[past] <= Age[order]
  /\ \A r \in Requests : Under(r, "open") =>
       \/ \E next \in TheNotes!OrderStatusTransitions[order] :
            request[r].events = {next} /\ locks["order"] = r
       \/ /\ request[r].events = {"paid", "confirmed"} /\ order = "pending" /\ ~paid
          /\ locks["order"] = r /\ locks["payment"] = r
       \/ request[r].events = {"paid"} /\ ~paid /\ locks["payment"] = r
  /\ \A r \in Requests : Under(r, "hooks") => request[r].events \subseteq happened
  /\ \A r, q \in Requests : r # q /\ Under(r, "hooks") /\ Under(q, "hooks") =>
       request[r].events \cap request[q].events = {}

\* The callbacks of a transaction are about what it commits, each once.
HooksHold ==
  \A r \in Requests : request[r] # TheNotes!Idle =>
    /\ \A i \in 1..Len(request[r].hooks) : request[r].hooks[i].about \in request[r].events
    /\ \A i, j \in 1..Len(request[r].hooks) :
         request[r].hooks[i] = request[r].hooks[j] => i = j
    /\ Under(r, "open") => request[r].sending = 0

NoNote(channel, about) ==
  \A i \in 1..Len(notes) : ~(notes[i].channel = channel /\ notes[i].about = about)
NoTask(about) == \A i \in 1..Len(queue) : ~(queue[i].job = "compose" /\ queue[i].about = about)
NoWork(about) ==
  \A w \in CeleryWorkers : ~(celery[w].step = "compose" /\ celery[w].about = about)

\* For every notification there is one callback that is still to run, or one
\* task, or one worker at it, or one row.
NotesUnique ==
  /\ \A i \in 1..Len(notes) : notes[i].about \in happened
  /\ \A i, j \in 1..Len(notes) :
       notes[i].about = notes[j].about /\ notes[i].channel = notes[j].channel => i = j
CallbackUnique(r, i) ==
  /\ request[r].hooks[i].kind = "in_app" /\ ~(i = 1 /\ request[r].sending # 0) =>
       NoNote("in_app", request[r].hooks[i].about)
  /\ request[r].hooks[i].kind = "email" =>
       /\ NoNote("email", request[r].hooks[i].about)
       /\ NoTask(request[r].hooks[i].about) /\ NoWork(request[r].hooks[i].about)
CallbacksUnique ==
  \A r \in Requests : Under(r, "hooks") =>
    \A i \in 1..Len(request[r].hooks) : CallbackUnique(r, i)
TasksUnique ==
  \A i \in 1..Len(queue) : queue[i].job = "compose" =>
    /\ queue[i].about \in happened
    /\ NoNote("email", queue[i].about) /\ NoWork(queue[i].about)
    /\ \A j \in 1..Len(queue) :
         queue[j].job = "compose" /\ queue[j].about = queue[i].about => i = j
WorkUnique ==
  \A w \in CeleryWorkers : celery[w].step = "compose" =>
    /\ celery[w].about \in happened /\ NoNote("email", celery[w].about)
    /\ \A v \in CeleryWorkers :
         celery[v].step = "compose" /\ celery[v].about = celery[w].about => v = w

NoteInv ==
  /\ NotesTyped /\ EventsHold /\ HooksHold
  /\ NotesUnique /\ CallbacksUnique /\ TasksUnique /\ WorkUnique

LEMMA NoteInit == Init => NoteInv
<1> SUFFICES ASSUME Init PROVE NoteInv
  OBVIOUS
<1>1. /\ order = "none" /\ paid = FALSE /\ happened = {}
      /\ locks = [order |-> TheNotes!Free, payment |-> TheNotes!Free]
      /\ request = [r \in Requests |-> TheNotes!Idle]
      /\ notes = << >> /\ queue = << >> /\ celery = [w \in CeleryWorkers |-> TheNotes!Idle]
  BY DEF Init, TheNotes!Init
<1>2. NotesTyped
  <2>1. notes \in Seq(Note) /\ queue \in Seq(Task)
    BY <1>1
  <2>2. locks \in [{"order", "payment"} -> Requests \cup {TheNotes!Free}]
    BY <1>1
  <2> QED BY <1>1, <2>1, <2>2 DEF NotesTyped, TheNotes!Idle
<1>3. EventsHold /\ HooksHold
  BY <1>1 DEF EventsHold, HooksHold, Under, TheNotes!Idle
<1>4. NotesUnique /\ CallbacksUnique /\ TasksUnique /\ WorkUnique
  BY <1>1 DEF NotesUnique, CallbacksUnique, TasksUnique, WorkUnique, Under, TheNotes!Idle
<1> QED BY <1>2, <1>3, <1>4 DEF NoteInv

\* A transaction begins: it has the rows it depends on to itself.
LEMMA OpenStep ==
  ASSUME NoteInv, NEW r \in Requests,
         NEW rows \in SUBSET {"order", "payment"}, NEW events \in SUBSET Happenings,
         NEW hooks \in Seq(Hook),
         \A i \in 1..Len(hooks) : hooks[i].about \in events,
         \A i, j \in 1..Len(hooks) : hooks[i] = hooks[j] => i = j,
         \/ \E next \in TheNotes!OrderStatusTransitions[order] :
              events = {next} /\ rows = {"order"}
         \/ /\ events = {"paid", "confirmed"} /\ order = "pending" /\ ~paid
            /\ rows = {"order", "payment"}
         \/ events = {"paid"} /\ ~paid /\ rows = {"payment"},
         TheNotes!Open(r, rows, events, hooks)
  PROVE  NoteInv'
<1> DEFINE new == [step |-> "open", events |-> events, hooks |-> hooks, sending |-> 0]
<1>1. /\ request[r] = TheNotes!Idle
      /\ \A table_ \in rows : locks[table_] = TheNotes!Free
      /\ locks' = [table_ \in DOMAIN locks |-> IF table_ \in rows THEN r ELSE locks[table_]]
      /\ request' = [request EXCEPT ![r] = new]
      /\ UNCHANGED <<order, paid, notes, queue, celery, happened>>
  BY DEF TheNotes!Open
<1>2. new \in Transaction /\ new.step = "open" /\ new.events = events /\ new.hooks = hooks
      /\ new.sending = 0
  BY DEF Transaction
<1> HIDE DEF new
<1>3. /\ request'[r] = new
      /\ \A q \in Requests \ {r} : request'[q] = request[q]
  BY <1>1 DEF NoteInv, NotesTyped
<1>4. NotesTyped'
  BY <1>1, <1>2 DEF NoteInv, NotesTyped
<1>5. EventsHold'
  <2>1. ASSUME NEW q \in Requests, Under(q, "open")'
        PROVE  \/ \E next \in TheNotes!OrderStatusTransitions[order'] :
                    request'[q].events = {next} /\ locks'["order"] = q
               \/ /\ request'[q].events = {"paid", "confirmed"} /\ order' = "pending" /\ ~paid'
                  /\ locks'["order"] = q /\ locks'["payment"] = q
               \/ request'[q].events = {"paid"} /\ ~paid' /\ locks'["payment"] = q
    <3>1. CASE q = r
      BY <1>1, <1>2, <1>3, <3>1 DEF NoteInv, NotesTyped
    <3>2. CASE q # r
      <4>1. \A table_ \in {"order", "payment"} : locks[table_] = q => locks'[table_] = q
        BY <1>1, RequestsAssumption DEF NoteInv, NotesTyped, TheNotes!Free
      <4> QED BY <1>1, <1>3, <2>1, <3>2, <4>1 DEF NoteInv, EventsHold, Under
    <3> QED BY <3>1, <3>2
  <2>2. \A q \in Requests : Under(q, "hooks")' => q # r /\ Under(q, "hooks")
    BY <1>2, <1>3 DEF Under
  <2> QED BY <1>1, <1>3, <2>1, <2>2, SMTT(30) DEF NoteInv, EventsHold, Under
<1>6. HooksHold'
  BY <1>1, <1>2, <1>3 DEF NoteInv, HooksHold, Under
<1>7. NotesUnique' /\ TasksUnique' /\ WorkUnique'
  BY <1>1 DEF NoteInv, NotesUnique, TasksUnique, WorkUnique, NoNote, NoWork
<1>8. CallbacksUnique'
  <2>1. \A q \in Requests : Under(q, "hooks")' => Under(q, "hooks") /\ request'[q] = request[q]
    BY <1>2, <1>3 DEF Under
  <2>2. ASSUME NEW q \in Requests, Under(q, "hooks")', NEW i \in 1..Len(request'[q].hooks)
        PROVE  CallbackUnique(q, i)'
    <3>1. CallbackUnique(q, i) /\ request'[q] = request[q]
      BY <2>1, <2>2 DEF NoteInv, CallbacksUnique
    <3> QED BY <1>1, <3>1 DEF CallbackUnique, NoNote, NoTask, NoWork
  <2> QED BY <2>2 DEF CallbacksUnique
<1> QED BY <1>4, <1>5, <1>6, <1>7, <1>8 DEF NoteInv

LEMMA TransactionsStep ==
  ASSUME NoteInv, NEW r \in Requests,
         \/ \E next \in DOMAIN TheNotes!OrderStatusTransitions : TheNotes!ChangeStatus(r, next)
         \/ TheNotes!PayAndConfirm(r) \/ TheNotes!PayOnly(r)
  PROVE  NoteInv'
<1> USE DEF TheNotes!InApp, TheNotes!Email, TheNotes!StatusHooks, Hook, Happenings
<1>1. ASSUME NEW next \in DOMAIN TheNotes!OrderStatusTransitions, TheNotes!ChangeStatus(r, next)
      PROVE  NoteInv'
  <2> DEFINE hooks == TheNotes!StatusHooks(next)
  <2>1. next \in TheNotes!OrderStatusTransitions[order]
        /\ TheNotes!Open(r, {"order"}, {next}, hooks)
    BY <1>1 DEF TheNotes!ChangeStatus
  <2>2. {next} \in SUBSET Happenings
    BY <2>1 DEF NoteInv, NotesTyped, TheNotes!OrderStatusTransitions
  <2>3. /\ hooks \in Seq(Hook)
        /\ \A i \in 1..Len(hooks) : hooks[i].about \in {next}
        /\ \A i, j \in 1..Len(hooks) : hooks[i] = hooks[j] => i = j
    <3>1. CASE next \in {"confirmed", "shipped"}
      <4>1. /\ hooks \in Seq(Hook) /\ Len(hooks) = 2
            /\ hooks[1] = [kind |-> "in_app", about |-> next]
            /\ hooks[2] = [kind |-> "email", about |-> next]
        BY <3>1
      <4> HIDE DEF hooks
      <4> QED BY <4>1
    <3>2. CASE next \in {"pending", "delivered", "cancelled"}
      <4>1. /\ hooks \in Seq(Hook) /\ Len(hooks) = 1
            /\ hooks[1] = [kind |-> "in_app", about |-> next]
        <5>1. hooks = <<[kind |-> "in_app", about |-> next]>>
          BY <3>2
        <5>2. [kind |-> "in_app", about |-> next] \in Hook
          BY <3>2
        <5> HIDE DEF hooks
        <5> QED BY <5>1, <5>2
      <4> HIDE DEF hooks
      <4> QED BY <4>1
    <3>3. CASE next \notin {"confirmed", "shipped", "pending", "delivered", "cancelled"}
      <4>1. hooks = << >> /\ hooks \in Seq(Hook) /\ Len(hooks) = 0
        BY <3>3
      <4> HIDE DEF hooks
      <4> QED BY <4>1
    <3> QED BY <3>1, <3>2, <3>3
  <2> HIDE DEF hooks
  <2> QED BY <2>1, <2>2, <2>3, OpenStep
<1>2. CASE TheNotes!PayAndConfirm(r)
  <2> DEFINE hooks == <<TheNotes!InApp("paid")>> \o TheNotes!StatusHooks("confirmed")
  <2>1. /\ ~paid /\ order = "pending"
        /\ TheNotes!Open(r, {"order", "payment"}, {"paid", "confirmed"}, hooks)
    BY <1>2 DEF TheNotes!PayAndConfirm
  <2>2. /\ hooks \in Seq(Hook) /\ Len(hooks) = 3
        /\ hooks[1] = [kind |-> "in_app", about |-> "paid"]
        /\ hooks[2] = [kind |-> "in_app", about |-> "confirmed"]
        /\ hooks[3] = [kind |-> "email", about |-> "confirmed"]
    OBVIOUS
  <2> HIDE DEF hooks
  <2>3. /\ hooks \in Seq(Hook)
        /\ \A i \in 1..Len(hooks) : hooks[i].about \in {"paid", "confirmed"}
        /\ \A i, j \in 1..Len(hooks) : hooks[i] = hooks[j] => i = j
    BY <2>2
  <2> HIDE DEF hooks
  <2> QED BY <2>1, <2>3, OpenStep
<1>3. CASE TheNotes!PayOnly(r)
  <2> DEFINE hooks == <<TheNotes!InApp("paid")>>
  <2>1. ~paid /\ TheNotes!Open(r, {"payment"}, {"paid"}, hooks)
    BY <1>3 DEF TheNotes!PayOnly
  <2>2. hooks \in Seq(Hook) /\ Len(hooks) = 1
        /\ hooks[1] = [kind |-> "in_app", about |-> "paid"]
    OBVIOUS
  <2> HIDE DEF hooks
  <2>3. /\ \A i \in 1..Len(hooks) : hooks[i].about \in {"paid"}
        /\ \A i, j \in 1..Len(hooks) : hooks[i] = hooks[j] => i = j
    BY <2>2
  <2> QED BY <2>1, <2>2, <2>3, OpenStep
<1> QED BY <1>1, <1>2, <1>3

\* COMMIT: what happens now had not happened, and nobody was told of it.
LEMMA CommitStep ==
  ASSUME NoteInv, NEW r \in Requests, TheNotes!Commit(r)
  PROVE  NoteInv'
<1> DEFINE events == request[r].events
           new == [request[r] EXCEPT !.step = "hooks"]
<1>1. /\ Under(r, "open") /\ request[r] \in Transaction
      /\ order' = IF events \subseteq {"paid"} THEN order
                  ELSE CHOOSE next \in events \ {"paid"} : TRUE
      /\ paid' = (paid \/ "paid" \in events)
      /\ happened' = happened \cup events
      /\ request' = [request EXCEPT ![r] = new]
      /\ locks' = [table_ \in DOMAIN locks |->
                     IF locks[table_] = r THEN TheNotes!Free ELSE locks[table_]]
      /\ UNCHANGED <<notes, queue, celery>>
  <2>1. request[r].step = "open"
    BY DEF TheNotes!Commit
  <2>2. request[r] \in Transaction
    BY <2>1 DEF NoteInv, NotesTyped, TheNotes!Idle
  <2>3. request' = [request EXCEPT ![r] = new]
    BY DEF TheNotes!Commit
  <2> QED BY <2>1, <2>2, <2>3 DEF TheNotes!Commit, TheNotes!Unlocked, Under
<1>2. /\ new \in Transaction /\ new.step = "hooks" /\ new.events = events
      /\ new.hooks = request[r].hooks /\ new.sending = request[r].sending
  BY <1>1 DEF Transaction
<1> HIDE DEF new
<1>3. request'[r] = new /\ \A q \in Requests \ {r} : request'[q] = request[q]
  BY <1>1 DEF NoteInv, NotesTyped
<1>4. \/ \E next \in TheNotes!OrderStatusTransitions[order] :
           events = {next} /\ locks["order"] = r
      \/ /\ events = {"paid", "confirmed"} /\ order = "pending" /\ ~paid
         /\ locks["order"] = r /\ locks["payment"] = r
      \/ events = {"paid"} /\ ~paid /\ locks["payment"] = r
  BY <1>1 DEF NoteInv, EventsHold
<1>5. \/ /\ order' # order /\ locks["order"] = r
         /\ order' \in TheNotes!OrderStatusTransitions[order]
         /\ \/ events = {order'}
            \/ events = {"paid", order'} /\ ~paid /\ locks["payment"] = r
      \/ order' = order /\ events = {"paid"} /\ ~paid /\ locks["payment"] = r
  <2>1. ASSUME NEW next \in TheNotes!OrderStatusTransitions[order], events = {next}
        PROVE  order' = next /\ next # order /\ next # "paid"
    <3>1. next # "paid" /\ next # order
      BY <2>1 DEF NoteInv, NotesTyped, TheNotes!OrderStatusTransitions, Happenings
    <3>2. events \ {"paid"} = {next}
      BY <2>1, <3>1
    <3> QED BY <1>1, <3>1, <3>2
  <2>2. ASSUME events = {"paid", "confirmed"} PROVE order' = "confirmed"
    <3>1. events \ {"paid"} = {"confirmed"}
      BY <2>2
    <3> QED BY <1>1, <3>1
  <2>3. "confirmed" \in TheNotes!OrderStatusTransitions["pending"]
    BY DEF TheNotes!OrderStatusTransitions
  <2> QED BY <1>1, <1>4, <2>1, <2>2, <2>3
<1>6. order' = order \/ (order' \in Happenings \ {"paid"} /\ Age[order] < Age[order'])
  BY <1>5 DEF NoteInv, NotesTyped, TheNotes!OrderStatusTransitions, Age, Happenings
<1>7. events \cap happened = {} /\ events # {} /\ events \subseteq Happenings
  <2>1. events \subseteq Happenings
    BY <1>1 DEF Transaction
  <2>2. "paid" \in events => "paid" \notin happened
    BY <1>4 DEF NoteInv, NotesTyped, TheNotes!OrderStatusTransitions, Happenings
  <2>3. \A past \in happened \ {"paid"} : past \notin events
    <3>1. order' # order => order' \notin happened
      BY <1>6 DEF NoteInv, EventsHold, Age, NotesTyped, Happenings
    <3> QED BY <1>5, <3>1
  <2> QED BY <1>5, <2>1, <2>2, <2>3
<1>8. NotesTyped'
  <2>1. locks' \in [{"order", "payment"} -> Requests \cup {TheNotes!Free}]
    BY <1>1 DEF NoteInv, NotesTyped
  <2>2. paid' <=> "paid" \in happened'
    BY <1>1 DEF NoteInv, NotesTyped
  <2> QED BY <1>1, <1>2, <1>6, <1>7, <2>1, <2>2 DEF NoteInv, NotesTyped
<1>9. EventsHold'
  <2>1. \A past \in happened' \ {"paid"} : Age[past] <= Age[order']
    <3>1. ASSUME NEW past \in happened \ {"paid"} PROVE Age[past] <= Age[order']
      <4>1. Age[past] <= Age[order] /\ Age[past] \in Int /\ Age[order] \in Int /\ Age[order'] \in Int
        BY <1>6 DEF NoteInv, EventsHold, NotesTyped, Age, Happenings
      <4> QED BY <1>6, <4>1
    <3>2. order' \in events => Age[order'] <= Age[order']
      BY <1>6, <1>7 DEF Age, NoteInv, NotesTyped, Happenings
    <3> QED BY <1>1, <1>5, <3>1, <3>2
  <2>2. ASSUME NEW q \in Requests, Under(q, "open")'
        PROVE  \/ \E next \in TheNotes!OrderStatusTransitions[order'] :
                    request'[q].events = {next} /\ locks'["order"] = q
               \/ /\ request'[q].events = {"paid", "confirmed"} /\ order' = "pending" /\ ~paid'
                  /\ locks'["order"] = q /\ locks'["payment"] = q
               \/ request'[q].events = {"paid"} /\ ~paid' /\ locks'["payment"] = q
    <3>1. q # r /\ request'[q] = request[q] /\ Under(q, "open")
      BY <1>2, <1>3, <2>2 DEF Under
    <3>2. \A table_ \in {"order", "payment"} : locks[table_] = q => locks'[table_] = q
      BY <1>1, <3>1 DEF NoteInv, NotesTyped
    <3>3. locks["order"] = q => order' = order
      BY <1>5, <3>1
    <3>4. locks["payment"] = q /\ ~paid => ~paid'
      <4>1. locks["payment"] # q \/ "paid" \notin events
        BY <1>5, <1>6, <3>1
      <4> QED BY <1>1, <4>1
    <3> QED BY <3>1, <3>2, <3>3, <3>4 DEF NoteInv, EventsHold
  <2>3. \A q \in Requests : Under(q, "hooks")' => q = r \/ Under(q, "hooks")
    BY <1>3 DEF Under
  <2>4. \A q \in Requests : Under(q, "hooks")' => request'[q].events \subseteq happened'
    BY <1>1, <1>2, <1>3, <2>3 DEF NoteInv, EventsHold
  <2>5. \A p, q \in Requests : p # q /\ Under(p, "hooks")' /\ Under(q, "hooks")' =>
          request'[p].events \cap request'[q].events = {}
    <3>1. \A q \in Requests \ {r} : Under(q, "hooks")' =>
            Under(q, "hooks") /\ request'[q].events \subseteq happened
      BY <1>3, <2>3 DEF NoteInv, EventsHold
    <3> QED BY <1>2, <1>3, <1>7, <3>1 DEF NoteInv, EventsHold
  <2> QED BY <2>1, <2>2, <2>4, <2>5 DEF EventsHold
<1>10. HooksHold'
  <2>1. request[r] # TheNotes!Idle
    BY <1>1 DEF Under, TheNotes!Idle
  <2> QED BY <1>1, <1>2, <1>3, <2>1 DEF NoteInv, HooksHold, Under
<1>11. NotesUnique' /\ TasksUnique' /\ WorkUnique'
  BY <1>1 DEF NoteInv, NotesUnique, TasksUnique, WorkUnique, NoNote, NoWork
<1>12. CallbacksUnique'
  <2>1. ASSUME NEW about \in events
        PROVE  (NoNote("in_app", about) /\ NoNote("email", about) /\ NoTask(about) /\ NoWork(about))'
    <3>1. about \notin happened
      BY <1>7
    <3> QED BY <1>1, <3>1 DEF NoteInv, NotesUnique, TasksUnique, WorkUnique, NoNote, NoTask, NoWork
  <2>2. \A i \in 1..Len(new.hooks) : new.hooks[i].about \in events
    <3>1. request[r] # TheNotes!Idle
      BY <1>1 DEF Under, TheNotes!Idle
    <3> QED BY <1>2, <3>1 DEF NoteInv, HooksHold
  <2>3. ASSUME NEW q \in Requests, Under(q, "hooks")', NEW i \in 1..Len(request'[q].hooks)
        PROVE  CallbackUnique(q, i)'
    <3>1. CASE q = r
      <4>1. PICK about \in events : about = request'[r].hooks[i].about
        BY <1>3, <2>2, <2>3, <3>1
      <4> QED BY <2>1, <3>1, <4>1 DEF CallbackUnique
    <3>2. CASE q # r
      <4>1. Under(q, "hooks") /\ request'[q] = request[q]
        BY <1>3, <2>3, <3>2 DEF Under
      <4>2. CallbackUnique(q, i)
        BY <2>3, <4>1 DEF NoteInv, CallbacksUnique
      <4> QED BY <1>1, <4>1, <4>2 DEF CallbackUnique, NoNote, NoTask, NoWork
    <3> QED BY <3>1, <3>2
  <2> QED BY <2>3 DEF CallbacksUnique
<1> QED BY <1>8, <1>9, <1>10, <1>11, <1>12 DEF NoteInv

\* ROLLBACK, and the end of the callbacks.
LEMMA GoneStep ==
  ASSUME NoteInv, NEW r \in Requests, TheNotes!Rollback(r) \/ TheNotes!Leave(r)
  PROVE  NoteInv'
<1>1. /\ request' = [request EXCEPT ![r] = TheNotes!Idle]
      /\ \A table_ \in {"order", "payment"} :
           locks'[table_] = locks[table_] \/ locks[table_] = r
      /\ locks' \in [{"order", "payment"} -> Requests \cup {TheNotes!Free}]
      /\ UNCHANGED <<order, paid, notes, queue, celery, happened>>
  BY DEF TheNotes!Rollback, TheNotes!Leave, TheNotes!Unlocked, NoteInv, NotesTyped
<1>2. /\ request'[r] = TheNotes!Idle
      /\ \A q \in Requests \ {r} : request'[q] = request[q]
  BY <1>1 DEF NoteInv, NotesTyped
<1>3. NotesTyped'
  BY <1>1 DEF NoteInv, NotesTyped
<1>4. \A q \in Requests : Under(q, "open")' \/ Under(q, "hooks")' =>
        q # r /\ request'[q] = request[q]
  BY <1>2 DEF Under, TheNotes!Idle
<1>5. EventsHold'
  BY <1>1, <1>4 DEF NoteInv, EventsHold, Under, NotesTyped
<1>6. HooksHold'
  BY <1>1, <1>2 DEF NoteInv, HooksHold, Under
<1>7. NotesUnique' /\ TasksUnique' /\ WorkUnique'
  BY <1>1 DEF NoteInv, NotesUnique, TasksUnique, WorkUnique, NoNote, NoWork
<1>8. ASSUME NEW q \in Requests, Under(q, "hooks")', NEW i \in 1..Len(request'[q].hooks)
      PROVE  CallbackUnique(q, i)'
  <2>1. CallbackUnique(q, i) /\ request'[q] = request[q]
    BY <1>4, <1>8 DEF NoteInv, CallbacksUnique, Under
  <2> QED BY <1>1, <2>1 DEF CallbackUnique, NoNote, NoTask, NoWork
<1> QED BY <1>3, <1>5, <1>6, <1>7, <1>8 DEF NoteInv, CallbacksUnique

\* A request that goes on with its callbacks: what it changes of itself.
LEMMA CallbacksKept ==
  ASSUME NoteInv, NEW r \in Requests, Under(r, "hooks"), NEW new \in Transaction,
         new.step = "hooks", new.events = request[r].events,
         \A i \in 1..Len(new.hooks) : new.hooks[i].about \in new.events,
         \A i, j \in 1..Len(new.hooks) : new.hooks[i] = new.hooks[j] => i = j,
         request' = [request EXCEPT ![r] = new],
         notes' \in Seq(Note), queue' \in Seq(Task),
         UNCHANGED <<order, paid, locks, happened, celery>>
  PROVE  /\ NotesTyped' /\ EventsHold' /\ HooksHold'
         /\ request'[r] = new /\ \A q \in Requests \ {r} : request'[q] = request[q]
<1>1. request'[r] = new /\ \A q \in Requests \ {r} : request'[q] = request[q]
  BY DEF NoteInv, NotesTyped
<1>2. NotesTyped'
  BY DEF NoteInv, NotesTyped
<1>3. \A q \in Requests : /\ Under(q, "open")' => Under(q, "open") /\ request'[q] = request[q]
                          /\ Under(q, "hooks")' => Under(q, "hooks")
                          /\ Under(q, "hooks")' => request'[q].events = request[q].events
  BY <1>1 DEF Under
<1>4. EventsHold'
  <2>1. /\ \A past \in happened' \ {"paid"} : Age[past] <= Age[order']
        /\ \A q \in Requests : Under(q, "hooks")' => request'[q].events \subseteq happened'
        /\ \A p, q \in Requests : p # q /\ Under(p, "hooks")' /\ Under(q, "hooks")' =>
             request'[p].events \cap request'[q].events = {}
    BY <1>3 DEF NoteInv, EventsHold
  <2>2. ASSUME NEW q \in Requests, Under(q, "open")'
        PROVE  \/ \E next \in TheNotes!OrderStatusTransitions[order'] :
                    request'[q].events = {next} /\ locks'["order"] = q
               \/ /\ request'[q].events = {"paid", "confirmed"} /\ order' = "pending" /\ ~paid'
                  /\ locks'["order"] = q /\ locks'["payment"] = q
               \/ request'[q].events = {"paid"} /\ ~paid' /\ locks'["payment"] = q
    <3>1. Under(q, "open") /\ request'[q] = request[q]
      BY <1>3, <2>2
    <3>2. \/ \E next \in TheNotes!OrderStatusTransitions[order] :
                request[q].events = {next} /\ locks["order"] = q
          \/ /\ request[q].events = {"paid", "confirmed"} /\ order = "pending" /\ ~paid
             /\ locks["order"] = q /\ locks["payment"] = q
          \/ request[q].events = {"paid"} /\ ~paid /\ locks["payment"] = q
      BY <3>1 DEF NoteInv, EventsHold
    <3> QED BY <3>1, <3>2
  <2> QED BY <2>1, <2>2 DEF EventsHold
<1>5. HooksHold'
  BY <1>1 DEF NoteInv, HooksHold, Under
<1> QED BY <1>1, <1>2, <1>4, <1>5

\* What the callbacks of one request are about no callback of another is about.
LEMMA CallbacksApart ==
  ASSUME NoteInv, NEW r \in Requests, NEW q \in Requests, r # q,
         Under(r, "hooks"), Under(q, "hooks"),
         NEW i \in 1..Len(request[r].hooks), NEW j \in 1..Len(request[q].hooks)
  PROVE  request[r].hooks[i].about # request[q].hooks[j].about
<1>1. request[r] # TheNotes!Idle /\ request[q] # TheNotes!Idle
  BY DEF Under, TheNotes!Idle
<1>2. /\ request[r].hooks[i].about \in request[r].events
      /\ request[q].hooks[j].about \in request[q].events
  BY <1>1 DEF NoteInv, HooksHold
<1> QED BY <1>2 DEF NoteInv, EventsHold

\* What a request changes of itself while it runs its callbacks.
LEMMA Advanced ==
  ASSUME NEW x \in Transaction, NEW rest \in Seq(Hook), NEW new, new = [x EXCEPT !.hooks = rest]
  PROVE  /\ new \in Transaction /\ new.step = x.step /\ new.events = x.events
         /\ new.hooks = rest
BY DEF Transaction

LEMMA Noted ==
  ASSUME NEW x \in Transaction, NEW n \in Nat, NEW new, new = [x EXCEPT !.sending = n]
  PROVE  /\ new \in Transaction /\ new.step = x.step /\ new.events = x.events
         /\ new.hooks = x.hooks /\ new.sending = n
BY DEF Transaction

\* The first callback is over, run or not.
LEMMA NextHookStep ==
  ASSUME NoteInv, NEW r \in Requests, Under(r, "hooks"), request[r].hooks # << >>,
         TheNotes!NextHook(r)
  PROVE  LET hooks == request[r].hooks
         IN /\ request[r] \in Transaction /\ hooks \in Seq(Hook)
            /\ request' = [request EXCEPT ![r] = request'[r]] /\ request'[r] \in Transaction
            /\ request'[r].step = "hooks" /\ request'[r].events = request[r].events
            /\ request'[r].hooks = Tail(hooks) /\ request'[r].sending = 0
            /\ Tail(hooks) \in Seq(Hook)
            /\ Head(hooks) = hooks[1] /\ Head(hooks) \in Hook
            /\ Len(hooks) \in Nat /\ 1 \in 1..Len(hooks)
            /\ \A i \in 1..Len(Tail(hooks)) :
                 i + 1 \in 1..Len(hooks) /\ Tail(hooks)[i] = hooks[i + 1]
            /\ \A i \in 1..Len(Tail(hooks)) : Tail(hooks)[i].about \in request[r].events
            /\ \A i, j \in 1..Len(Tail(hooks)) : Tail(hooks)[i] = Tail(hooks)[j] => i = j
            /\ \A i \in 1..Len(Tail(hooks)) : Tail(hooks)[i] # Head(hooks)
<1> DEFINE hooks == request[r].hooks
<1>1. request[r] \in Transaction /\ request[r] # TheNotes!Idle
  BY DEF NoteInv, NotesTyped, Under, TheNotes!Idle
<1>2. hooks \in Seq(Hook)
  BY <1>1 DEF Transaction
<1>3. /\ Tail(hooks) \in Seq(Hook) /\ Len(hooks) \in Nat /\ 1 \in 1..Len(hooks)
      /\ Head(hooks) = hooks[1] /\ Head(hooks) \in Hook /\ Len(Tail(hooks)) = Len(hooks) - 1
      /\ \A i \in 1..Len(Tail(hooks)) : i + 1 \in 1..Len(hooks) /\ Tail(hooks)[i] = hooks[i + 1]
  BY <1>2, TailProperties
<1>4. /\ request' = [request EXCEPT ![r] = request'[r]] /\ request'[r] \in Transaction
      /\ request'[r].step = "hooks" /\ request'[r].events = request[r].events
      /\ request'[r].hooks = Tail(hooks) /\ request'[r].sending = 0
  <2>1. PICK rest \in Seq(Hook) : rest = Tail(hooks)
    BY <1>3
  <2> PICK left : left = [request[r] EXCEPT !.hooks = rest]
    OBVIOUS
  <2> PICK new : new = [left EXCEPT !.sending = 0]
    OBVIOUS
  <2>2. request' = [request EXCEPT ![r] = new]
    BY <2>1 DEF TheNotes!NextHook, NoteInv, NotesTyped
  <2>3. left \in Transaction /\ left.step = "hooks" /\ left.events = request[r].events
        /\ left.hooks = rest
    BY <1>1, Advanced DEF Under
  <2>4. /\ new \in Transaction /\ new.step = "hooks" /\ new.events = request[r].events
        /\ new.hooks = rest /\ new.sending = 0
    <3>1. 0 \in Nat /\ left \in Transaction
      BY <2>3
    <3>2. /\ new \in Transaction /\ new.step = left.step /\ new.events = left.events
          /\ new.hooks = left.hooks /\ new.sending = 0
      BY <3>1 DEF Transaction
    <3> QED BY <2>3, <3>2
  <2>5. request'[r] = new
    BY <2>2 DEF NoteInv, NotesTyped
  <2> QED BY <2>1, <2>2, <2>4, <2>5
<1>5. /\ \A i \in 1..Len(hooks) : hooks[i].about \in request[r].events
      /\ \A i, j \in 1..Len(hooks) : hooks[i] = hooks[j] => i = j
  BY <1>1 DEF NoteInv, HooksHold
<1> HIDE DEF hooks
<1>6. /\ \A i \in 1..Len(Tail(hooks)) : Tail(hooks)[i].about \in request[r].events
      /\ \A i, j \in 1..Len(Tail(hooks)) : Tail(hooks)[i] = Tail(hooks)[j] => i = j
      /\ \A i \in 1..Len(Tail(hooks)) : Tail(hooks)[i] # Head(hooks)
  BY <1>3, <1>5
<1> QED BY <1>1, <1>2, <1>3, <1>4, <1>6 DEF hooks

\* Notes that are marked are about what they were about, and read if they were.
LEMMA Marked ==
  ASSUME NEW s \in Seq(Note), NEW new, DOMAIN new = 1..Len(s), new = [j \in 1..Len(s) |-> new[j]],
         \A j \in 1..Len(s) : \/ new[j] = s[j] \/ new[j] = [s[j] EXCEPT !.status = "sent"]
                              \/ new[j] = TheNotes!Read(s[j])
  PROVE  /\ new \in Seq(Note) /\ Len(new) = Len(s)
         /\ \A j \in 1..Len(s) : new[j].about = s[j].about /\ new[j].channel = s[j].channel
                                  /\ (s[j].read => new[j].read)
<1>1. \A j \in 1..Len(s) : s[j] \in Note
  OBVIOUS
<1>2. ASSUME NEW note \in Note, NEW m, m = [note EXCEPT !.status = "sent"]
      PROVE  /\ m \in Note /\ m.about = note.about
             /\ m.channel = note.channel /\ m.read = note.read
  BY <1>2 DEF Note
<1>3. ASSUME NEW note \in Note, NEW m, m = TheNotes!Read(note)
      PROVE  /\ m \in Note /\ m.about = note.about
             /\ m.channel = note.channel /\ (note.read => m.read)
  <2>1. CASE note.read
    <3>1. m = note
      BY <1>3, <2>1, Zenon DEF TheNotes!Read
    <3> QED BY <2>1, <3>1
  <2>2. CASE ~note.read
    <3>1. m = [note EXCEPT !.read = TRUE, !.status = "read"]
      BY <1>3, <2>2, Zenon DEF TheNotes!Read
    <3>2. PICK known : known = [note EXCEPT !.read = TRUE]
      OBVIOUS
    <3>3. m = [known EXCEPT !.status = "read"]
      BY <3>1, <3>2, Zenon
    <3>4. known \in Note /\ known.about = note.about /\ known.channel = note.channel /\ known.read
      BY <3>2 DEF Note
    <3> QED BY <3>3, <3>4 DEF Note
  <2> QED BY <2>1, <2>2
<1>4. \A j \in 1..Len(s) : /\ new[j] \in Note /\ new[j].about = s[j].about
                            /\ new[j].channel = s[j].channel /\ (s[j].read => new[j].read)
  BY <1>1, <1>2, <1>3
<1>5. new \in [1..Len(s) -> Note] /\ Len(s) \in Nat
  BY <1>4
<1> QED BY <1>4, <1>5

\* A note that is marked as sent.
LEMMA Sent ==
  ASSUME notes \in Seq(Note), NEW k, notes' = [notes EXCEPT ![k].status = "sent"]
  PROVE  /\ notes' \in Seq(Note) /\ Len(notes') = Len(notes)
         /\ \A j \in 1..Len(notes) : /\ notes'[j].about = notes[j].about
                                      /\ notes'[j].channel = notes[j].channel
                                      /\ (notes[j].read => notes'[j].read)
<1>1. PICK sent_ : sent_ = [notes[k] EXCEPT !.status = "sent"]
  OBVIOUS
<1>2. notes' = [notes EXCEPT ![k] = sent_]
  BY <1>1
<1>3. notes' = [j \in 1..Len(notes) |-> IF j = k THEN sent_ ELSE notes[j]]
  <2>1. DOMAIN notes = 1..Len(notes)
    OBVIOUS
  <2>2. [notes EXCEPT ![k] = sent_] = [j \in DOMAIN notes |-> IF j = k THEN sent_ ELSE notes[j]]
    BY Zenon
  <2> QED BY <1>2, <2>1, <2>2, Zenon
<1>4. \A j \in 1..Len(notes) : notes'[j] = IF j = k THEN sent_ ELSE notes[j]
  BY <1>3
<1>5. \A j \in 1..Len(notes) :
        \/ notes'[j] = notes[j] \/ notes'[j] = [notes[j] EXCEPT !.status = "sent"]
        \/ notes'[j] = TheNotes!Read(notes[j])
  BY <1>1, <1>4
<1>6. PICK new : new = notes'
  OBVIOUS
<1>7. /\ DOMAIN new = 1..Len(notes) /\ new = [j \in 1..Len(notes) |-> new[j]]
      /\ \A j \in 1..Len(notes) :
           \/ new[j] = notes[j] \/ new[j] = [notes[j] EXCEPT !.status = "sent"]
           \/ new[j] = TheNotes!Read(notes[j])
  <2>1. DOMAIN notes' = 1..Len(notes) /\ notes' = [j \in 1..Len(notes) |-> notes'[j]]
    BY <1>3
  <2> QED BY <1>5, <1>6, <2>1, Zenon
<1>8. /\ new \in Seq(Note) /\ Len(new) = Len(notes)
      /\ \A j \in 1..Len(notes) : new[j].about = notes[j].about /\ new[j].channel = notes[j].channel
                                   /\ (notes[j].read => new[j].read)
  BY <1>7, Marked, Zenon
<1> QED BY <1>6, <1>8, Zenon

\* The steps of the callbacks.
LEMMA CallbackStep ==
  ASSUME NoteInv, NEW r \in Requests,
         \/ TheNotes!CreateNote(r) \/ TheNotes!SendNote(r)
         \/ TheNotes!PublishEmail(r) \/ TheNotes!SkipHook(r)
  PROVE  NoteInv'
<1> DEFINE hooks == request[r].hooks
<1>1. Under(r, "hooks") /\ hooks # << >>
  BY DEF TheNotes!CreateNote, TheNotes!SendNote, TheNotes!PublishEmail, TheNotes!SkipHook,
     TheNotes!HookIs, TheNotes!Committed, Under
<1>2. /\ request[r] \in Transaction /\ request[r] # TheNotes!Idle
      /\ notes \in Seq(Note) /\ queue \in Seq(Task)
  BY <1>1 DEF NoteInv, NotesTyped, Under, TheNotes!Idle
<1>3. /\ \A i \in 1..Len(hooks) : hooks[i].about \in request[r].events
      /\ \A i, j \in 1..Len(hooks) : hooks[i] = hooks[j] => i = j
  BY <1>2 DEF NoteInv, HooksHold
<1>4. /\ hooks \in Seq(Hook) /\ 1 \in 1..Len(hooks) /\ Head(hooks) = hooks[1]
      /\ hooks[1] \in Hook /\ Len(hooks) \in Nat
  <2>1. hooks \in Seq(Hook)
    BY <1>2 DEF Transaction
  <2> QED BY <1>1, <2>1, TailProperties
<1>5. hooks[1].about \in happened
  BY <1>1, <1>3, <1>4 DEF NoteInv, EventsHold
\* Of the others no callback is about what the first one of this request is.
<1>6. \A q \in Requests \ {r} : Under(q, "hooks") =>
        \A i \in 1..Len(request[q].hooks) : request[q].hooks[i].about # hooks[1].about
  BY <1>1, <1>4, CallbacksApart
<1>7. CASE TheNotes!CreateNote(r)
  <2> DEFINE new == [request[r] EXCEPT !.sending = Len(notes')]
             note == [channel |-> "in_app", about |-> hooks[1].about,
                      status |-> "pending", read |-> FALSE]
  <2>1. /\ hooks[1].kind = "in_app" /\ request[r].sending = 0
        /\ notes' = Append(notes, note)
        /\ request' = [request EXCEPT ![r].sending = Len(notes')]
        /\ UNCHANGED <<order, paid, locks, queue, celery, happened>>
    BY <1>4, <1>7 DEF TheNotes!CreateNote, TheNotes!HookIs, TheNotes!NewNote
  <2>2. note \in Note
    BY <1>4 DEF Note, Hook
  <2>3. /\ notes' \in Seq(Note) /\ Len(notes') = Len(notes) + 1 /\ Len(notes) \in Nat
        /\ \A i \in 1..Len(notes) : notes'[i] = notes[i]
        /\ notes'[Len(notes) + 1] = note
    BY <1>2, <2>1, <2>2, AppendProperties
  <2>4. /\ new \in Transaction /\ new.step = "hooks" /\ new.events = request[r].events
        /\ new.hooks = hooks /\ new.sending = Len(notes')
    <3>1. Len(notes') \in Nat
      BY <2>3
    <3> QED BY <1>1, <1>2, <3>1, Noted DEF Under
  <2>5. request' = [request EXCEPT ![r] = new]
    BY <2>1 DEF NoteInv, NotesTyped
  <2> HIDE DEF new, note
  <2>6. /\ NotesTyped' /\ EventsHold' /\ HooksHold'
        /\ request'[r] = new /\ \A q \in Requests \ {r} : request'[q] = request[q]
    <3>1. /\ \A i \in 1..Len(new.hooks) : new.hooks[i].about \in new.events
          /\ \A i, j \in 1..Len(new.hooks) : new.hooks[i] = new.hooks[j] => i = j
      BY <1>3, <2>4
    <3> HIDE DEF hooks
    <3> QED BY <1>1, <1>2, <2>1, <2>3, <2>4, <2>5, <3>1, CallbacksKept
  <2>7. NoNote("in_app", hooks[1].about)
    BY <1>1, <1>4, <2>1 DEF NoteInv, CallbacksUnique, CallbackUnique
  <2>8. note.channel = "in_app" /\ note.about = hooks[1].about
    BY DEF note
  <2>9. \A channel, about :
          NoNote(channel, about) /\ (channel = "email" \/ about # hooks[1].about)
            => NoNote(channel, about)'
    BY <2>3, <2>8 DEF NoNote
  <2>10. NotesUnique'
    BY <1>5, <2>1, <2>3, <2>7, <2>8 DEF NoteInv, NotesUnique, NoNote
  <2>11. TasksUnique' /\ WorkUnique'
    BY <2>1, <2>9 DEF NoteInv, TasksUnique, WorkUnique, NoWork
  <2>12. ASSUME NEW q \in Requests, Under(q, "hooks")', NEW i \in 1..Len(request'[q].hooks)
         PROVE  CallbackUnique(q, i)'
    <3>1. CASE q = r
      <4>1. CallbackUnique(r, i) /\ request'[r].hooks = hooks /\ request'[r].sending # 0
        BY <1>1, <2>3, <2>4, <2>6, <2>12, <3>1 DEF NoteInv, CallbacksUnique
      <4>2. i # 1 /\ hooks[i].kind = "in_app" => hooks[i].about # hooks[1].about
        <5>1. i \in 1..Len(hooks)
          BY <2>12, <3>1, <4>1
        <5>2. hooks[i] \in Hook
          BY <1>4, <5>1
        <5>3. hooks[i].kind = hooks[1].kind /\ hooks[i].about = hooks[1].about => hooks[i] = hooks[1]
          BY <1>4, <5>2 DEF Hook
        <5> QED BY <1>3, <1>4, <2>1, <5>1, <5>3
      <4> QED BY <2>1, <2>9, <3>1, <4>1, <4>2 DEF CallbackUnique, NoTask, NoWork
    <3>2. CASE q # r
      <4>1. Under(q, "hooks") /\ request'[q] = request[q]
        BY <2>6, <2>12, <3>2 DEF Under
      <4>2. CallbackUnique(q, i) /\ request[q].hooks[i].about # hooks[1].about
        BY <1>6, <2>12, <3>2, <4>1 DEF NoteInv, CallbacksUnique
      <4> QED BY <2>1, <2>9, <4>1, <4>2 DEF CallbackUnique, NoTask, NoWork
    <3> QED BY <3>1, <3>2
  <2> QED BY <2>6, <2>10, <2>11, <2>12 DEF NoteInv, CallbacksUnique
<1>8. CASE TheNotes!SendNote(r) \/ TheNotes!PublishEmail(r) \/ TheNotes!SkipHook(r)
  <2>1. TheNotes!NextHook(r) /\ UNCHANGED <<order, paid, locks, celery, happened>>
    BY <1>8 DEF TheNotes!SendNote, TheNotes!PublishEmail, TheNotes!SkipHook
  <2>2. /\ request' = [request EXCEPT ![r] = request'[r]] /\ request'[r] \in Transaction
        /\ request'[r].step = "hooks" /\ request'[r].events = request[r].events
        /\ request'[r].hooks = Tail(hooks) /\ request'[r].sending = 0
        /\ \A i \in 1..Len(Tail(hooks)) :
             i + 1 \in 1..Len(hooks) /\ Tail(hooks)[i] = hooks[i + 1]
        /\ \A i \in 1..Len(Tail(hooks)) : Tail(hooks)[i].about \in request[r].events
        /\ \A i, j \in 1..Len(Tail(hooks)) : Tail(hooks)[i] = Tail(hooks)[j] => i = j
        /\ \A i \in 1..Len(Tail(hooks)) : Tail(hooks)[i] # Head(hooks)
    BY <1>1, <2>1, NextHookStep
  \* A note may be marked as sent, and a task may be published.
  <2>3. /\ notes' \in Seq(Note) /\ Len(notes') = Len(notes)
        /\ \A i \in 1..Len(notes) : notes'[i].about = notes[i].about
                                   /\ notes'[i].channel = notes[i].channel
    <3>1. CASE TheNotes!SendNote(r)
      <4>1. notes' = [notes EXCEPT ![request[r].sending].status = "sent"]
        BY <3>1 DEF TheNotes!SendNote
      <4> QED BY <1>2, <4>1, Sent
    <3>2. CASE ~TheNotes!SendNote(r)
      BY <1>2, <1>8, <3>2 DEF TheNotes!PublishEmail, TheNotes!SkipHook
    <3> QED BY <3>1, <3>2
  <2>4. \/ queue' = queue
        \/ /\ hooks[1].kind = "email"
           /\ queue' = Append(queue, [job |-> "compose", about |-> hooks[1].about])
    BY <1>4, <1>8 DEF TheNotes!SendNote, TheNotes!PublishEmail, TheNotes!SkipHook, TheNotes!HookIs
  <2>5. [job |-> "compose", about |-> hooks[1].about] \in Task
    BY <1>4 DEF Task, Hook
  <2>6. queue' \in Seq(Task)
    BY <1>2, <2>4, <2>5, AppendProperties
  <2>7. /\ NotesTyped' /\ EventsHold' /\ HooksHold'
        /\ \A q \in Requests \ {r} : request'[q] = request[q]
    <3> DEFINE new == request'[r]
    <3>1. new \in Transaction /\ new.step = "hooks" /\ new.events = request[r].events
          /\ new.hooks = Tail(hooks) /\ request' = [request EXCEPT ![r] = new]
      BY <2>2
    <3>2. /\ \A i \in 1..Len(new.hooks) : new.hooks[i].about \in new.events
          /\ \A i, j \in 1..Len(new.hooks) : new.hooks[i] = new.hooks[j] => i = j
      BY <2>2, <3>1
    <3> HIDE DEF new
    <3> QED BY <1>1, <2>1, <2>3, <2>6, <3>1, <3>2, CallbacksKept
  <2>8. \A channel, about : NoNote(channel, about) => NoNote(channel, about)'
    BY <2>3 DEF NoNote
  <2>9. NotesUnique'
    BY <2>1, <2>3 DEF NoteInv, NotesUnique
  <2>10. WorkUnique'
    BY <2>1, <2>8 DEF NoteInv, WorkUnique
  <2>11. hooks[1].kind = "email" =>
           NoNote("email", hooks[1].about) /\ NoTask(hooks[1].about) /\ NoWork(hooks[1].about)
    BY <1>1, <1>4 DEF NoteInv, CallbacksUnique, CallbackUnique
  <2>12. \A i \in 1..Len(queue') :
           \/ i \in 1..Len(queue) /\ queue'[i] = queue[i]
           \/ /\ i = Len(queue) + 1 /\ hooks[1].kind = "email"
              /\ queue'[i] = [job |-> "compose", about |-> hooks[1].about]
    <3>1. CASE queue' = queue
      BY <3>1
    <3>2. CASE hooks[1].kind = "email" /\ queue' = Append(queue, [job |-> "compose", about |-> hooks[1].about])
      <4>1. PICK task \in Task : task = [job |-> "compose", about |-> hooks[1].about]
        BY <2>5
      <4>2. queue \in Seq(Task) /\ queue' = Append(queue, task)
        BY <1>2, <3>2, <4>1
      <4>3. /\ Len(queue') = Len(queue) + 1 /\ Len(queue) \in Nat
            /\ \A i \in 1..Len(queue) : queue'[i] = queue[i]
            /\ queue'[Len(queue) + 1] = task
        BY <4>2, AppendProperties
      <4> QED BY <3>2, <4>1, <4>3
    <3> QED BY <2>4, <3>1, <3>2
  <2>13. TasksUnique'
    BY <1>5, <2>1, <2>8, <2>11, <2>12, SMTT(30) DEF NoteInv, TasksUnique, NoTask, NoWork
  <2>14. ASSUME NEW q \in Requests, Under(q, "hooks")', NEW i \in 1..Len(request'[q].hooks)
         PROVE  CallbackUnique(q, i)'
    <3>1. CASE q = r
      <4>1. /\ i \in 1..Len(Tail(hooks)) /\ i + 1 \in 1..Len(hooks) /\ i + 1 # 1
            /\ request'[r].hooks[i] = hooks[i + 1] /\ CallbackUnique(r, i + 1)
        <5>1. i \in 1..Len(Tail(hooks))
          BY <2>2, <2>14, <3>1
        <5>2. i + 1 \in 1..Len(hooks) /\ i + 1 # 1 /\ request'[r].hooks[i] = hooks[i + 1]
          BY <2>2, <5>1
        <5> QED BY <1>1, <5>1, <5>2 DEF NoteInv, CallbacksUnique
      <4>2. hooks[i + 1] # hooks[1] /\ hooks[i + 1] \in Hook
        BY <1>3, <1>4, <4>1
      <4>3. hooks[i + 1].kind = hooks[1].kind => hooks[i + 1].about # hooks[1].about
        BY <1>4, <4>2 DEF Hook
      <4>4. PICK about : about = hooks[i + 1].about
        OBVIOUS
      <4>5. /\ hooks[i + 1].kind = "email" => NoTask(about) /\ NoTask(about)'
            /\ hooks[i + 1].kind = "email" => NoWork(about) /\ NoWork(about)'
            /\ hooks[i + 1].kind = "email" => NoNote("email", about)'
            /\ hooks[i + 1].kind = "in_app" => NoNote("in_app", about)'
        <5>1. /\ hooks[i + 1].kind = "email" => NoTask(about)
              /\ hooks[i + 1].kind = "email" => NoWork(about)
              /\ hooks[i + 1].kind = "email" => NoNote("email", about)
              /\ hooks[i + 1].kind = "in_app" => NoNote("in_app", about)
          BY <4>1, <4>4 DEF CallbackUnique
        <5>2. hooks[i + 1].kind = "email" => NoTask(about)'
          BY <2>12, <4>3, <4>4, <5>1 DEF NoTask
        <5>3. hooks[i + 1].kind = "email" => NoWork(about)'
          BY <2>1, <5>1 DEF NoWork
        <5> QED BY <2>8, <5>1, <5>2, <5>3
      <4> QED BY <3>1, <4>1, <4>4, <4>5 DEF CallbackUnique
    <3>2. CASE q # r
      <4>1. Under(q, "hooks") /\ request'[q] = request[q]
        BY <2>7, <2>14, <3>2 DEF Under
      <4>2. CallbackUnique(q, i) /\ request[q].hooks[i].about # hooks[1].about
        BY <1>6, <2>14, <3>2, <4>1 DEF NoteInv, CallbacksUnique
      <4> QED BY <2>1, <2>8, <2>12, <4>1, <4>2 DEF CallbackUnique, NoTask, NoWork
    <3> QED BY <3>1, <3>2
  <2> QED BY <2>7, <2>9, <2>10, <2>13, <2>14 DEF NoteInv, CallbacksUnique
<1> QED BY <1>7, <1>8

\* Steps that tell nobody anything new: notes are marked, a delivery is
\* published, a worker is done or dies.
LEMMA QuietStep ==
  ASSUME NoteInv, UNCHANGED <<order, paid, locks, happened, request>>,
         notes' \in Seq(Note), Len(notes') = Len(notes),
         \A i \in 1..Len(notes) : notes'[i].about = notes[i].about
                                 /\ notes'[i].channel = notes[i].channel,
         queue' \in Seq(Task),
         \A i \in 1..Len(queue') : queue'[i].job = "compose" =>
           i \in 1..Len(queue) /\ queue'[i] = queue[i],
         DOMAIN celery' = CeleryWorkers,
         \A w \in CeleryWorkers :
           celery'[w] = celery[w] \/ celery'[w].step \notin {"compose", "publish"}
  PROVE  NoteInv'
<1>1. NotesTyped' /\ EventsHold' /\ HooksHold'
  <2>1. NotesTyped'
    BY DEF NoteInv, NotesTyped
  <2>2. HooksHold'
    BY DEF NoteInv, HooksHold, Under
  <2>3. EventsHold'
    BY DEF NoteInv, EventsHold, Under
  <2> QED BY <2>1, <2>2, <2>3
<1>2. /\ \A channel, about : NoNote(channel, about) => NoNote(channel, about)'
      /\ \A about : NoTask(about) => NoTask(about)'
      /\ \A about : NoWork(about) => NoWork(about)'
  BY DEF NoNote, NoTask, NoWork
<1>3. NotesUnique'
  BY DEF NoteInv, NotesUnique
<1>4. TasksUnique'
  BY <1>2 DEF NoteInv, TasksUnique
<1>5. WorkUnique'
  BY <1>2 DEF NoteInv, WorkUnique
<1>6. CallbacksUnique'
  <2>1. ASSUME NEW r \in Requests, Under(r, "hooks"), NEW i \in 1..Len(request[r].hooks)
        PROVE  CallbackUnique(r, i)'
    <3>1. CallbackUnique(r, i)
      BY <2>1 DEF NoteInv, CallbacksUnique
    <3> QED BY <1>2, <3>1 DEF CallbackUnique
  <2> QED BY <2>1 DEF CallbacksUnique, Under
<1> QED BY <1>1, <1>3, <1>4, <1>5, <1>6 DEF NoteInv

\* The steps of a worker.
LEMMA WorkerStep ==
  ASSUME NoteInv, NEW w \in CeleryWorkers,
         \/ TheNotes!TakeTask(w) \/ TheNotes!ComposeEmail(w) \/ TheNotes!PublishDelivery(w)
         \/ TheNotes!DeliverEmail(w) \/ TheNotes!LoseTask(w)
  PROVE  NoteInv'
<1>1. notes \in Seq(Note) /\ queue \in Seq(Task) /\ DOMAIN celery = CeleryWorkers
  BY DEF NoteInv, NotesTyped
\* What does not concern the requests.
<1>2. ASSUME UNCHANGED <<order, paid, locks, happened, request>>,
             notes' \in Seq(Note), queue' \in Seq(Task), DOMAIN celery' = CeleryWorkers,
             \A v \in CeleryWorkers :
               celery'[v] = celery[v] \/ (celery'[v].step = "publish" => celery'[v].note \in Nat)
      PROVE  NotesTyped' /\ EventsHold' /\ HooksHold'
  <2>1. NotesTyped'
    BY <1>2 DEF NoteInv, NotesTyped
  <2>2. HooksHold'
    BY <1>2 DEF NoteInv, HooksHold, Under
  <2>3. EventsHold'
    BY <1>2 DEF NoteInv, EventsHold, Under
  <2> QED BY <2>1, <2>2, <2>3
<1>3. CASE TheNotes!TakeTask(w)
  <2>1. /\ queue # << >> /\ queue' = Tail(queue)
        /\ celery' = [celery EXCEPT ![w] =
             IF Head(queue).job = "compose" THEN [step |-> "compose", about |-> Head(queue).about]
             ELSE [step |-> "deliver", note |-> Head(queue).note, copy |-> notes[Head(queue).note]]]
        /\ UNCHANGED <<order, paid, locks, request, notes, happened>>
    BY <1>3 DEF TheNotes!TakeTask
  <2>2. /\ Tail(queue) \in Seq(Task) /\ 1 \in 1..Len(queue) /\ Head(queue) = queue[1]
        /\ \A i \in 1..Len(queue') : i + 1 \in 1..Len(queue) /\ queue'[i] = queue[i + 1]
                                     /\ i + 1 # 1
    BY <1>1, <2>1, TailProperties
  <2>3. /\ \A v \in CeleryWorkers \ {w} : celery'[v] = celery[v]
        /\ queue[1].job = "compose" => celery'[w] = [step |-> "compose", about |-> queue[1].about]
        /\ queue[1].job # "compose" => celery'[w].step = "deliver"
        /\ DOMAIN celery' = CeleryWorkers
    BY <1>1, <2>1, <2>2
  <2>4. celery'[w].step = "compose" => queue[1].job = "compose" /\ celery'[w].about = queue[1].about
    BY <2>3
  <2>5. celery'[w].step # "publish"
    BY <2>3
  <2>6. NotesTyped' /\ EventsHold' /\ HooksHold'
    BY <1>1, <1>2, <2>1, <2>2, <2>3, <2>5
  <2>7. queue[1].job = "compose" =>
          /\ queue[1].about \in happened /\ NoNote("email", queue[1].about) /\ NoWork(queue[1].about)
          /\ \A j \in 1..Len(queue) :
               queue[j].job = "compose" /\ queue[j].about = queue[1].about => j = 1
    BY <2>2 DEF NoteInv, TasksUnique
  <2>8. \A about : NoTask(about) => /\ NoTask(about)'
                                    /\ NoWork(about) => NoWork(about)'
    BY <2>2, <2>3, <2>4 DEF NoTask, NoWork
  <2>9. NotesUnique'
    BY <2>1 DEF NoteInv, NotesUnique
  <2>10. \A channel, about : NoNote(channel, about) => NoNote(channel, about)'
    BY <2>1 DEF NoNote
  <2>11. WorkUnique'
    BY <2>1, <2>3, <2>4, <2>7, <2>10 DEF NoteInv, WorkUnique, NoWork
  <2>12. TasksUnique'
    BY <2>1, <2>2, <2>3, <2>4, <2>7, <2>10 DEF NoteInv, TasksUnique, NoWork
  <2>13. ASSUME NEW r \in Requests, Under(r, "hooks"), NEW i \in 1..Len(request[r].hooks)
        PROVE  CallbackUnique(r, i)'
    <3>1. CallbackUnique(r, i)
      BY <2>13 DEF NoteInv, CallbacksUnique
    <3> QED BY <2>1, <2>8, <2>10, <3>1 DEF CallbackUnique
  <2>14. CallbacksUnique'
    BY <2>1, <2>13 DEF CallbacksUnique, Under
  <2> QED BY <2>6, <2>9, <2>11, <2>12, <2>14 DEF NoteInv
<1>4. CASE TheNotes!ComposeEmail(w)
  <2> DEFINE told_ == celery[w].about
             note == [channel |-> "email", about |-> told_, status |-> "pending", read |-> FALSE]
  <2>1. /\ celery[w].step = "compose" /\ notes' = Append(notes, note)
        /\ celery' = [celery EXCEPT ![w] = [step |-> "publish", note |-> Len(notes')]]
        /\ UNCHANGED <<order, paid, locks, request, queue, happened>>
    BY <1>4 DEF TheNotes!ComposeEmail, TheNotes!NewNote
  <2>2. told_ \in happened /\ NoNote("email", told_)
        /\ \A v \in CeleryWorkers : celery[v].step = "compose" /\ celery[v].about = told_ => v = w
    BY <2>1 DEF NoteInv, WorkUnique
  <2>3. note \in Note
    BY <2>2 DEF Note, NoteInv, NotesTyped
  <2>4. note.channel = "email" /\ note.about = told_
    OBVIOUS
  <2> HIDE DEF note
  <2>5. /\ notes' \in Seq(Note) /\ Len(notes') = Len(notes) + 1 /\ Len(notes) \in Nat
        /\ \A i \in 1..Len(notes) : notes'[i] = notes[i]
        /\ notes'[Len(notes) + 1] = note
    BY <1>1, <2>1, <2>3, AppendProperties
  <2>6. /\ \A v \in CeleryWorkers \ {w} : celery'[v] = celery[v]
        /\ celery'[w].step = "publish" /\ celery'[w].note = Len(notes')
        /\ DOMAIN celery' = CeleryWorkers
    BY <1>1, <2>1
  <2>7. NotesTyped' /\ EventsHold' /\ HooksHold'
    <3>1. \A v \in CeleryWorkers :
            celery'[v] = celery[v] \/ (celery'[v].step = "publish" => celery'[v].note \in Nat)
      BY <2>5, <2>6
    <3> QED BY <1>1, <1>2, <2>1, <2>5, <2>6, <3>1
  <2>8. \A channel, about :
          NoNote(channel, about) /\ (channel = "in_app" \/ about # told_)
            => NoNote(channel, about)'
    BY <2>4, <2>5 DEF NoNote
  <2>9. \A about : NoWork(about) => about # told_ /\ NoWork(about)'
    BY <2>1, <2>6 DEF NoWork
  <2>10. NotesUnique'
    BY <2>1, <2>2, <2>4, <2>5 DEF NoteInv, NotesUnique, NoNote
  <2>11. TasksUnique'
    BY <2>1, <2>8, <2>9 DEF NoteInv, TasksUnique
  <2>12. WorkUnique'
    BY <2>1, <2>2, <2>6, <2>8 DEF NoteInv, WorkUnique
  <2>13. ASSUME NEW r \in Requests, Under(r, "hooks"), NEW i \in 1..Len(request[r].hooks)
        PROVE  CallbackUnique(r, i)'
    <3>1. CallbackUnique(r, i)
      BY <2>13 DEF NoteInv, CallbacksUnique
    <3> QED BY <2>1, <2>8, <2>9, <3>1 DEF CallbackUnique, NoTask
  <2>14. CallbacksUnique'
    BY <2>1, <2>13 DEF CallbacksUnique, Under
  <2> QED BY <2>7, <2>10, <2>11, <2>12, <2>14 DEF NoteInv
<1>5. CASE TheNotes!PublishDelivery(w)
  <2>1. /\ celery[w].step = "publish"
        /\ queue' = Append(queue, [job |-> "deliver", note |-> celery[w].note])
        /\ celery' = [celery EXCEPT ![w] = TheNotes!Idle]
        /\ UNCHANGED <<order, paid, locks, request, notes, happened>>
    BY <1>5 DEF TheNotes!PublishDelivery
  <2>2. [job |-> "deliver", note |-> celery[w].note] \in Task
    BY <2>1 DEF NoteInv, NotesTyped, Task
  <2>3. /\ queue' \in Seq(Task)
        /\ \A i \in 1..Len(queue') : queue'[i].job = "compose" =>
             i \in 1..Len(queue) /\ queue'[i] = queue[i]
    <3>1. PICK job : job = [job |-> "deliver", note |-> celery[w].note]
      OBVIOUS
    <3>2. job \in Task /\ job.job = "deliver" /\ queue' = Append(queue, job)
      BY <2>1, <2>2, <3>1
    <3> QED BY <1>1, <3>2, AppendProperties
  <2>4. /\ DOMAIN celery' = CeleryWorkers
        /\ \A v \in CeleryWorkers :
             celery'[v] = celery[v] \/ celery'[v].step \notin {"compose", "publish"}
    BY <1>1, <2>1 DEF TheNotes!Idle
  <2> QED BY <1>1, <2>1, <2>3, <2>4, QuietStep
<1>6. CASE TheNotes!DeliverEmail(w)
  <2>1. /\ notes' = [notes EXCEPT ![celery[w].note].status = "sent"]
        /\ celery' = [celery EXCEPT ![w] = TheNotes!Idle]
        /\ UNCHANGED <<order, paid, locks, request, queue, happened>>
    BY <1>6 DEF TheNotes!DeliverEmail
  <2>2. /\ notes' \in Seq(Note) /\ Len(notes') = Len(notes)
        /\ \A i \in 1..Len(notes) : notes'[i].about = notes[i].about
                                   /\ notes'[i].channel = notes[i].channel
    BY <1>1, <2>1, Sent
  <2>3. /\ DOMAIN celery' = CeleryWorkers
        /\ \A v \in CeleryWorkers :
             celery'[v] = celery[v] \/ celery'[v].step \notin {"compose", "publish"}
    BY <1>1, <2>1 DEF TheNotes!Idle
  <2> QED BY <1>1, <2>1, <2>2, <2>3, QuietStep
<1>7. CASE TheNotes!LoseTask(w)
  <2>1. /\ celery' = [celery EXCEPT ![w] = TheNotes!Idle]
        /\ UNCHANGED <<order, paid, locks, request, notes, queue, happened>>
    BY <1>7 DEF TheNotes!LoseTask
  <2>2. /\ DOMAIN celery' = CeleryWorkers
        /\ \A v \in CeleryWorkers :
             celery'[v] = celery[v] \/ celery'[v].step \notin {"compose", "publish"}
    BY <1>1, <2>1 DEF TheNotes!Idle
  <2> QED BY <1>1, <2>1, <2>2, QuietStep
<1> QED BY <1>3, <1>4, <1>5, <1>6, <1>7

\* The customer reads notes.
LEMMA ReadStep ==
  ASSUME notes \in Seq(Note),
         (\E i \in DOMAIN notes : TheNotes!MarkRead(i)) \/ TheNotes!MarkAllRead
  PROVE  /\ notes' \in Seq(Note) /\ Len(notes') = Len(notes)
         /\ \A j \in 1..Len(notes) : /\ notes'[j].about = notes[j].about
                                      /\ notes'[j].channel = notes[j].channel
                                      /\ (notes[j].read => notes'[j].read)
<1>1. DOMAIN notes = 1..Len(notes)
  OBVIOUS
<1>2. \/ \E i \in 1..Len(notes) :
           notes' = [j \in 1..Len(notes) |-> IF j = i THEN TheNotes!Read(notes[i]) ELSE notes[j]]
      \/ notes' = [j \in 1..Len(notes) |-> TheNotes!Read(notes[j])]
  <2>1. ASSUME NEW i \in DOMAIN notes, TheNotes!MarkRead(i)
        PROVE  notes' = [j \in 1..Len(notes) |->
                           IF j = i THEN TheNotes!Read(notes[i]) ELSE notes[j]]
    BY <1>1, <2>1, Zenon DEF TheNotes!MarkRead
  <2>2. ASSUME TheNotes!MarkAllRead
        PROVE  notes' = [j \in 1..Len(notes) |-> TheNotes!Read(notes[j])]
    BY <1>1, <2>2, Zenon DEF TheNotes!MarkAllRead
  <2> QED BY <1>1, <2>1, <2>2
<1>3. DOMAIN notes' = 1..Len(notes) /\ notes' = [j \in 1..Len(notes) |-> notes'[j]]
  BY <1>2
<1>4. \A j \in 1..Len(notes) :
        \/ notes'[j] = notes[j] \/ notes'[j] = [notes[j] EXCEPT !.status = "sent"]
        \/ notes'[j] = TheNotes!Read(notes[j])
  BY <1>2
<1>5. PICK new : new = notes'
  OBVIOUS
<1>6. /\ DOMAIN new = 1..Len(notes) /\ new = [j \in 1..Len(notes) |-> new[j]]
      /\ \A j \in 1..Len(notes) :
           \/ new[j] = notes[j] \/ new[j] = [notes[j] EXCEPT !.status = "sent"]
           \/ new[j] = TheNotes!Read(notes[j])
  BY <1>3, <1>4, <1>5, Zenon
<1>7. /\ new \in Seq(Note) /\ Len(new) = Len(notes)
      /\ \A j \in 1..Len(notes) : new[j].about = notes[j].about /\ new[j].channel = notes[j].channel
                                   /\ (notes[j].read => new[j].read)
  BY <1>6, Marked, Zenon
<1> QED BY <1>5, <1>7, Zenon

LEMMA NoteKept == NoteInv /\ [TheNotes!Next]_noteVars => NoteInv'
<1> SUFFICES ASSUME NoteInv, [TheNotes!Next]_noteVars PROVE NoteInv'
  OBVIOUS
<1>1. notes \in Seq(Note) /\ queue \in Seq(Task) /\ DOMAIN celery = CeleryWorkers
  BY DEF NoteInv, NotesTyped
<1>2. CASE UNCHANGED noteVars
  <2>1. UNCHANGED <<order, paid, locks, request, notes, queue, celery, happened>>
    BY <1>2 DEF noteVars
  <2> QED BY <1>1, <2>1, QuietStep
<1>3. CASE (\E i \in DOMAIN notes : TheNotes!MarkRead(i)) \/ TheNotes!MarkAllRead
  <2>1. UNCHANGED <<order, paid, locks, request, queue, celery, happened>>
    BY <1>3 DEF TheNotes!MarkRead, TheNotes!MarkAllRead
  <2>2. /\ notes' \in Seq(Note) /\ Len(notes') = Len(notes)
        /\ \A j \in 1..Len(notes) : notes'[j].about = notes[j].about
                                   /\ notes'[j].channel = notes[j].channel
    BY <1>1, <1>3, ReadStep
  <2> QED BY <1>1, <2>1, <2>2, QuietStep
<1> QED BY <1>2, <1>3, TransactionsStep, CommitStep, GoneStep, CallbackStep, WorkerStep
        DEF TheNotes!Next

\* A customer is told only what was committed, and once on each channel,
\* whichever requests, webhooks and workers are at it and wherever they stop
\* (NotificationEvents, PaymentService.confirm_payment).
THEOREM NotesTellOnce == Spec => []ToldOnce
<1>1. NoteInv => ToldOnce
  <2>1. NoteInv => DOMAIN notes = 1..Len(notes)
    BY DEF NoteInv, NotesTyped
  <2> QED BY <2>1 DEF NoteInv, NotesUnique, ToldOnce, TheNotes!ToldOnce
<1> QED BY <1>1, NoteInit, NoteStep, NoteKept, PTL DEF Spec

\* What was read stays read, although a request and a worker mark rows that
\* they have loaded before (mark_read, send_email_notification).
THEOREM NotesStayRead == Spec => ReadStaysRead
<1> DEFINE Stays == \A i \in DOMAIN notes : notes[i].read => notes'[i].read
<1>1. NoteInv /\ [TheNotes!Next]_noteVars => Stays
  <2> SUFFICES ASSUME NoteInv, [TheNotes!Next]_noteVars PROVE Stays
    OBVIOUS
  <2>1. notes \in Seq(Note) /\ DOMAIN notes = 1..Len(notes) /\ Len(notes) \in Nat
    BY DEF NoteInv, NotesTyped
  <2>2. CASE UNCHANGED notes
    BY <2>2
  <2>3. CASE (\E i \in DOMAIN notes : TheNotes!MarkRead(i)) \/ TheNotes!MarkAllRead
    BY <2>1, <2>3, ReadStep
  <2>4. ASSUME NEW k, notes' = [notes EXCEPT ![k].status = "sent"] PROVE Stays
    BY <2>1, <2>4, Sent
  <2>5. ASSUME NEW channel, NEW about, TheNotes!NewNote(channel, about) PROVE Stays
    <3>1. PICK note : notes' = Append(notes, note)
      BY <2>5 DEF TheNotes!NewNote
    <3> QED BY <2>1, <3>1
  <2> QED BY <2>2, <2>3, <2>4, <2>5
          DEF noteVars, TheNotes!Next, TheNotes!ChangeStatus, TheNotes!PayAndConfirm,
              TheNotes!PayOnly, TheNotes!Open, TheNotes!Rollback, TheNotes!Commit,
              TheNotes!CreateNote, TheNotes!SendNote, TheNotes!PublishEmail, TheNotes!SkipHook,
              TheNotes!Leave, TheNotes!TakeTask, TheNotes!ComposeEmail, TheNotes!PublishDelivery,
              TheNotes!DeliverEmail, TheNotes!LoseTask
<1>2. Spec => [][Stays]_noteVars
  BY <1>1, NoteInit, NoteStep, NoteKept, PTL DEF Spec
<1> QED BY <1>2, PTL DEF ReadStaysRead, TheNotes!ReadStaysRead, noteVars, TheNotes!noteVars

-----------------------------------------------------------------------------
\* The numbers of orders, payments and shipments.

\* A step of the platform is a step of its numbers, or leaves them alone.
LEMMA NumberStep == [Next]_vars => [TheNumbers!Next]_numberVars
<1>1. ASSUME UNCHANGED vars PROVE UNCHANGED numberVars
  BY <1>1 DEF vars, numberVars
<1>2. ASSUME Next PROVE TheNumbers!Next \/ UNCHANGED numberVars
  BY <1>2 DEF Next
<1> QED BY <1>1, <1>2

\* A set of numbers with a bound has a largest one.
LEMMA LargestExists ==
  ASSUME NEW S \in SUBSET Nat, NEW n \in Nat, \A x \in S : x <= n, S # {}
  PROVE  TheNumbers!Max(S) \in S /\ \A x \in S : x <= TheNumbers!Max(S)
<1> DEFINE T == {n - x : x \in S}
<1>1. PICK R : R = {ss \in Nat \X Nat : ss[1] < ss[2]}
  OBVIOUS
<1>2. IsWellFoundedOn(R, Nat)
  BY <1>1, NatLessThanWellFounded DEF OpToRel
<1>3. T \subseteq Nat /\ T # {}
  OBVIOUS
<1>4. PICK least \in T : \A y \in T : ~(<<y, least>> \in R)
  <2> HIDE DEF T
  <2> QED BY <1>2, <1>3, WFMin
<1>5. PICK m \in S : least = n - m
  OBVIOUS
<1>6. \A x \in S : x <= m
  <2> TAKE x \in S
  <2>1. n - x \in T /\ n - x \in Nat /\ least \in Nat
    BY <1>3
  <2>2. ~(n - x < least)
    BY <1>1, <1>4, <2>1
  <2> QED BY <1>5, <2>1, <2>2
<1>7. \E x \in S : \A y \in S : x >= y
  BY <1>6
<1>8. TheNumbers!Max(S) \in S /\ \A y \in S : TheNumbers!Max(S) >= y
  BY <1>7 DEF TheNumbers!Max
<1> QED BY <1>8

\* Old shipments and payments: one and the same rank is one and the same row,
\* and no rank is beyond how many there are.
LEMMA RankProperties ==
  ASSUME NEW numbers \in SUBSET (1..MaxOld)
  PROVE  /\ \A n \in numbers : TheNumbers!Rank(n, numbers) \in Nat
         /\ \A n \in numbers : TheNumbers!Rank(n, numbers) <= Cardinality(numbers)
         /\ Cardinality(numbers) \in Nat
         /\ \A m, n \in numbers :
              TheNumbers!Rank(m, numbers) = TheNumbers!Rank(n, numbers) => m = n
<1> DEFINE UpTo(n) == {m \in numbers : m <= n}
<1>1. \A n : TheNumbers!Rank(n, numbers) = Cardinality(UpTo(n))
  BY DEF TheNumbers!Rank, TheNumbers!Cardinality, Cardinality
<1>2. IsFiniteSet(numbers) /\ Cardinality(numbers) \in Nat
  <2>1. IsFiniteSet(1..MaxOld)
    BY OldAssumption, FS_Interval
  <2> QED BY <2>1, FS_Subset, FS_CardinalityType
<1>3. \A n : /\ IsFiniteSet(UpTo(n)) /\ Cardinality(UpTo(n)) \in Nat
             /\ Cardinality(UpTo(n)) <= Cardinality(numbers)
  <2> TAKE n
  <2>1. UpTo(n) \in SUBSET numbers
    OBVIOUS
  <2> HIDE DEF UpTo
  <2> QED BY <1>2, <2>1, FS_Subset, FS_CardinalityType
<1>4. ASSUME NEW m \in numbers, NEW n \in numbers, m < n
      PROVE  Cardinality(UpTo(m)) # Cardinality(UpTo(n))
  <2>1. UpTo(m) \in SUBSET UpTo(n) /\ n \in UpTo(n) /\ n \notin UpTo(m)
    <3>1. numbers \subseteq Int
      BY OldAssumption
    <3>2. \A x \in numbers : x <= m => x <= n
      BY <1>4, <3>1
    <3>3. n <= n /\ ~(n <= m)
      BY <1>4, <3>1
    <3> QED BY <3>2, <3>3
  <2> HIDE DEF UpTo
  <2> QED BY <1>3, <2>1, FS_Subset
<1>5. \A m, n \in numbers : m < n \/ n < m \/ m = n
  BY OldAssumption
<1> HIDE DEF UpTo
<1> QED BY <1>1, <1>2, <1>3, <1>4, <1>5

Sequenced == {"order", "shipment"}
IsRow(x) == \E kind, pk, of, number, tracking :
              x = TheNumbers!Row(kind, pk, of, number, tracking)

\* Numbers are taken only after the migration.
NumbersTyped ==
  /\ lastPk \in Nat /\ lastValue \in [Sequenced -> Nat]
  /\ DOMAIN inserting = Requests
  /\ \A r \in Requests : inserting[r] # TheNumbers!Idle =>
       lastPk > 0 /\ IsRow(inserting[r].row)

\* What was told has one meaning, payments stay, and no sequence is behind.
NumbersApart ==
  /\ table \subseteq told
  /\ \A a \in told : a.kind = "payment" => a \in table
  /\ \A a, b \in told : a.kind = b.kind /\ a.number = b.number => a = b
  /\ \A a \in told : a.kind \in Sequenced => a.number \in Nat /\ a.number <= lastValue[a.kind]

\* A number of a sequence was told to nobody before, and two requests have
\* not got the same.
NumbersTaken ==
  /\ \A r \in Requests :
       inserting[r] # TheNumbers!Idle /\ inserting[r].row.kind \in Sequenced =>
         /\ inserting[r].row.number \in Nat
         /\ inserting[r].row.number <= lastValue[inserting[r].row.kind]
         /\ \A a \in told : a.kind = inserting[r].row.kind => a.number # inserting[r].row.number
  /\ \A r, q \in Requests :
       /\ r # q /\ inserting[r] # TheNumbers!Idle /\ inserting[q] # TheNumbers!Idle
       /\ inserting[r].row.kind = inserting[q].row.kind /\ inserting[r].row.kind \in Sequenced
       => inserting[r].row.number # inserting[q].row.number
  /\ \A r \in Requests : inserting[r] # TheNumbers!Idle =>
       inserting[r].row.kind \in Sequenced \cup {"payment"}

NumberInv == NumbersTyped /\ NumbersApart /\ NumbersTaken

LEMMA NumberInit == Init => NumberInv
BY DEF Init, TheNumbers!Init, NumberInv, NumbersTyped, NumbersApart, NumbersTaken, Sequenced,
   TheNumbers!Idle

\* The migrations number what there is, and set the sequences after it.
LEMMA MigrateStep ==
  ASSUME NumberInv, lastPk = 0, NEW numbers \in SUBSET (1..MaxOld),
         NEW bought \in SUBSET numbers, NEW shipped \in SUBSET numbers,
         TheNumbers!Migrate(numbers, bought, shipped)
  PROVE  NumberInv'
<1> DEFINE old == TheNumbers!OldOrders(numbers)
           sold == TheNumbers!OldPayments(bought)
           sent_ == TheNumbers!Backfilled(shipped)
<1>1. /\ table' = old \cup sold \cup sent_ /\ told' = table'
      /\ lastValue' = [order |-> TheNumbers!SetSequence(old),
                       shipment |-> TheNumbers!SetSequence(sent_)]
      /\ lastPk' = MaxOld /\ UNCHANGED inserting
  BY DEF TheNumbers!Migrate
<1>2. \A r \in Requests : inserting[r] = TheNumbers!Idle
  BY DEF NumberInv, NumbersTyped
<1>3. /\ \A a \in old : a.kind = "order" /\ a.number \in numbers
      /\ \A a, b \in old : a.number = b.number => a = b
  BY DEF TheNumbers!OldOrders, TheNumbers!Row
<1>4. /\ \A a \in sold : a.kind = "payment"
      /\ \A a, b \in sold : a.number = b.number => a = b
  <2>1. \A a \in sold : \E o \in bought : /\ a.number = TheNumbers!Rank(o, bought)
                                         /\ a = TheNumbers!Row("payment", o, o, TheNumbers!Rank(o, bought),
                                                               TheNumbers!NoTracking)
    BY DEF TheNumbers!OldPayments, TheNumbers!Row
  <2>2. \A a \in sold : a.kind = "payment"
    BY DEF TheNumbers!OldPayments, TheNumbers!Row
  <2> HIDE DEF sold
  <2> QED BY <2>1, <2>2, RankProperties
<1>5. /\ \A a \in sent_ : a.kind = "shipment" /\ a.number \in Nat
                          /\ a.number <= Cardinality(shipped)
      /\ \A a, b \in sent_ : a.number = b.number => a = b
      /\ Cardinality(shipped) \in Nat
  <2>1. \A a \in sent_ : \E o \in shipped : /\ a.number = TheNumbers!Rank(o, shipped)
                                           /\ a = TheNumbers!Row("shipment", o, o,
                                                                 TheNumbers!Rank(o, shipped), o)
    BY DEF TheNumbers!Backfilled, TheNumbers!Row
  <2>2. \A a \in sent_ : a.kind = "shipment"
    BY DEF TheNumbers!Backfilled, TheNumbers!Row
  <2> HIDE DEF sent_
  <2> QED BY <2>1, <2>2, RankProperties
<1>6. /\ TheNumbers!SetSequence(old) \in Nat
      /\ \A a \in old : a.number \in Nat /\ a.number <= TheNumbers!SetSequence(old)
  <2> DEFINE S == TheNumbers!Numbers(old) \cup {0}
  <2>1. S \in SUBSET Nat /\ S # {} /\ \A x \in S : x <= MaxOld
    BY <1>3, OldAssumption DEF TheNumbers!Numbers
  <2>2. \A a \in old : a.number \in S
    BY DEF TheNumbers!Numbers
  <2>3. TheNumbers!SetSequence(old) = TheNumbers!Max(S)
    BY DEF TheNumbers!SetSequence
  <2> HIDE DEF S, old
  <2>4. TheNumbers!Max(S) \in S /\ \A x \in S : x <= TheNumbers!Max(S)
    BY <2>1, OldAssumption, LargestExists
  <2> QED BY <2>1, <2>2, <2>3, <2>4
<1>7. /\ TheNumbers!SetSequence(sent_) \in Nat
      /\ \A a \in sent_ : a.number <= TheNumbers!SetSequence(sent_)
  <2> DEFINE S == TheNumbers!Numbers(sent_) \cup {0}
  <2>1. S \in SUBSET Nat /\ S # {} /\ \A x \in S : x <= Cardinality(shipped)
    BY <1>5 DEF TheNumbers!Numbers
  <2>2. \A a \in sent_ : a.number \in S
    BY DEF TheNumbers!Numbers
  <2>3. TheNumbers!SetSequence(sent_) = TheNumbers!Max(S)
    BY DEF TheNumbers!SetSequence
  <2> HIDE DEF S, sent_
  <2>4. TheNumbers!Max(S) \in S /\ \A x \in S : x <= TheNumbers!Max(S)
    BY <1>5, <2>1, LargestExists
  <2> QED BY <2>1, <2>2, <2>3, <2>4
<1> HIDE DEF old, sold, sent_
<1>8. NumbersTyped'
  BY <1>1, <1>2, <1>6, <1>7, OldAssumption DEF NumberInv, NumbersTyped, Sequenced
<1>9. NumbersApart'
  BY <1>1, <1>3, <1>4, <1>5, <1>6, <1>7 DEF NumbersApart, Sequenced
<1>10. NumbersTaken'
  BY <1>1, <1>2 DEF NumbersTaken
<1> QED BY <1>8, <1>9, <1>10 DEF NumberInv

\* nextval() gives a number that was never given before.
LEMMA TakeStep ==
  ASSUME NumberInv, lastPk > 0, NEW r \in Requests, NEW kind \in Sequenced \cup {"payment"},
         NEW pk, NEW of, NEW number, NEW tracking,
         kind \in Sequenced => number = lastValue[kind] + 1,
         TheNumbers!Take(r, kind, TheNumbers!Row(kind, pk, of, number, tracking))
  PROVE  NumberInv'
<1> DEFINE new == TheNumbers!Row(kind, pk, of, number, tracking)
<1>1. new.kind = kind /\ new.number = number /\ IsRow(new)
  BY DEF IsRow, TheNumbers!Row
<1>2. /\ inserting[r] = TheNumbers!Idle
      /\ lastValue' = [k \in DOMAIN lastValue |-> IF k = kind THEN lastValue[k] + 1 ELSE lastValue[k]]
      /\ inserting' = [inserting EXCEPT ![r] = [step |-> "numbered", row |-> new]]
      /\ UNCHANGED <<table, lastPk, told>>
  BY DEF TheNumbers!Take, TheNumbers!NextValue
<1> HIDE DEF new
<1>3. /\ DOMAIN inserting' = Requests /\ inserting'[r].row = new
      /\ \A q \in Requests \ {r} : inserting'[q] = inserting[q]
  BY <1>2 DEF NumberInv, NumbersTyped
<1>4. /\ lastValue' \in [Sequenced -> Nat]
      /\ \A k \in Sequenced : lastValue[k] <= lastValue'[k] /\ lastValue[k] \in Nat
      /\ kind \in Sequenced => lastValue'[kind] = lastValue[kind] + 1
  BY <1>2 DEF NumberInv, NumbersTyped
<1>5. NumbersTyped'
  BY <1>1, <1>2, <1>3, <1>4 DEF NumberInv, NumbersTyped
<1>6. NumbersApart'
  <2>1. \A a \in told : a.kind \in Sequenced => a.number \in Nat /\ a.number <= lastValue'[a.kind]
    <3> TAKE a \in told
    <3> HAVE a.kind \in Sequenced
    <3>1. a.number \in Nat /\ a.number <= lastValue[a.kind]
      BY DEF NumberInv, NumbersApart
    <3>2. lastValue'[a.kind] \in Nat
      BY <1>4
    <3> QED BY <1>4, <3>1, <3>2
  <2> QED BY <1>2, <2>1 DEF NumberInv, NumbersApart
<1>7. NumbersTaken'
  <2>1. ASSUME NEW q \in Requests, inserting'[q] # TheNumbers!Idle,
               inserting'[q].row.kind \in Sequenced
        PROVE  /\ inserting'[q].row.number \in Nat
               /\ inserting'[q].row.number <= lastValue'[inserting'[q].row.kind]
               /\ \A a \in told' : a.kind = inserting'[q].row.kind =>
                                     a.number # inserting'[q].row.number
    <3>1. CASE q = r
      <4>1. number = lastValue[kind] + 1 /\ kind \in Sequenced
        BY <1>1, <1>3, <2>1, <3>1
      <4>2. \A a \in told : a.kind = kind => a.number \in Nat /\ a.number <= lastValue[kind]
        BY <4>1 DEF NumberInv, NumbersApart
      <4> QED BY <1>1, <1>2, <1>3, <1>4, <3>1, <4>1, <4>2
    <3>2. CASE q # r
      <4>1. inserting'[q] = inserting[q]
        BY <1>3, <3>2
      <4>2. PICK k \in Sequenced : k = inserting[q].row.kind
        BY <2>1, <4>1
      <4>3. /\ inserting[q].row.number \in Nat /\ inserting[q].row.number <= lastValue[k]
            /\ \A a \in told : a.kind = k => a.number # inserting[q].row.number
        BY <2>1, <4>1, <4>2 DEF NumberInv, NumbersTaken
      <4>4. lastValue[k] <= lastValue'[k] /\ lastValue[k] \in Nat /\ lastValue'[k] \in Nat
        BY <1>4
      <4> QED BY <1>2, <4>1, <4>2, <4>3, <4>4
    <3> QED BY <3>1, <3>2
  <2>2. ASSUME NEW q \in Requests \ {r}, inserting[q] # TheNumbers!Idle,
               inserting[q].row.kind = kind, kind \in Sequenced
        PROVE  inserting[q].row.number # number
    <3>1. inserting[q].row.number \in Nat /\ inserting[q].row.number <= lastValue[kind]
      BY <2>2 DEF NumberInv, NumbersTaken
    <3> QED BY <1>4, <2>2, <3>1
  <2>3. ASSUME NEW p \in Requests, NEW q \in Requests, p # q,
               inserting'[p] # TheNumbers!Idle, inserting'[q] # TheNumbers!Idle,
               inserting'[p].row.kind = inserting'[q].row.kind,
               inserting'[p].row.kind \in Sequenced
        PROVE  inserting'[p].row.number # inserting'[q].row.number
    <3>1. CASE p # r /\ q # r
      BY <1>3, <2>3, <3>1 DEF NumberInv, NumbersTaken
    <3>2. CASE p = r
      BY <1>1, <1>3, <2>2, <2>3, <3>2
    <3>3. CASE q = r
      BY <1>1, <1>3, <2>2, <2>3, <3>3
    <3> QED BY <3>1, <3>2, <3>3
  <2>4. \A q \in Requests : inserting'[q] # TheNumbers!Idle =>
          inserting'[q].row.kind \in Sequenced \cup {"payment"}
    BY <1>1, <1>3 DEF NumberInv, NumbersTaken
  <2> QED BY <2>1, <2>3, <2>4 DEF NumbersTaken
<1> QED BY <1>5, <1>6, <1>7 DEF NumberInv

LEMMA NumberKept == NumberInv /\ [TheNumbers!Next]_numberVars => NumberInv'
<1> SUFFICES ASSUME NumberInv, [TheNumbers!Next]_numberVars PROVE NumberInv'
  OBVIOUS
<1>1. CASE UNCHANGED numberVars
  BY <1>1 DEF numberVars, NumberInv, NumbersTyped, NumbersApart, NumbersTaken
<1>2. CASE lastPk = 0 /\ \E numbers \in SUBSET (1..MaxOld) :
             \E bought \in SUBSET numbers, shipped \in SUBSET numbers :
               TheNumbers!Migrate(numbers, bought, shipped)
  BY <1>2, MigrateStep
<1>3. ASSUME lastPk > 0, NEW r \in Requests, TheNumbers!NumberOrder(r) PROVE NumberInv'
  BY <1>3, TakeStep DEF TheNumbers!NumberOrder, TheNumbers!NextValue, Sequenced
<1>4. ASSUME lastPk > 0, NEW r \in Requests, NEW by, NEW of,
             TheNumbers!NumberPayment(r, by, of) \/ TheNumbers!NumberShipment(r, by, of)
      PROVE  NumberInv'
  <2>1. CASE TheNumbers!NumberPayment(r, by, of)
    BY <1>4, <2>1, TakeStep DEF TheNumbers!NumberPayment, Sequenced
  <2>2. CASE TheNumbers!NumberShipment(r, by, of)
    BY <1>4, <2>2, TakeStep DEF TheNumbers!NumberShipment, TheNumbers!NextValue, Sequenced
  <2> QED BY <1>4, <2>1, <2>2
<1>5. ASSUME lastPk > 0, NEW r \in Requests, TheNumbers!Insert(r) PROVE NumberInv'
  <2> DEFINE new == [inserting[r].row EXCEPT !.pk = lastPk + 1]
  <2>1. /\ inserting[r] # TheNumbers!Idle /\ TheNumbers!Fits(new)
        /\ table' = table \cup {new} /\ told' = told \cup {new} /\ lastPk' = lastPk + 1
        /\ inserting' = [inserting EXCEPT ![r] = TheNumbers!Idle]
        /\ UNCHANGED lastValue
    BY <1>5 DEF TheNumbers!Insert
  <2>2. new.kind = inserting[r].row.kind /\ new.number = inserting[r].row.number
    <3>1. PICK kind, pk, of, number, tracking :
            inserting[r].row = TheNumbers!Row(kind, pk, of, number, tracking)
      BY <2>1 DEF NumberInv, NumbersTyped, IsRow
    <3> QED BY <3>1 DEF TheNumbers!Row
  <2> HIDE DEF new
  <2>3. \A a \in table : a.kind = new.kind => a.number # new.number
    BY <2>1 DEF TheNumbers!Fits, TheNumbers!ByNumber, TheNumbers!Of
  <2>4. new.kind \in Sequenced \cup {"payment"}
    BY <2>1, <2>2 DEF NumberInv, NumbersTaken
  <2>5. \A a \in told : a.kind = new.kind => a.number # new.number
    BY <2>1, <2>2, <2>3, <2>4 DEF NumberInv, NumbersTaken, NumbersApart
  <2>6. new.kind \in Sequenced => new.number \in Nat /\ new.number <= lastValue[new.kind]
    BY <2>1, <2>2 DEF NumberInv, NumbersTaken
  <2>7. \A q \in Requests : inserting'[q] # TheNumbers!Idle => q # r /\ inserting'[q] = inserting[q]
    BY <2>1 DEF NumberInv, NumbersTyped
  <2>8. NumbersTyped'
    BY <2>1, <2>7 DEF NumberInv, NumbersTyped
  <2>9. NumbersApart'
    BY <2>1, <2>5, <2>6 DEF NumberInv, NumbersApart
  <2>10. NumbersTaken'
    <3>1. \A q \in Requests :
            inserting'[q] # TheNumbers!Idle /\ inserting'[q].row.kind = new.kind
            /\ new.kind \in Sequenced => inserting'[q].row.number # new.number
      BY <2>1, <2>2, <2>7 DEF NumberInv, NumbersTaken
    <3> QED BY <2>1, <2>7, <3>1 DEF NumberInv, NumbersTaken
  <2> QED BY <2>8, <2>9, <2>10 DEF NumberInv
<1>6. ASSUME NEW r \in Requests, TheNumbers!Rollback(r) PROVE NumberInv'
  BY <1>6 DEF TheNumbers!Rollback, NumberInv, NumbersTyped, NumbersApart, NumbersTaken
<1>7. ASSUME NEW gone \in table, TheNumbers!Delete(gone) PROVE NumberInv'
  <2>1. /\ gone.kind # "payment" /\ table' \subseteq table
        /\ \A a \in table \ table' : a = gone \/ a.kind = "shipment"
        /\ UNCHANGED <<lastValue, inserting, lastPk, told>>
    BY <1>7 DEF TheNumbers!Delete, TheNumbers!ShipmentsOf, TheNumbers!Of
  <2> QED BY <2>1 DEF NumberInv, NumbersTyped, NumbersApart, NumbersTaken
<1> QED BY <1>1, <1>2, <1>3, <1>4, <1>5, <1>6, <1>7 DEF TheNumbers!Next, TheNumbers!Serve

\* A number that someone was told never comes to mean another order, payment
\* or shipment, and a number of a sequence is new when it is inserted
\* (allocate_order_number, allocate_shipment_number, Payment.save).
THEOREM NumbersKeepMeaning == Spec => []NumbersIdentify
<1>1. NumberInv => NumbersIdentify
  BY DEF NumberInv, NumbersApart, NumbersTaken, NumbersIdentify, TheNumbers!NumbersIdentify,
     TheNumbers!ByNumber, TheNumbers!Of, Sequenced
<1> QED BY <1>1, NumberInit, NumberStep, NumberKept, PTL DEF Spec

-----------------------------------------------------------------------------
(* What a delivery costs. *)

\* A step of the platform is a step of its tariffs, or leaves them alone.
LEMMA TariffStep == [Next]_vars => [TheTariffs!Next]_tariffVars
<1>1. ASSUME UNCHANGED vars PROVE UNCHANGED tariffVars
  BY <1>1 DEF vars, tariffVars
<1>2. ASSUME Next PROVE TheTariffs!Next \/ UNCHANGED tariffVars
  BY <1>2 DEF Next
<1> QED BY <1>1, <1>2

\* A cost is not below zero, and does not rise with the total.
LEMMA CostProperties ==
  ASSUME NEW t \in Tariffs, NEW weight \in Nat, NEW total \in Int, NEW more \in Int, total <= more
  PROVE  /\ TheTariffs!CalculateCost(t, total, weight) \in Nat
         /\ TheTariffs!CalculateCost(t, more, weight) <= TheTariffs!CalculateCost(t, total, weight)
<1>1. t.base \in Nat /\ t.perKg \in Nat /\ t.threshold \in Int /\ t.maximum \in Nat \cup {-1}
  BY TariffsAssumption
<1>2. PICK cost \in Nat : cost = t.base + t.perKg * weight
  <2>1. t.perKg * weight \in Nat
    BY <1>1
  <2> QED BY <1>1, <2>1
<1>3. \A n \in Int : TheTariffs!CalculateCost(t, n, weight) =
        IF t.threshold # -1 /\ n >= t.threshold THEN 0
        ELSE IF t.maximum # -1 THEN TheTariffs!Smaller(cost, t.maximum) ELSE cost
  BY <1>2 DEF TheTariffs!CalculateCost, TheTariffs!NoLimit
<1> QED BY <1>1, <1>3 DEF TheTariffs!Smaller

\* The place whose zone an order's delivery is priced by.
PlaceOf(bought) ==
  IF TheTariffs!ResolveZone(bought.region) # TheTariffs!NoZone THEN bought.region ELSE bought.city

\* The row of an order, how far its calculation is, and what its shipment is of.
RowKnown(r) ==
  /\ r = [step |-> r.step, bought |-> r.bought, zone |-> r.zone, method |-> r.method,
          delivery |-> r.delivery, shipment |-> r.shipment, edited |-> r.edited]
  /\ r.step \in {"region", "city", "method", "priced"}
  /\ r.bought \in Purchases /\ r.edited \in BOOLEAN
  /\ r.delivery \in Nat /\ r.delivery <= MaxShippingCost
  /\ r.method \in Methods \cup {TheTariffs!NoMethod}
  /\ r.step # "priced" => /\ r.method = TheTariffs!NoMethod /\ r.delivery = 0 /\ r.shipment = {}
  /\ r.step = "method" => r.zone # TheTariffs!NoZone
  /\ \A s \in r.shipment : s.method \in Methods

\* What the tariffs still say, if they were not edited meanwhile.
RowAgrees(r) ==
  /\ r.step = "city" => TheTariffs!ResolveZone(r.bought.region) = TheTariffs!NoZone
  /\ r.step = "method" => r.zone = TheTariffs!ResolveZone(PlaceOf(r.bought))
  /\ r.step = "priced" =>
       /\ r.delivery \in TheTariffs!Quoted(r)
       /\ r.method \in Methods =>
            /\ methods[r.method] \in Tariffs
            /\ r.delivery = TheTariffs!Smaller(TheTariffs!CalculateCost(methods[r.method],
                                                 r.bought.subtotal, r.bought.weight),
                                               MaxShippingCost)
       /\ \A s \in r.shipment :
            s.method = r.method /\ s.weight = r.bought.weight /\ r.bought.discount = 0
              => s.cost <= r.delivery

TariffInv ==
  /\ methods \in [Methods -> Tariffs \cup {TheTariffs!NoMethod}]
  /\ orders = [o \in Checkouts |-> orders[o]]
  /\ \A o \in Checkouts : orders[o] # TheTariffs!Unplaced =>
       RowKnown(orders[o]) /\ (~orders[o].edited => RowAgrees(orders[o]))

LEMMA TariffInit == Init => TariffInv
BY DEF Init, TheTariffs!Init, TariffInv

\* The tariffs are as they were, and one row is another.
LEMMA RowSet ==
  ASSUME TariffInv, UNCHANGED <<zones, methods>>, NEW o \in Checkouts, NEW CONSTANT new,
         new # TheTariffs!Unplaced, orders' = [orders EXCEPT ![o] = new],
         RowKnown(new), ~new.edited => RowAgrees(new)
  PROVE  TariffInv'
<1>1. \A r : RowAgrees(r)' <=> RowAgrees(r)
  <2>1. \A p : TheTariffs!ResolveZone(p)' = TheTariffs!ResolveZone(p)
    BY DEF TheTariffs!ResolveZone, TheTariffs!ContainsRegion
  <2>2. \A z : TheTariffs!ActiveFor(z)' = TheTariffs!ActiveFor(z)
    BY DEF TheTariffs!ActiveFor
  <2>3. \A ms : TheTariffs!FirstOf(ms)' = TheTariffs!FirstOf(ms)
    BY DEF TheTariffs!FirstOf
  <2>4. \A p, total, weight : TheTariffs!Quote(p, total, weight)' = TheTariffs!Quote(p, total, weight)
    BY <2>1, <2>2 DEF TheTariffs!Quote
  <2>5. \A r : TheTariffs!Quoted(r)' = TheTariffs!Quoted(r)
    BY <2>1, <2>3, <2>4 DEF TheTariffs!Quoted
  <2> QED BY <2>1, <2>5 DEF RowAgrees, PlaceOf
<1>2. ASSUME NEW p \in Checkouts, orders'[p] # TheTariffs!Unplaced
      PROVE  RowKnown(orders[p])' /\ (~orders[p].edited => RowAgrees(orders[p]))'
  <2>1. PICK r : r = orders'[p]
    OBVIOUS
  <2>2. r = new \/ r = orders[p]
    BY <2>1 DEF TariffInv
  <2>3. RowKnown(r) /\ (~r.edited => RowAgrees(r))
    BY <1>2, <2>1, <2>2 DEF TariffInv
  <2>4. RowKnown(orders[p])'
    BY <2>1, <2>3 DEF RowKnown
  <2>5. RowAgrees(r)' => RowAgrees(orders[p])'
    BY <2>1 DEF RowAgrees, PlaceOf
  <2> QED BY <1>1, <2>1, <2>3, <2>4, <2>5
<1> QED BY <1>2 DEF TariffInv

\* The tariffs are edited, and the rows remember that.
LEMMA TariffsEdited ==
  ASSUME TariffInv, TheTariffs!Edited,
         methods' \in [Methods -> Tariffs \cup {TheTariffs!NoMethod}]
  PROVE  TariffInv'
<1>1. ASSUME NEW p \in Checkouts, orders'[p] # TheTariffs!Unplaced
      PROVE  RowKnown(orders'[p]) /\ orders'[p].edited
  <2>1. orders[p] # TheTariffs!Unplaced /\ orders'[p] = [orders[p] EXCEPT !.edited = TRUE]
    BY <1>1 DEF TheTariffs!Edited
  <2>2. PICK r : r = orders[p] /\ RowKnown(r)
    BY <2>1 DEF TariffInv
  <2>3. orders'[p] = [step |-> r.step, bought |-> r.bought, zone |-> r.zone, method |-> r.method,
                      delivery |-> r.delivery, shipment |-> r.shipment, edited |-> TRUE]
    BY <2>1, <2>2 DEF RowKnown
  <2> QED BY <2>2, <2>3 DEF RowKnown
<1>2. orders' = [o \in Checkouts |-> orders'[o]]
  BY DEF TheTariffs!Edited
<1> QED BY <1>1, <1>2 DEF TariffInv, RowKnown

\* What an order may be charged, by the zone of the place it is priced by.
LEMMA QuotedIs ==
  ASSUME NEW r, RowKnown(r), NEW z, z = TheTariffs!ResolveZone(PlaceOf(r.bought))
  PROVE  /\ z = TheTariffs!NoZone => TheTariffs!Quoted(r) = {0}
         /\ z # TheTariffs!NoZone =>
              LET first == TheTariffs!FirstOf(TheTariffs!ActiveFor(z)) IN
              /\ first = {} => TheTariffs!Quoted(r) = {0}
              /\ \A m \in first :
                   TheTariffs!Smaller(TheTariffs!CalculateCost(methods[m], r.bought.subtotal,
                                                               r.bought.weight), MaxShippingCost)
                     \in TheTariffs!Quoted(r)
<1> DEFINE ms == IF z = TheTariffs!NoZone THEN {} ELSE TheTariffs!ActiveFor(z)
           Cost(m) == TheTariffs!CalculateCost(methods[m], r.bought.subtotal, r.bought.weight)
           quotes == {[method |-> m, cost |-> Cost(m)] : m \in ms}
<1>1. TheTariffs!Quote(PlaceOf(r.bought), r.bought.subtotal, r.bought.weight) = quotes
  BY DEF TheTariffs!Quote
<1>2. {q.method : q \in quotes} = ms
  <2>1. \A q \in quotes : q.method \in ms
    OBVIOUS
  <2>2. \A m \in ms : [method |-> m, cost |-> Cost(m)] \in quotes
    OBVIOUS
  <2>3. \A m \in ms : \E q \in quotes : q.method = m
    <3>1. \A m, c : [method |-> m, cost |-> c].method = m
      OBVIOUS
    <3> HIDE DEF ms, Cost, quotes
    <3> QED BY <2>2, <3>1, Zenon
  <2> HIDE DEF ms, Cost, quotes
  <2> QED BY <2>1, <2>3
<1>3. TheTariffs!Quoted(r) =
        IF TheTariffs!FirstOf(ms) = {} THEN {0}
        ELSE {TheTariffs!Smaller(q.cost, MaxShippingCost) :
                q \in {p \in quotes : p.method \in TheTariffs!FirstOf(ms)}}
  <2> HIDE DEF ms, quotes
  <2> QED BY <1>1, <1>2 DEF TheTariffs!Quoted, PlaceOf
<1>4. TheTariffs!FirstOf(ms) \subseteq ms
  BY DEF TheTariffs!FirstOf
<1>5. \A m \in TheTariffs!FirstOf(ms) :
        TheTariffs!Smaller(Cost(m), MaxShippingCost) \in TheTariffs!Quoted(r)
  <2> SUFFICES ASSUME NEW m \in TheTariffs!FirstOf(ms)
               PROVE  TheTariffs!Smaller(Cost(m), MaxShippingCost) \in TheTariffs!Quoted(r)
    OBVIOUS
  <2>1. PICK q : q = [method |-> m, cost |-> Cost(m)]
    OBVIOUS
  <2>2. q \in quotes /\ q.method = m /\ q.cost = Cost(m)
    BY <1>4, <2>1
  <2> HIDE DEF ms, Cost, quotes
  <2> QED BY <1>3, <2>2
<1>6. z = TheTariffs!NoZone => TheTariffs!FirstOf(ms) = {}
  BY <1>4
<1> QED BY <1>3, <1>5, <1>6

LEMMA TariffKept == TariffInv /\ [TheTariffs!Next]_tariffVars => TariffInv'
<1> SUFFICES ASSUME TariffInv, [TheTariffs!Next]_tariffVars PROVE TariffInv'
  OBVIOUS
<1>1. CASE UNCHANGED tariffVars
  <2>1. UNCHANGED <<zones, methods, orders>>
    BY <1>1 DEF tariffVars
  <2>2. CASE \E o \in Checkouts : orders[o] # TheTariffs!Unplaced
    <3>1. PICK o, new : o \in Checkouts /\ new = orders[o] /\ new # TheTariffs!Unplaced
      BY <2>2
    <3>2. orders' = [orders EXCEPT ![o] = new]
      BY <2>1, <3>1 DEF TariffInv
    <3> QED BY <2>1, <3>1, <3>2, RowSet DEF TariffInv
  <2>3. CASE \A o \in Checkouts : orders[o] = TheTariffs!Unplaced
    BY <2>1, <2>3 DEF TariffInv
  <2> QED BY <2>2, <2>3
<1>2. ASSUME NEW o \in Checkouts, NEW bought \in Purchases, TheTariffs!Place(o, bought)
      PROVE  TariffInv'
  <2>1. PICK new :
          new = [step |-> "region", bought |-> bought, zone |-> TheTariffs!NoZone,
                 method |-> TheTariffs!NoMethod, delivery |-> 0, shipment |-> {}, edited |-> FALSE]
    OBVIOUS
  <2>2. orders' = [orders EXCEPT ![o] = new] /\ UNCHANGED <<zones, methods>>
    BY <1>2, <2>1 DEF TheTariffs!Place
  <2>3. RowKnown(new) /\ RowAgrees(new)
    BY <2>1, TariffsAssumption DEF RowKnown, RowAgrees
  <2>4. new # TheTariffs!Unplaced
    BY <2>1 DEF TheTariffs!Unplaced
  <2> QED BY <2>2, <2>3, <2>4, RowSet
<1>3. ASSUME NEW o \in Checkouts, NEW step \in {"region", "city"},
             orders[o] # TheTariffs!Unplaced,
             step = "region" => TheTariffs!ResolveRegion(o), step = "city" => TheTariffs!ResolveCity(o)
      PROVE  TariffInv'
  <2>1. PICK r : r = orders[o] /\ RowKnown(r) /\ (~r.edited => RowAgrees(r))
    BY <1>3 DEF TariffInv
  <2> DEFINE place == IF step = "region" THEN r.bought.region ELSE r.bought.city
             otherwise == IF step = "region" /\ r.bought.city # NoPlace THEN "city" ELSE "priced"
  <2>2. PICK z : z = TheTariffs!ResolveZone(place)
    OBVIOUS
  <2>3. PICK new : new = [r EXCEPT !.zone = z,
                                   !.step = IF z # TheTariffs!NoZone THEN "method" ELSE otherwise]
    OBVIOUS
  <2>4. /\ r.step = step /\ UNCHANGED <<zones, methods>>
        /\ orders' = [orders EXCEPT ![o] = new]
    <3>1. \A x : [orders EXCEPT ![o].zone = x,
                                ![o].step = IF x # TheTariffs!NoZone THEN "method" ELSE otherwise]
            = [orders EXCEPT ![o] = [orders[o] EXCEPT !.zone = x,
                                !.step = IF x # TheTariffs!NoZone THEN "method" ELSE otherwise]]
      BY DEF TariffInv
    <3>2. TheTariffs!ResolveBy(o, step, place, otherwise)
      <4>1. CASE step = "region"
        BY <1>3, <2>1, <4>1 DEF TheTariffs!ResolveRegion
      <4>2. CASE step = "city"
        BY <1>3, <2>1, <4>2 DEF TheTariffs!ResolveCity
      <4> QED BY <4>1, <4>2
    <3>3. /\ orders[o].step = step /\ UNCHANGED <<zones, methods>>
          /\ orders' = [orders EXCEPT ![o].zone = z,
                            ![o].step = IF z # TheTariffs!NoZone THEN "method" ELSE otherwise]
      <4> HIDE DEF place, otherwise
      <4> QED BY <2>2, <3>2, Zenon DEF TheTariffs!ResolveBy
    <3>4. orders' = [orders EXCEPT ![o] = [orders[o] EXCEPT !.zone = z,
                            !.step = IF z # TheTariffs!NoZone THEN "method" ELSE otherwise]]
      <4> HIDE DEF place, otherwise
      <4> QED BY <3>1, <3>3, Zenon
    <3> HIDE DEF place, otherwise
    <3> QED BY <2>1, <2>3, <3>3, <3>4
  <2>5. new = [step |-> IF z # TheTariffs!NoZone THEN "method" ELSE otherwise, bought |-> r.bought,
               zone |-> z, method |-> r.method, delivery |-> r.delivery, shipment |-> r.shipment,
               edited |-> r.edited]
    BY <2>1, <2>3 DEF RowKnown
  <2>6. RowKnown(new) /\ new # TheTariffs!Unplaced
    BY <2>1, <2>4, <2>5 DEF RowKnown, TheTariffs!Unplaced
  <2>7. ASSUME ~new.edited PROVE RowAgrees(new)
    <3>1. RowAgrees(r) /\ new.bought = r.bought
      BY <2>1, <2>5, <2>7
    <3>2. TheTariffs!ResolveZone(NoPlace) = TheTariffs!NoZone
      BY DEF TheTariffs!ResolveZone, TheTariffs!ContainsRegion
    <3>3. CASE z # TheTariffs!NoZone
      BY <2>2, <2>4, <2>5, <3>1, <3>3 DEF RowAgrees, PlaceOf
    <3>4. CASE z = TheTariffs!NoZone /\ otherwise = "city"
      BY <2>2, <2>5, <3>1, <3>4 DEF RowAgrees
    <3>5. CASE z = TheTariffs!NoZone /\ otherwise = "priced"
      <4>1. TheTariffs!ResolveZone(PlaceOf(r.bought)) = TheTariffs!NoZone
        BY <2>2, <2>4, <3>1, <3>2, <3>5 DEF PlaceOf, RowAgrees
      <4>2. TheTariffs!Quoted(new) = {0}
        BY <2>6, <3>1, <4>1, QuotedIs
      <4>3. new.method = TheTariffs!NoMethod /\ new.delivery = 0 /\ new.shipment = {}
            /\ new.step = "priced"
        BY <2>1, <2>4, <2>5, <3>5 DEF RowKnown
      <4> QED BY <4>2, <4>3, MethodsAssumption DEF RowAgrees, TheTariffs!NoMethod, TheTariffs!NoZone
    <3> QED BY <3>3, <3>4, <3>5
  <2> QED BY <2>4, <2>6, <2>7, RowSet
<1>4. ASSUME NEW o \in Checkouts, TheTariffs!PriceDelivery(o)
      PROVE  TariffInv'
  <2>1. orders[o].step = "method" /\ UNCHANGED <<zones, methods>>
    BY <1>4, Zenon DEF TheTariffs!PriceDelivery
  <2>2. PICK r : r = orders[o] /\ RowKnown(r) /\ (~r.edited => RowAgrees(r))
    BY <2>1 DEF TariffInv, TheTariffs!Unplaced
  <2> DEFINE found == TheTariffs!FirstOf(TheTariffs!ActiveFor(r.zone))
             Cost(m) == TheTariffs!CalculateCost(methods[m], r.bought.subtotal, r.bought.weight)
  <2>3. \/ found = {} /\ orders' = [orders EXCEPT ![o].step = "priced"]
        \/ \E m \in found :
             orders' = [orders EXCEPT ![o].step = "priced", ![o].method = m,
                                      ![o].delivery = TheTariffs!Smaller(Cost(m), MaxShippingCost)]
    <3>1. r = orders[o]
      BY <2>2
    <3> QED BY <1>4, <3>1, Zenon DEF TheTariffs!PriceDelivery
  <2>4. CASE found = {} /\ orders' = [orders EXCEPT ![o].step = "priced"]
    <3>1. PICK new : new = [r EXCEPT !.step = "priced"]
      OBVIOUS
    <3>2. orders' = [orders EXCEPT ![o] = new]
      BY <2>2, <2>4, <3>1
    <3>3. new = [step |-> "priced", bought |-> r.bought, zone |-> r.zone, method |-> r.method,
                 delivery |-> r.delivery, shipment |-> r.shipment, edited |-> r.edited]
      BY <2>2, <3>1 DEF RowKnown
    <3>4. RowKnown(new) /\ new # TheTariffs!Unplaced
      BY <2>2, <3>3 DEF RowKnown, TheTariffs!Unplaced
    <3>5. ASSUME ~new.edited PROVE RowAgrees(new)
      <4>1. r.zone = TheTariffs!ResolveZone(PlaceOf(new.bought))
        BY <2>1, <2>2, <3>3, <3>5 DEF RowAgrees
      <4>2. TheTariffs!Quoted(new) = {0}
        BY <2>4, <3>4, <4>1, QuotedIs
      <4>3. new.method = TheTariffs!NoMethod /\ new.delivery = 0 /\ new.shipment = {}
            /\ new.step = "priced"
        BY <2>1, <2>2, <3>3 DEF RowKnown
      <4> QED BY <4>2, <4>3, MethodsAssumption DEF RowAgrees, TheTariffs!NoMethod, TheTariffs!NoZone
    <3> QED BY <2>1, <3>2, <3>4, <3>5, RowSet
  <2>5. ASSUME NEW m \in found,
               orders' = [orders EXCEPT ![o].step = "priced", ![o].method = m,
                                        ![o].delivery = TheTariffs!Smaller(Cost(m), MaxShippingCost)]
        PROVE  TariffInv'
    <3>1. PICK cost : cost = TheTariffs!Smaller(Cost(m), MaxShippingCost)
      OBVIOUS
    <3>2. PICK new : new = [r EXCEPT !.step = "priced", !.method = m, !.delivery = cost]
      OBVIOUS
    <3>3. orders' = [orders EXCEPT ![o] = new]
      BY <2>2, <2>5, <3>1, <3>2 DEF TariffInv
    <3>4. new = [step |-> "priced", bought |-> r.bought, zone |-> r.zone, method |-> m,
                 delivery |-> cost, shipment |-> r.shipment, edited |-> r.edited]
      BY <2>2, <3>2 DEF RowKnown
    <3>5. m \in Methods /\ methods[m] \in Tariffs
      <4>1. r.zone # TheTariffs!NoZone
        BY <2>1, <2>2 DEF RowKnown
      <4>2. m \in Methods /\ methods[m].zone = r.zone
        BY <2>5 DEF TheTariffs!FirstOf, TheTariffs!ActiveFor
      <4> QED BY <4>1, <4>2 DEF TariffInv, TheTariffs!NoMethod
    <3>6. r.bought.subtotal \in Nat /\ r.bought.weight \in Nat /\ r.bought \in Purchases
      BY <2>2, TariffsAssumption DEF RowKnown
    <3>7. cost \in Nat /\ cost <= MaxShippingCost
      <4>1. Cost(m) \in Nat
        BY <3>5, <3>6, CostProperties
      <4> QED BY <3>1, <4>1, TariffsAssumption DEF TheTariffs!Smaller
    <3>8. RowKnown(new) /\ new # TheTariffs!Unplaced
      BY <2>1, <2>2, <3>4, <3>5, <3>7 DEF RowKnown, TheTariffs!Unplaced
    <3>9. ASSUME ~new.edited PROVE RowAgrees(new)
      <4>1. r.zone = TheTariffs!ResolveZone(PlaceOf(new.bought)) /\ r.zone # TheTariffs!NoZone
        BY <2>1, <2>2, <3>4, <3>9 DEF RowAgrees, RowKnown
      <4>2. cost \in TheTariffs!Quoted(new)
        BY <2>5, <3>1, <3>4, <3>8, <4>1, QuotedIs
      <4>3. r.shipment = {}
        BY <2>1, <2>2 DEF RowKnown
      <4> QED BY <3>1, <3>4, <3>5, <4>2, <4>3 DEF RowAgrees
    <3> QED BY <2>1, <3>3, <3>8, <3>9, RowSet
  <2> HIDE DEF found, Cost
  <2> QED BY <2>3, <2>4, <2>5, Zenon
<1>5. ASSUME NEW o \in Checkouts, NEW m \in Methods, NEW weight \in {p.weight : p \in Purchases},
             TheTariffs!CreateShipment(o, m, weight)
      PROVE  TariffInv'
  <2>1. /\ orders[o].step = "priced" /\ orders[o].shipment = {} /\ methods[m] # TheTariffs!NoMethod
        /\ UNCHANGED <<zones, methods>>
    BY <1>5 DEF TheTariffs!CreateShipment
  <2>2. PICK r : r = orders[o] /\ RowKnown(r) /\ (~r.edited => RowAgrees(r))
    BY <2>1 DEF TariffInv, TheTariffs!Unplaced
  <2>3. PICK cost : cost = TheTariffs!CalculateCost(methods[m], TheTariffs!Total(r), weight)
    OBVIOUS
  <2>4. PICK made : made = [method |-> m, cost |-> cost, weight |-> weight]
    OBVIOUS
  <2>5. PICK new : new = [r EXCEPT !.shipment = {made}]
    OBVIOUS
  <2>6. cost <= MaxShippingCost /\ orders' = [orders EXCEPT ![o] = new]
    BY <1>5, <2>2, <2>3, <2>4, <2>5 DEF TheTariffs!CreateShipment
  <2>7. new = [step |-> r.step, bought |-> r.bought, zone |-> r.zone, method |-> r.method,
               delivery |-> r.delivery, shipment |-> {made}, edited |-> r.edited]
    BY <2>2, <2>5 DEF RowKnown
  <2>8. RowKnown(new) /\ new # TheTariffs!Unplaced
    BY <2>1, <2>2, <2>4, <2>7 DEF RowKnown, TheTariffs!Unplaced
  <2>9. ASSUME ~new.edited PROVE RowAgrees(new)
    <3>1. RowAgrees(r) /\ new.step = "priced" /\ r.step = "priced"
      BY <2>1, <2>2, <2>7, <2>9
    <3>2. TheTariffs!Quoted(new) = TheTariffs!Quoted(r)
      BY <2>7 DEF TheTariffs!Quoted
    <3>3. ASSUME m = r.method, weight = r.bought.weight, r.bought.discount = 0
          PROVE  cost <= r.delivery
      <4>1. /\ r.bought.subtotal \in Nat /\ r.bought.weight \in Nat /\ r.delivery \in Nat
            /\ r.bought.discount \in Nat
        BY <2>2, TariffsAssumption DEF RowKnown
      <4>2. methods[m] \in Tariffs
        BY <2>1 DEF TariffInv
      <4>3. PICK total \in Int : total = TheTariffs!Total(r) /\ r.bought.subtotal <= total
        BY <3>3, <4>1 DEF TheTariffs!Total
      <4>4. PICK first \in Nat : first = TheTariffs!CalculateCost(methods[m], r.bought.subtotal, weight)
        BY <3>3, <4>1, <4>2, CostProperties
      <4>5. cost \in Nat /\ cost <= first
        BY <2>3, <3>3, <4>1, <4>2, <4>3, <4>4, CostProperties
      <4>6. r.delivery = TheTariffs!Smaller(first, MaxShippingCost)
        BY <3>1, <3>3, <4>4 DEF RowAgrees
      <4> QED BY <2>6, <4>4, <4>5, <4>6, TariffsAssumption DEF TheTariffs!Smaller
    <3> QED BY <2>4, <2>7, <3>1, <3>2, <3>3 DEF RowAgrees
  <2> QED BY <2>1, <2>6, <2>8, <2>9, RowSet
<1>6. ASSUME NEW z \in Zones, NEW active \in BOOLEAN, NEW places \in Coverages,
             TheTariffs!SaveZone(z, active, places)
      PROVE  TariffInv'
  BY <1>6, TariffsEdited DEF TheTariffs!SaveZone, TariffInv
<1>7. ASSUME NEW m \in Methods, TheTariffs!DeleteMethod(m) PROVE TariffInv'
  BY <1>7, TariffsEdited DEF TheTariffs!DeleteMethod, TariffInv
<1>8. ASSUME NEW m \in Methods, NEW t \in Tariffs, TheTariffs!SaveMethod(m, t) PROVE TariffInv'
  BY <1>8, TariffsEdited DEF TheTariffs!SaveMethod, TariffInv
<1>9. ASSUME NEW o \in Checkouts, TheTariffs!ResolveRegion(o) \/ TheTariffs!ResolveCity(o)
      PROVE  TariffInv'
  <2>1. orders[o] # TheTariffs!Unplaced
    BY <1>9 DEF TheTariffs!ResolveRegion, TheTariffs!ResolveCity
  <2>2. CASE TheTariffs!ResolveRegion(o)
    <3>1. \A step \in {"region"} : /\ step = "region" => TheTariffs!ResolveRegion(o)
                                   /\ step = "city" => TheTariffs!ResolveCity(o)
      BY <2>2
    <3> QED BY <1>3, <2>1, <3>1
  <2>3. CASE TheTariffs!ResolveCity(o)
    <3>1. \A step \in {"city"} : /\ step = "region" => TheTariffs!ResolveRegion(o)
                                 /\ step = "city" => TheTariffs!ResolveCity(o)
      BY <2>3
    <3> QED BY <1>3, <2>1, <3>1
  <2> QED BY <1>9, <2>2, <2>3
<1> QED BY <1>1, <1>2, <1>4, <1>5, <1>6, <1>7, <1>8, <1>9 DEF TheTariffs!Next

\* Where no tariff was edited meanwhile, an order pays for its delivery what it
\* was quoted, and a shipment costs no more than that (create_order,
\* create_shipment).
THEOREM DeliveriesAgree == Spec => []DeliveryAgrees
<1>1. TariffInv => DeliveryAgrees
  BY DEF TariffInv, RowKnown, RowAgrees, DeliveryAgrees, TheTariffs!DeliveryAgrees
<1> QED BY <1>1, TariffInit, TariffStep, TariffKept, PTL DEF Spec

-----------------------------------------------------------------------------
(* Under which identifiers a process works. *)

\* A step of the platform is one of the processes, or leaves them alone.
LEMMA ContextStep == [Next]_vars => [TheContexts!Next]_contextVars
<1>1. ASSUME UNCHANGED vars PROVE UNCHANGED contextVars
  BY <1>1 DEF vars, contextVars
<1>2. ASSUME Next PROVE TheContexts!Next \/ UNCHANGED contextVars
  BY <1>2 DEF Next
<1> QED
  BY <1>1, <1>2

IdPair == [request : Nat, correlation : Nat]
SavedContext == [task : Nat, before : IdPair]
RequestWork == [kind : {"request"}, before : IdPair, request : Nat, correlations : SUBSET Nat]
TaskWork == [kind : {"task"}, task : Nat, root : Nat \ {0}, request : Nat,
             correlations : SUBSET Nat]
Work == RequestWork \cup TaskWork
QueuedTask == [task : Nat, headers : IdPair, root : Nat \ {0}, request : Nat,
               correlations : SUBSET Nat]

ContextsTyped ==
  /\ context \in [TheContexts!Processes -> IdPair]
  /\ states \in [TheContexts!Processes -> Seq(SavedContext)]
  /\ running \in [TheContexts!Processes -> Seq(Work)]
  /\ queued \subseteq QueuedTask
  /\ lastId \in Nat
  /\ leaked \subseteq Nat

\* The identifiers fit the work, but for what was excused.
Serves(ids, work, excused) ==
  /\ ids.request = work.request
  /\ ids.correlation # 0 /\ ids.correlation \in work.correlations \cup excused

\* They are those of a process that does nothing.
Rests(ids, excused) == ids.request = 0 /\ ids.correlation \in {0} \cup excused

\* The context that the i-th of the works r replaced: the states s end with
\* those of its tasks.
Replaced(s, r, i) ==
  IF r[i].kind = "request" THEN r[i].before ELSE s[Len(s) - Len(r) + i].before

\* The context to which the process returns, or in which it is, within the
\* first i of its works.
Within(c, s, r, i) == IF i = Len(r) THEN c ELSE Replaced(s, r, i + 1)

\* A request is the outermost work of a web thread and of no other; below it
\* is one state for each task, and a worker's first states are inherited.
Stacked(p, excused, s, r) ==
  LET inherited == Len(s) - Len(r) + (IF p \in Web /\ r # <<>> THEN 1 ELSE 0)
  IN /\ inherited >= 0 /\ (excused = {} => inherited = 0)
     /\ \A i \in 1..Len(r) :
          /\ (r[i].kind = "request") <=> (p \in Web /\ i = 1)
          /\ r[i].kind = "task" => s[Len(s) - Len(r) + i].task = r[i].task

\* At each depth the context is that of the work at that depth.
Nested(excused, c, s, r) ==
  /\ Rests(Within(c, s, r, 0), excused)
  /\ \A i \in 1..Len(r) : Serves(Within(c, s, r, i), r[i], excused)

Excused(p) == IF p \in CeleryWorkers THEN leaked ELSE {}

ProcessesHold ==
  \A p \in Web \cup CeleryWorkers :
    /\ Stacked(p, Excused(p), states[p], running[p])
    /\ Nested(Excused(p), context[p], states[p], running[p])

ParentHolds ==
  /\ running[Parent] = <<>> /\ Rests(context[Parent], leaked)
  /\ leaked = {} => states[Parent] = <<>>

\* A message is sent under the identifiers of the work that sends it.
MessageHolds(m, spread) ==
  /\ m.headers.request = m.request
  /\ m.headers.correlation \in {0} \cup m.correlations \cup spread
  /\ m.root \in m.correlations

MessagesHold == \A m \in queued : MessageHolds(m, leaked)

ContextInv == ContextsTyped /\ ProcessesHold /\ ParentHolds /\ MessagesHold

LEMMA FrontProperties ==
  ASSUME NEW S, NEW s \in Seq(S), s # <<>>
  PROVE  /\ Len(s) \in Nat \ {0}
         /\ TheContexts!Front(s) \in Seq(S) /\ Len(TheContexts!Front(s)) = Len(s) - 1
         /\ \A i \in 1..Len(s) - 1 : TheContexts!Front(s)[i] = s[i]
         /\ TheContexts!Last(s) = s[Len(s)] /\ s[Len(s)] \in S
<1>1. Len(s) \in Nat \ {0} /\ s[Len(s)] \in S
  OBVIOUS
<1>2. TheContexts!Front(s) = SubSeq(s, 1, Len(s) - 1)
  BY DEF TheContexts!Front
<1>3. SubSeq(s, 1, Len(s) - 1) = [i \in 1..Len(s) - 1 |-> s[i]]
  BY <1>1
<1>4. [i \in 1..Len(s) - 1 |-> s[i]] \in Seq(S)
  BY <1>1
<1>5. Len([i \in 1..Len(s) - 1 |-> s[i]]) = Len(s) - 1
  BY <1>1
<1> QED BY <1>1, <1>2, <1>3, <1>4, <1>5 DEF TheContexts!Last

\* A task is begun: its state and its work are put on top.
LEMMA Pushed ==
  ASSUME NEW p, NEW excused, NEW c \in IdPair, NEW c2 \in IdPair,
         NEW s \in Seq(SavedContext), NEW r \in Seq(Work),
         NEW work \in TaskWork, NEW state \in SavedContext,
         Stacked(p, excused, s, r), Nested(excused, c, s, r),
         p \in Web => r # <<>>,
         state.task = work.task, state.before = c, Serves(c2, work, excused)
  PROVE  /\ Stacked(p, excused, Append(s, state), Append(r, work))
         /\ Nested(excused, c2, Append(s, state), Append(r, work))
<1> DEFINE s2 == Append(s, state)
           r2 == Append(r, work)
<1>1. /\ s2 \in Seq(SavedContext) /\ Len(s) \in Nat /\ Len(s2) = Len(s) + 1
      /\ s2[Len(s) + 1] = state /\ \A i \in 1..Len(s) : s2[i] = s[i]
  OBVIOUS
<1>2. /\ r2 \in Seq(Work) /\ Len(r) \in Nat /\ Len(r2) = Len(r) + 1
      /\ r2[Len(r) + 1] = work /\ \A i \in 1..Len(r) : r2[i] = r[i]
      /\ r2 # <<>> /\ (r = <<>> <=> Len(r) = 0)
  BY DEF Work
<1>3. work.kind = "task"
  BY DEF TaskWork
<1> HIDE DEF s2, r2
<1>4. \A i \in 1..Len(r) : /\ (r[i].kind = "request") <=> (p \in Web /\ i = 1)
                           /\ r[i].kind = "task" => s[Len(s) - Len(r) + i].task = r[i].task
  BY DEF Stacked
<1>5. \A i \in 1..Len(r) : r[i].kind \in {"request", "task"}
  BY DEF Work, TaskWork, RequestWork
<1>6. \A i \in 1..Len(r) : r[i].kind = "task" => Len(s) - Len(r) + i \in 1..Len(s)
  <2> SUFFICES ASSUME NEW i \in 1..Len(r), r[i].kind = "task"
               PROVE  Len(s) - Len(r) + i >= 1
    BY <1>1, <1>2
  <2>1. ~(p \in Web /\ i = 1)
    BY <1>4
  <2>2. p \in Web => Len(s) - Len(r) + 1 >= 0
    BY <1>2 DEF Stacked
  <2>3. p \notin Web => Len(s) - Len(r) >= 0
    BY DEF Stacked
  <2> QED BY <1>1, <1>2, <2>1, <2>2, <2>3
<1>7. Stacked(p, excused, s2, r2)
  <2>1. Len(s2) - Len(r2) = Len(s) - Len(r)
    BY <1>1, <1>2
  <2>2. (p \in Web /\ r2 # <<>>) <=> (p \in Web /\ r # <<>>)
    BY <1>2
  <2>3. ASSUME NEW i \in 1..Len(r2)
        PROVE  /\ (r2[i].kind = "request") <=> (p \in Web /\ i = 1)
               /\ r2[i].kind = "task" => s2[Len(s2) - Len(r2) + i].task = r2[i].task
    <3>1. CASE i \in 1..Len(r)
      <4>1. r2[i] = r[i] /\ Len(s2) - Len(r2) + i = Len(s) - Len(r) + i
        BY <1>2, <2>1, <3>1
      <4> QED BY <1>1, <1>4, <1>6, <3>1, <4>1
    <3>2. CASE i = Len(r) + 1
      <4>1. r2[i] = work /\ Len(s2) - Len(r2) + i = Len(s) + 1
        BY <1>1, <1>2, <3>2
      <4>2. ~(p \in Web /\ i = 1)
        BY <1>2, <3>2
      <4> QED BY <1>1, <1>3, <4>1, <4>2
    <3> QED BY <1>2, <3>1, <3>2
  <2> QED BY <2>1, <2>2, <2>3 DEF Stacked
<1>8. ASSUME NEW i \in 0..Len(r) PROVE Within(c2, s2, r2, i) = Within(c, s, r, i)
  <2>1. Within(c2, s2, r2, i) = Replaced(s2, r2, i + 1)
    BY <1>2 DEF Within
  <2>2. CASE i = Len(r)
    <3>1. r2[i + 1] = work /\ Len(s2) - Len(r2) + (i + 1) = Len(s) + 1
      BY <1>1, <1>2, <2>2
    <3>2. Replaced(s2, r2, i + 1) = c
      BY <1>1, <1>3, <3>1 DEF Replaced
    <3> QED BY <2>1, <2>2, <3>2 DEF Within
  <2>3. CASE i # Len(r)
    <3>1. i + 1 \in 1..Len(r)
      BY <1>2, <2>3
    <3>2. r2[i + 1] = r[i + 1] /\ Len(s2) - Len(r2) + (i + 1) = Len(s) - Len(r) + (i + 1)
      BY <1>1, <1>2, <3>1
    <3>3. Replaced(s2, r2, i + 1) = Replaced(s, r, i + 1)
      BY <1>1, <1>5, <1>6, <3>1, <3>2 DEF Replaced
    <3> QED BY <2>1, <2>3, <3>3 DEF Within
  <2> QED BY <2>2, <2>3
<1>9. Nested(excused, c2, s2, r2)
  <2>1. Rests(Within(c2, s2, r2, 0), excused)
    BY <1>2, <1>8 DEF Nested
  <2>2. ASSUME NEW i \in 1..Len(r2) PROVE Serves(Within(c2, s2, r2, i), r2[i], excused)
    <3>1. CASE i \in 1..Len(r)
      BY <1>2, <1>8, <3>1 DEF Nested
    <3>2. CASE i = Len(r) + 1
      BY <1>2, <3>2 DEF Within
    <3> QED BY <1>2, <3>1, <3>2
  <2> QED BY <2>1, <2>2 DEF Nested
<1> QED BY <1>7, <1>9 DEF s2, r2

\* A task ends: the state on top is its own, and holds the context in which it
\* was called.
LEMMA Popped ==
  ASSUME NEW p, NEW excused, NEW c \in IdPair,
         NEW s \in Seq(SavedContext), NEW r \in Seq(Work),
         Stacked(p, excused, s, r), Nested(excused, c, s, r),
         r # <<>>, r[Len(r)].kind = "task"
  PROVE  /\ s # <<>> /\ s[Len(s)].task = r[Len(r)].task
         /\ Stacked(p, excused, TheContexts!Front(s), TheContexts!Front(r))
         /\ Nested(excused, s[Len(s)].before, TheContexts!Front(s), TheContexts!Front(r))
<1> DEFINE s2 == TheContexts!Front(s)
           r2 == TheContexts!Front(r)
           n == Len(r)
<1>1. /\ n \in Nat \ {0} /\ r2 \in Seq(Work) /\ Len(r2) = n - 1
      /\ \A i \in 1..n - 1 : r2[i] = r[i]
  BY FrontProperties
<1>2. \A i \in 1..n : /\ (r[i].kind = "request") <=> (p \in Web /\ i = 1)
                      /\ r[i].kind = "task" => s[Len(s) - n + i].task = r[i].task
  BY DEF Stacked
<1>3. ~(p \in Web /\ n = 1)
  BY <1>1, <1>2
<1>4. Len(s) \in Nat /\ Len(s) >= 1 /\ s # <<>>
  <2>1. Len(s) \in Nat
    OBVIOUS
  <2>2. p \in Web => Len(s) - n + 1 >= 0
    BY DEF Stacked
  <2>3. p \notin Web => Len(s) - n >= 0
    BY DEF Stacked
  <2>4. Len(s) >= 1
    BY <1>1, <1>3, <2>1, <2>2, <2>3
  <2> QED BY <2>1, <2>4
<1>5. /\ s2 \in Seq(SavedContext) /\ Len(s2) = Len(s) - 1
      /\ \A i \in 1..Len(s) - 1 : s2[i] = s[i]
  BY <1>4, FrontProperties
<1>6. s[Len(s)].task = r[n].task
  BY <1>1, <1>2, <1>4
<1> HIDE DEF s2, r2, n
<1>7. r2 # <<>> <=> n # 1
  BY <1>1
<1>8. \A i \in 1..n - 1 : r2[i].kind # "request" => Len(s) - n + i \in 1..Len(s) - 1
  <2> SUFFICES ASSUME NEW i \in 1..n - 1, r2[i].kind # "request"
               PROVE  Len(s) - n + i \in 1..Len(s) - 1
    OBVIOUS
  <2>1. ~(p \in Web /\ i = 1)
    BY <1>1, <1>2
  <2>2. p \in Web => Len(s) - n + 1 >= 0
    BY DEF Stacked, n
  <2>3. p \notin Web => Len(s) - n >= 0
    BY DEF Stacked, n
  <2> QED BY <1>1, <1>4, <2>1, <2>2, <2>3
<1>9. Len(s2) - Len(r2) = Len(s) - n
  BY <1>1, <1>4, <1>5
<1>10. Stacked(p, excused, s2, r2)
  <2>1. (p \in Web /\ r2 # <<>>) <=> (p \in Web /\ r # <<>>)
    BY <1>1, <1>3, <1>7
  <2>2. ASSUME NEW i \in 1..Len(r2)
        PROVE  /\ (r2[i].kind = "request") <=> (p \in Web /\ i = 1)
               /\ r2[i].kind = "task" => s2[Len(s2) - Len(r2) + i].task = r2[i].task
    <3>1. i \in 1..n - 1 /\ i \in 1..n /\ r2[i] = r[i]
      BY <1>1
    <3> QED BY <1>2, <1>5, <1>8, <1>9, <3>1, ZenonT(60)
  <2>3. /\ Len(s) - n + (IF p \in Web /\ r # <<>> THEN 1 ELSE 0) >= 0
        /\ excused = {} => Len(s) - n + (IF p \in Web /\ r # <<>> THEN 1 ELSE 0) = 0
    BY DEF Stacked, n
  <2> QED BY <1>9, <2>1, <2>2, <2>3 DEF Stacked
<1>11. ASSUME NEW i \in 0..n - 1
       PROVE  Within(s[Len(s)].before, s2, r2, i) = Within(c, s, r, i)
  <2>1. Within(c, s, r, i) = Replaced(s, r, i + 1)
    BY <1>1 DEF Within, n
  <2>2. CASE i = n - 1
    <3>1. Replaced(s, r, i + 1) = s[Len(s)].before
      BY <1>1, <1>4, <2>2 DEF Replaced, n
    <3> QED BY <1>1, <2>1, <2>2, <3>1 DEF Within
  <2>3. CASE i # n - 1
    <3>1. i + 1 \in 1..n - 1 /\ r2[i + 1] = r[i + 1]
      BY <1>1, <2>3
    <3>2. Replaced(s2, r2, i + 1) = Replaced(s, r, i + 1)
      BY <1>5, <1>8, <1>9, <3>1 DEF Replaced, n
    <3> QED BY <1>1, <2>1, <2>3, <3>2 DEF Within
  <2> QED BY <2>2, <2>3
<1>12. Nested(excused, s[Len(s)].before, s2, r2)
  BY <1>1, <1>11 DEF Nested, n
<1> QED BY <1>4, <1>6, <1>10, <1>12 DEF s2, r2, n

\* A process without work.
LEMMA Resting ==
  ASSUME NEW p, NEW excused, NEW c, NEW s \in Seq(SavedContext),
         Rests(c, excused), excused = {} => s = <<>>
  PROVE  Stacked(p, excused, s, <<>>) /\ Nested(excused, c, s, <<>>)
<1>1. Len(s) \in Nat /\ (s = <<>> => Len(s) = 0)
  OBVIOUS
<1> QED BY <1>1 DEF Stacked, Nested, Within

\* More may be excused.
LEMMA MoreExcused ==
  ASSUME NEW p, NEW excused, NEW more, excused \subseteq more, NEW c,
         NEW s, NEW r, Stacked(p, excused, s, r), Nested(excused, c, s, r)
  PROVE  Stacked(p, more, s, r) /\ Nested(more, c, s, r)
<1>1. Stacked(p, more, s, r)
  BY DEF Stacked
<1>2. Nested(more, c, s, r)
  BY DEF Nested, Rests, Serves
<1> QED BY <1>1, <1>2

LEMMA ContextInit == Init => ContextInv
<1> SUFFICES ASSUME Init PROVE ContextInv
  OBVIOUS
<1>1. /\ context = [p \in TheContexts!Processes |-> TheContexts!NoContext]
      /\ states = [p \in TheContexts!Processes |-> <<>>]
      /\ running = [p \in TheContexts!Processes |-> <<>>]
      /\ queued = {} /\ lastId = TheContexts!Max(Given) /\ leaked = {}
  BY DEF Init, TheContexts!Init
<1>2. lastId \in Nat
  <2>1. PICK last \in Given : \A id \in Given : last >= id
    BY GivenAssumption
  <2>2. TheContexts!Max(Given) \in Given
    BY <2>1 DEF TheContexts!Max
  <2> QED BY <1>1, <2>2, GivenAssumption
<1>3. TheContexts!NoContext \in IdPair /\ \A excused : Rests(TheContexts!NoContext, excused)
  BY DEF TheContexts!NoContext, TheContexts!Ids, TheContexts!NoId, IdPair, Rests
<1>4. ContextsTyped
  BY <1>1, <1>2, <1>3 DEF ContextsTyped
<1>5. ProcessesHold
  <2> SUFFICES ASSUME NEW p \in Web \cup CeleryWorkers
               PROVE  /\ Stacked(p, Excused(p), states[p], running[p])
                      /\ Nested(Excused(p), context[p], states[p], running[p])
    BY DEF ProcessesHold
  <2>1. context[p] = TheContexts!NoContext /\ states[p] = <<>> /\ running[p] = <<>>
    BY <1>1 DEF TheContexts!Processes
  <2>2. <<>> \in Seq(SavedContext) /\ Rests(TheContexts!NoContext, Excused(p))
    BY <1>3
  <2>3. /\ Stacked(p, Excused(p), <<>>, <<>>)
        /\ Nested(Excused(p), TheContexts!NoContext, <<>>, <<>>)
    BY <2>2, Resting
  <2> QED BY <2>1, <2>3
<1>6. ParentHolds
  BY <1>1, <1>3 DEF ParentHolds, TheContexts!Processes
<1>7. MessagesHold
  BY <1>1 DEF MessagesHold
<1> QED BY <1>4, <1>5, <1>6, <1>7 DEF ContextInv

\* The identifiers of a process that works are those of the work.
LEMMA WorkServed ==
  ASSUME ContextInv, NEW p \in TheContexts!Processes, TheContexts!Working(p)
  PROVE  /\ p \in Web \cup CeleryWorkers
         /\ context[p] \in IdPair /\ states[p] \in Seq(SavedContext) /\ running[p] \in Seq(Work)
         /\ running[p] # <<>> /\ Len(running[p]) \in Nat \ {0}
         /\ TheContexts!Innermost(p) = running[p][Len(running[p])]
         /\ TheContexts!Innermost(p) \in Work
         /\ Serves(context[p], TheContexts!Innermost(p), Excused(p))
         /\ Stacked(p, Excused(p), states[p], running[p])
         /\ Nested(Excused(p), context[p], states[p], running[p])
<1>1. p \in Web \cup CeleryWorkers /\ running[p] # <<>>
  BY DEF ContextInv, ParentHolds, TheContexts!Processes, TheContexts!Working
<1>2. /\ context[p] \in IdPair /\ states[p] \in Seq(SavedContext) /\ running[p] \in Seq(Work)
  BY DEF ContextInv, ContextsTyped
<1>3. /\ Stacked(p, Excused(p), states[p], running[p])
      /\ Nested(Excused(p), context[p], states[p], running[p])
  BY <1>1 DEF ContextInv, ProcessesHold
<1>4. /\ Len(running[p]) \in Nat \ {0} /\ running[p][Len(running[p])] \in Work
      /\ TheContexts!Innermost(p) = running[p][Len(running[p])]
  BY <1>1, <1>2, FrontProperties DEF TheContexts!Innermost
<1>5. Serves(Within(context[p], states[p], running[p], Len(running[p])),
             running[p][Len(running[p])], Excused(p))
  BY <1>3, <1>4 DEF Nested
<1>6. Within(context[p], states[p], running[p], Len(running[p])) = context[p]
  BY DEF Within
<1> QED BY <1>1, <1>2, <1>3, <1>4, <1>5, <1>6

LEMMA ExcusedLeaked == \A p : Excused(p) \subseteq leaked
BY DEF Excused

\* A message of a process that works.
LEMMA MessageSent ==
  ASSUME ContextInv, NEW p \in TheContexts!Processes, TheContexts!Working(p),
         NEW t \in Nat, t # 0 \/ TheContexts!InTask(p)
  PROVE  /\ TheContexts!Message(p, t) \in QueuedTask
         /\ MessageHolds(TheContexts!Message(p, t), leaked)
<1>1. PICK work \in Work : work = TheContexts!Innermost(p) /\ Serves(context[p], work, Excused(p))
  BY WorkServed
<1>2. PICK c \in IdPair : c = context[p]
  BY WorkServed
<1>3. /\ work.request \in Nat /\ work.correlations \in SUBSET Nat
      /\ work.kind = "task" => work.root \in Nat \ {0}
  BY DEF Work, RequestWork, TaskWork
<1>4. /\ c.request = work.request /\ c.correlation # 0
      /\ c.correlation \in work.correlations \cup leaked
      /\ c.request \in Nat /\ c.correlation \in Nat
  BY <1>1, <1>2, ExcusedLeaked DEF Serves, IdPair
<1>5. PICK root \in Nat \ {0} : root = TheContexts!RootOf(p, t)
  BY <1>1, <1>3 DEF TheContexts!RootOf, TheContexts!InTask
<1>6. TheContexts!Headers(p) = [request |-> c.request, correlation |-> c.correlation]
  BY <1>2, <1>4 DEF TheContexts!Headers, TheContexts!Ids, TheContexts!Either, TheContexts!NoId
<1>7. TheContexts!Message(p, t)
        = [task |-> t, headers |-> [request |-> c.request, correlation |-> c.correlation],
           root |-> root, request |-> work.request,
           correlations |-> work.correlations \cup {root}]
  BY <1>1, <1>5, <1>6 DEF TheContexts!Message
<1> QED BY <1>3, <1>4, <1>7 DEF QueuedTask, IdPair, MessageHolds

\* One process does a step, and nothing new is to be excused.
LEMMA ProcessMoves ==
  ASSUME ContextInv, NEW p \in Web \cup CeleryWorkers,
         NEW c \in IdPair, NEW s \in Seq(SavedContext), NEW r \in Seq(Work),
         context' = [context EXCEPT ![p] = c],
         states' = [states EXCEPT ![p] = s],
         running' = [running EXCEPT ![p] = r],
         Stacked(p, Excused(p), s, r), Nested(Excused(p), c, s, r),
         queued' \subseteq QueuedTask, \A m \in queued' : MessageHolds(m, leaked),
         lastId' \in Nat, leaked' = leaked
  PROVE  ContextInv'
<1>1. p \in TheContexts!Processes /\ p # Parent /\ TheContexts!Processes' = TheContexts!Processes
  BY ProcessesAssumption DEF TheContexts!Processes
<1>2. ContextsTyped'
  BY <1>1 DEF ContextInv, ContextsTyped
<1>3. /\ context'[p] = c /\ states'[p] = s /\ running'[p] = r
      /\ \A q \in TheContexts!Processes : q # p => /\ context'[q] = context[q]
                                                   /\ states'[q] = states[q]
                                                   /\ running'[q] = running[q]
  BY <1>1 DEF ContextInv, ContextsTyped
<1>4. \A q : Excused(q)' = Excused(q)
  BY DEF Excused
<1>5. ProcessesHold'
  <2> SUFFICES ASSUME NEW q \in Web \cup CeleryWorkers
               PROVE  /\ Stacked(q, Excused(q), states'[q], running'[q])
                      /\ Nested(Excused(q), context'[q], states'[q], running'[q])
    BY <1>4 DEF ProcessesHold
  <2>1. CASE q = p
    BY <1>3, <2>1
  <2>2. CASE q # p
    <3>1. q \in TheContexts!Processes
      BY DEF TheContexts!Processes
    <3> QED BY <1>3, <2>2, <3>1 DEF ContextInv, ProcessesHold
  <2> QED BY <2>1, <2>2
<1>6. ParentHolds'
  <2>1. Parent \in TheContexts!Processes
    BY DEF TheContexts!Processes
  <2> QED BY <1>1, <1>3, <2>1 DEF ContextInv, ParentHolds
<1>7. MessagesHold'
  BY DEF MessagesHold
<1> QED BY <1>2, <1>5, <1>6, <1>7 DEF ContextInv

LEMMA MessagesAsBefore ==
  ASSUME ContextInv
  PROVE  /\ queued \subseteq QueuedTask /\ \A m \in queued : MessageHolds(m, leaked)
         /\ lastId \in Nat /\ lastId + 1 \in Nat \ {0}
BY DEF ContextInv, ContextsTyped, MessagesHold

\* A task begins in a process that works, or in a worker that does nothing.
LEMMA TaskBegins ==
  ASSUME ContextInv, NEW p \in Web \cup CeleryWorkers, p \in Web => TheContexts!Working(p),
         NEW t \in Nat, NEW headers \in IdPair, NEW root \in Nat \ {0},
         NEW origin \in Nat, NEW correlations \in SUBSET Nat,
         TheContexts!Begin(p, t, headers, root, origin, correlations),
         NEW ids, ids = TheContexts!ParentIdentifiers(p, headers, root),
         ids \in IdPair, ids.request = origin, ids.correlation # 0,
         ids.correlation \in correlations \cup Excused(p),
         queued' \subseteq QueuedTask, \A m \in queued' : MessageHolds(m, leaked),
         lastId' \in Nat, leaked' = leaked
  PROVE  ContextInv'
<1>1. PICK c, s, r :
        /\ c \in IdPair /\ s \in Seq(SavedContext) /\ r \in Seq(Work)
        /\ c = context[p] /\ s = states[p] /\ r = running[p]
        /\ Stacked(p, Excused(p), s, r) /\ Nested(Excused(p), c, s, r)
  BY DEF ContextInv, ContextsTyped, ProcessesHold, TheContexts!Processes
<1>2. PICK work : work = [kind |-> "task", task |-> t, root |-> root,
                          request |-> origin, correlations |-> correlations]
  OBVIOUS
<1>3. PICK state : state = [task |-> t, before |-> c]
  OBVIOUS
<1>4. work \in TaskWork /\ work \in Work /\ state \in SavedContext
  BY <1>1, <1>2, <1>3 DEF TaskWork, Work, SavedContext
<1>5. Serves(ids, work, Excused(p))
  BY <1>2 DEF Serves
<1>6. /\ Stacked(p, Excused(p), Append(s, state), Append(r, work))
      /\ Nested(Excused(p), ids, Append(s, state), Append(r, work))
  <2>1. p \in Web => r # <<>>
    BY <1>1 DEF TheContexts!Working
  <2>2. state.task = work.task /\ state.before = c
    BY <1>2, <1>3
  <2> QED BY <1>1, <1>4, <1>5, <2>1, <2>2, Pushed
<1>7. Append(s, state) \in Seq(SavedContext) /\ Append(r, work) \in Seq(Work)
  BY <1>1, <1>4, AppendProperties
<1>8. TheContexts!Context(ids.request, ids.correlation) = ids
  BY DEF TheContexts!Context, TheContexts!Ids, TheContexts!Either, TheContexts!NoId, IdPair
<1>9. /\ context' = [context EXCEPT ![p] = ids]
      /\ states' = [states EXCEPT ![p] = Append(s, state)]
      /\ running' = [running EXCEPT ![p] = Append(r, work)]
  BY <1>1, <1>2, <1>3, <1>8 DEF TheContexts!Begin, TheContexts!NewState, ContextInv, ContextsTyped,
                                TheContexts!Processes
<1> QED BY <1>6, <1>7, <1>9, ProcessMoves

\* A task ends.
LEMMA TaskEnds ==
  ASSUME ContextInv, NEW p \in TheContexts!Processes, TheContexts!InTask(p), TheContexts!End(p),
         queued' \subseteq QueuedTask, \A m \in queued' : MessageHolds(m, leaked),
         lastId' = lastId, leaked' = leaked
  PROVE  ContextInv'
<1>1. TheContexts!Working(p)
  BY DEF TheContexts!InTask
<1>2. p \in Web \cup CeleryWorkers
  BY <1>1, WorkServed
<1>3. PICK c, s, r :
        /\ c \in IdPair /\ s \in Seq(SavedContext) /\ r \in Seq(Work)
        /\ c = context[p] /\ s = states[p] /\ r = running[p]
        /\ Stacked(p, Excused(p), s, r) /\ Nested(Excused(p), c, s, r)
        /\ r # <<>> /\ TheContexts!Innermost(p) = r[Len(r)]
  BY <1>1, WorkServed
<1>4. r[Len(r)].kind = "task"
  BY <1>3 DEF TheContexts!InTask
<1>5. /\ s # <<>> /\ s[Len(s)].task = r[Len(r)].task
      /\ Stacked(p, Excused(p), TheContexts!Front(s), TheContexts!Front(r))
      /\ Nested(Excused(p), s[Len(s)].before, TheContexts!Front(s), TheContexts!Front(r))
  BY <1>3, <1>4, Popped
<1>6. TheContexts!Last(s) = s[Len(s)] /\ s[Len(s)] \in SavedContext
      /\ TheContexts!Front(s) \in Seq(SavedContext) /\ TheContexts!Front(r) \in Seq(Work)
  BY <1>3, <1>5, FrontProperties
<1>7. TheContexts!CurrentOrNew(p, TheContexts!Innermost(p).task) = s
  BY <1>3, <1>5, <1>6 DEF TheContexts!CurrentOrNew, TheContexts!IsCurrent
<1>8. /\ context' = [context EXCEPT ![p] = s[Len(s)].before]
      /\ states' = [states EXCEPT ![p] = TheContexts!Front(s)]
      /\ running' = [running EXCEPT ![p] = TheContexts!Front(r)]
  <2>1. TheContexts!Cleanup(s) = [states |-> TheContexts!Front(s), context |-> s[Len(s)].before]
    BY <1>6 DEF TheContexts!Cleanup
  <2>2. /\ context' = [context EXCEPT ![p] = TheContexts!Cleanup(s).context]
        /\ states' = [states EXCEPT ![p] = TheContexts!Cleanup(s).states]
        /\ running' = [running EXCEPT ![p] = TheContexts!Front(running[p])]
    BY <1>7 DEF TheContexts!End
  <2> QED BY <1>3, <2>1, <2>2
<1>9. s[Len(s)].before \in IdPair
  BY <1>6 DEF SavedContext
<1>10. lastId' \in Nat
  BY MessagesAsBefore
<1> QED BY <1>2, <1>5, <1>6, <1>8, <1>9, <1>10, ProcessMoves

LEMMA ReceiveStep ==
  ASSUME ContextInv, NEW p \in Web, NEW sentId \in Given \cup {0},
         NEW correlation \in Given \cup {0}, TheContexts!Receive(p, sentId, correlation)
  PROVE  ContextInv'
<1>1. sentId \in Nat /\ correlation \in Nat /\ lastId + 1 \in Nat \ {0} /\ lastId \in Nat
  <2>1. sentId \in Nat /\ correlation \in Nat
    <3>1. \A id \in Given \cup {0} : id \in Nat
      BY GivenAssumption
    <3> QED BY <3>1
  <2> QED BY <2>1, MessagesAsBefore
<1>2. PICK ids \in IdPair : /\ ids = TheContexts!RequestIdentifiers(sentId, correlation)
                            /\ ids.request # 0 /\ ids.correlation # 0
  <2>1. PICK id \in Nat \ {0} : id = TheContexts!Either(sentId, TheContexts!Fresh)
    BY <1>1 DEF TheContexts!Either, TheContexts!NoId, TheContexts!Fresh
  <2>2. PICK other \in Nat \ {0} : other = TheContexts!Either(correlation, id)
    BY <1>1, <2>1 DEF TheContexts!Either, TheContexts!NoId
  <2>3. TheContexts!RequestIdentifiers(sentId, correlation)
          = [request |-> id, correlation |-> other]
    BY <2>1, <2>2 DEF TheContexts!RequestIdentifiers, TheContexts!Ids
  <2> QED BY <2>1, <2>2, <2>3 DEF IdPair
<1>3. TheContexts!Context(ids.request, ids.correlation) = ids
  BY <1>2 DEF TheContexts!Context, TheContexts!Ids, TheContexts!Either, TheContexts!NoId, IdPair
<1>4. PICK c, s :
        /\ c \in IdPair /\ s \in Seq(SavedContext)
        /\ c = context[p] /\ s = states[p] /\ running[p] = <<>>
        /\ Stacked(p, Excused(p), s, <<>>) /\ Nested(Excused(p), c, s, <<>>)
  BY DEF ContextInv, ContextsTyped, ProcessesHold, TheContexts!Processes, TheContexts!Receive,
         TheContexts!Working
<1>5. Excused(p) = {}
  BY ProcessesAssumption DEF Excused
<1>6. Rests(c, {}) /\ s = <<>>
  <2>1. Len(s) = 0
    BY <1>4, <1>5 DEF Stacked
  <2> QED BY <1>4, <1>5, <2>1 DEF Nested, Within
<1>7. PICK work : work = [kind |-> "request", before |-> c, request |-> ids.request,
                          correlations |-> {ids.correlation}]
  OBVIOUS
<1>8. work \in Work /\ <<work>> \in Seq(Work)
  BY <1>2, <1>4, <1>7 DEF Work, RequestWork, IdPair
<1>9. Len(<<work>>) = 1 /\ <<work>>[1] = work /\ <<work>> # <<>> /\ work.kind = "request"
  BY <1>7
<1>10. Stacked(p, Excused(p), s, <<work>>)
  BY <1>6, <1>9 DEF Stacked
<1>11. Nested(Excused(p), ids, s, <<work>>)
  <2>1. Within(ids, s, <<work>>, 0) = c
    BY <1>7, <1>9 DEF Within, Replaced
  <2>2. Within(ids, s, <<work>>, 1) = ids
    BY <1>9 DEF Within
  <2>3. Serves(ids, work, Excused(p))
    BY <1>2, <1>7 DEF Serves
  <2> QED BY <1>5, <1>6, <1>9, <2>1, <2>2, <2>3 DEF Nested
<1>12. /\ context' = [context EXCEPT ![p] = ids]
       /\ states' = [states EXCEPT ![p] = s]
       /\ running' = [running EXCEPT ![p] = <<work>>]
       /\ queued' = queued /\ leaked' = leaked /\ lastId' \in Nat
  BY <1>1, <1>2, <1>3, <1>4, <1>7 DEF TheContexts!Receive, TheContexts!Fresh, ContextInv,
                                      ContextsTyped
<1> QED BY <1>4, <1>2, <1>8, <1>10, <1>11, <1>12, MessagesAsBefore, ProcessMoves

LEMMA RespondStep ==
  ASSUME ContextInv, NEW p \in TheContexts!Processes, TheContexts!Respond(p)
  PROVE  ContextInv'
<1>1. TheContexts!Working(p)
  BY DEF TheContexts!Respond
<1>2. PICK s, r :
        /\ s \in Seq(SavedContext) /\ r \in Seq(Work)
        /\ s = states[p] /\ r = running[p] /\ r # <<>> /\ Len(r) \in Nat \ {0}
        /\ TheContexts!Innermost(p) = r[Len(r)] /\ r[Len(r)] \in Work
        /\ p \in Web \cup CeleryWorkers
        /\ Stacked(p, Excused(p), s, r) /\ Nested(Excused(p), context[p], s, r)
  BY <1>1, WorkServed
<1>3. r[Len(r)].kind = "request"
  BY <1>2 DEF TheContexts!Respond
<1>4. p \in Web /\ Len(r) = 1
  <2>1. Len(r) \in 1..Len(r)
    BY <1>2
  <2>2. (r[Len(r)].kind = "request") <=> (p \in Web /\ Len(r) = 1)
    BY <1>2, <2>1 DEF Stacked
  <2> QED BY <1>3, <2>2
<1>5. Excused(p) = {}
  BY <1>4, ProcessesAssumption DEF Excused
<1>6. s = <<>>
  <2>1. Len(s) = 0
    BY <1>2, <1>4, <1>5 DEF Stacked
  <2> QED BY <1>2, <2>1
<1>7. PICK c : c = r[1].before
  OBVIOUS
<1>8. c \in IdPair
  BY <1>2, <1>3, <1>4, <1>7 DEF Work, RequestWork, TaskWork
<1>9. Rests(c, {})
  <2>1. Within(context[p], s, r, 0) = c
    BY <1>3, <1>4, <1>7 DEF Within, Replaced
  <2> QED BY <1>2, <1>5, <2>1 DEF Nested
<1>10. Stacked(p, {}, s, <<>>) /\ Nested({}, c, s, <<>>) /\ <<>> \in Seq(Work)
  <2>1. s \in Seq(SavedContext) /\ <<>> \in Seq(Work)
    BY <1>2
  <2>2. Stacked(p, {}, s, <<>>) /\ Nested({}, c, s, <<>>)
    BY <1>6, <1>9, <2>1, Resting
  <2> QED BY <2>1, <2>2
<1>11. /\ context' = [context EXCEPT ![p] = c]
       /\ states' = [states EXCEPT ![p] = s]
       /\ running' = [running EXCEPT ![p] = <<>>]
       /\ queued' = queued /\ leaked' = leaked /\ lastId' = lastId
  BY <1>2, <1>4, <1>7 DEF TheContexts!Respond, ContextInv, ContextsTyped
<1> QED BY <1>2, <1>5, <1>8, <1>10, <1>11, MessagesAsBefore, ProcessMoves

LEMMA StartStep ==
  ASSUME ContextInv, NEW p \in CeleryWorkers, NEW m \in queued,
         NEW shown \in {m.headers.correlation, 0}, TheContexts!Start(p, m, shown)
  PROVE  ContextInv'
<1>1. m \in QueuedTask /\ MessageHolds(m, leaked)
  BY MessagesAsBefore
<1>2. /\ m.task \in Nat /\ m.root \in Nat \ {0} /\ m.request \in Nat
      /\ m.correlations \in SUBSET Nat /\ m.headers.request = m.request
      /\ shown \in Nat /\ shown \in {0} \cup m.correlations \cup leaked
      /\ m.root \in m.correlations
  BY <1>1 DEF QueuedTask, IdPair, MessageHolds
<1>3. running[p] = <<>> /\ p \in Web \cup CeleryWorkers /\ p \notin Web /\ Excused(p) = leaked
  BY ProcessesAssumption DEF TheContexts!Start, TheContexts!Working, Excused
<1>4. PICK c \in IdPair : c = context[p] /\ Rests(c, leaked)
  <2>1. /\ Stacked(p, Excused(p), states[p], <<>>)
        /\ Nested(Excused(p), context[p], states[p], <<>>)
    BY <1>3 DEF ContextInv, ProcessesHold
  <2>2. Within(context[p], states[p], <<>>, 0) = context[p]
    BY DEF Within
  <2> QED BY <1>3, <2>1, <2>2 DEF Nested, ContextInv, ContextsTyped, TheContexts!Processes
<1>5. PICK headers \in IdPair : headers = TheContexts!Ids(m.headers.request, shown)
  BY <1>2 DEF TheContexts!Ids, IdPair
<1>6. c.request = 0 /\ c.correlation \in {0} \cup leaked /\ c.correlation \in Nat
  BY <1>4 DEF Rests, IdPair
<1>7. PICK ids : ids = TheContexts!ParentIdentifiers(p, headers, m.root)
  OBVIOUS
<1>8. ids \in IdPair /\ ids.request = m.request /\ ids.correlation # 0
      /\ ids.correlation \in m.correlations \cup leaked
  <2>1. headers.request = m.request /\ headers.correlation = shown
    BY <1>2, <1>5 DEF TheContexts!Ids
  <2>2. TheContexts!Either(headers.request, c.request) = m.request
    BY <1>6, <2>1 DEF TheContexts!Either, TheContexts!NoId
  <2>3. TheContexts!Either(m.root, TheContexts!Either(m.request, TheContexts!Fresh)) = m.root
    BY <1>2 DEF TheContexts!Either, TheContexts!NoId
  <2>4. PICK first \in Nat \ {0} : /\ first = TheContexts!Either(c.correlation, m.root)
                                   /\ first \in m.correlations \cup leaked
    BY <1>2, <1>6 DEF TheContexts!Either, TheContexts!NoId
  <2>5. PICK second \in Nat \ {0} : /\ second = TheContexts!Either(shown, first)
                                    /\ second \in m.correlations \cup leaked
    BY <1>2, <2>4 DEF TheContexts!Either, TheContexts!NoId
  <2>6. ids = [request |-> m.request, correlation |-> second]
    BY <1>4, <1>7, <2>1, <2>2, <2>3, <2>4, <2>5
    DEF TheContexts!ParentIdentifiers, TheContexts!Ids
  <2> QED BY <1>2, <2>5, <2>6 DEF IdPair
<1>9. /\ queued' \subseteq QueuedTask /\ \A x \in queued' : MessageHolds(x, leaked)
      /\ lastId' \in Nat /\ leaked' = leaked
  BY MessagesAsBefore DEF TheContexts!Start
<1>10. TheContexts!Begin(p, m.task, headers, m.root, m.request, m.correlations)
  BY <1>5 DEF TheContexts!Start
<1> QED BY <1>2, <1>3, <1>7, <1>8, <1>9, <1>10, TaskBegins

LEMMA RunEagerlyStep ==
  ASSUME ContextInv, NEW p \in TheContexts!Processes, TheContexts!RunEagerly(p)
  PROVE  ContextInv'
<1>1. TheContexts!Working(p)
  BY DEF TheContexts!RunEagerly
<1>2. PICK work \in Work : /\ work = TheContexts!Innermost(p)
                           /\ Serves(context[p], work, Excused(p))
  BY <1>1, WorkServed
<1>3. PICK c \in IdPair : c = context[p] /\ p \in Web \cup CeleryWorkers
  BY <1>1, WorkServed
<1>4. /\ work.request \in Nat /\ work.correlations \in SUBSET Nat
      /\ c.request = work.request /\ c.correlation # 0
      /\ c.correlation \in work.correlations \cup Excused(p)
  BY <1>2, <1>3 DEF Work, RequestWork, TaskWork, Serves
<1>5. PICK new \in Nat \ {0} : new = TheContexts!Fresh
  BY MessagesAsBefore DEF TheContexts!Fresh
<1>6. TheContexts!NoContext \in IdPair /\ TheContexts!NoContext.request = 0
      /\ TheContexts!NoContext.correlation = 0
  BY DEF TheContexts!NoContext, TheContexts!Ids, TheContexts!NoId, IdPair
<1>7. TheContexts!ParentIdentifiers(p, TheContexts!NoContext, new) = c
  <2>1. TheContexts!Either(0, c.request) = c.request
    BY DEF TheContexts!Either, TheContexts!NoId
  <2>2. \A x : TheContexts!Either(0, TheContexts!Either(c.correlation, x)) = c.correlation
    BY <1>4 DEF TheContexts!Either, TheContexts!NoId
  <2>3. c = [request |-> c.request, correlation |-> c.correlation]
    BY DEF IdPair
  <2> QED BY <1>3, <1>6, <2>1, <2>2, <2>3 DEF TheContexts!ParentIdentifiers, TheContexts!Ids
<1>8. TheContexts!Begin(p, new, TheContexts!NoContext, new, work.request, work.correlations)
  BY <1>2, <1>5 DEF TheContexts!RunEagerly
<1>9. /\ queued' \subseteq QueuedTask /\ \A x \in queued' : MessageHolds(x, leaked)
      /\ lastId' \in Nat /\ leaked' = leaked /\ new \in Nat
  BY <1>5, MessagesAsBefore DEF TheContexts!RunEagerly
<1> QED BY <1>1, <1>3, <1>4, <1>5, <1>6, <1>7, <1>8, <1>9, TaskBegins

LEMMA DieStep ==
  ASSUME ContextInv, NEW p \in TheContexts!Processes, TheContexts!Die(p)
  PROVE  ContextInv'
<1>1. /\ p \in CeleryWorkers /\ p \notin Web /\ p # Parent /\ Parent \notin Web \cup CeleryWorkers
      /\ Parent \in TheContexts!Processes /\ Excused(p) = leaked
  BY ProcessesAssumption DEF TheContexts!Die, TheContexts!Processes, Excused
<1>2. PICK c \in IdPair : c = context[Parent] /\ Rests(c, leaked)
  BY <1>1 DEF ContextInv, ParentHolds, ContextsTyped
<1>3. PICK s \in Seq(SavedContext) : s = states[Parent] /\ (leaked = {} => s = <<>>)
  BY <1>1 DEF ContextInv, ParentHolds, ContextsTyped
<1>4. PICK ids \in IdPair :
        /\ ids = TheContexts!ParentIdentifiers(Parent, TheContexts!NoContext, TheContexts!NoId)
        /\ ids.request = 0 /\ ids.correlation # 0
  <2>1. c.request = 0 /\ c.correlation \in Nat
    BY <1>2 DEF Rests, IdPair
  <2>2. PICK new \in Nat \ {0} : new = TheContexts!Fresh
    BY MessagesAsBefore DEF TheContexts!Fresh
  <2>3. TheContexts!Either(0, c.request) = 0 /\ TheContexts!Either(0, new) = new
    BY <2>1 DEF TheContexts!Either, TheContexts!NoId
  <2>4. PICK other \in Nat \ {0} :
          other = TheContexts!Either(0, TheContexts!Either(c.correlation, TheContexts!Either(0, new)))
    BY <2>1, <2>3 DEF TheContexts!Either, TheContexts!NoId
  <2>5. TheContexts!ParentIdentifiers(Parent, TheContexts!NoContext, TheContexts!NoId)
          = [request |-> 0, correlation |-> other]
    BY <1>2, <2>1, <2>2, <2>3, <2>4
    DEF TheContexts!ParentIdentifiers, TheContexts!NoContext, TheContexts!Ids, TheContexts!NoId
  <2> QED BY <2>4, <2>5 DEF IdPair
<1>5. TheContexts!Context(ids.request, ids.correlation) = ids
  BY <1>4 DEF TheContexts!Context, TheContexts!Ids, TheContexts!Either, TheContexts!NoId, IdPair
<1>6. PICK s2 \in Seq(SavedContext) : s2 = TheContexts!CurrentOrNew(Parent, running[p][1].task)
  <2>1. running[p] \in Seq(Work) /\ running[p] # <<>>
    BY DEF TheContexts!Die, TheContexts!Working, ContextInv, ContextsTyped
  <2>2. running[p][1].kind = "task" /\ running[p][1] \in Work
    <3>1. 1 \in 1..Len(running[p])
      BY <2>1
    <3>2. Stacked(p, leaked, states[p], running[p])
      BY <1>1 DEF ContextInv, ProcessesHold
    <3> QED BY <1>1, <2>1, <3>1, <3>2 DEF Stacked, Work, RequestWork, TaskWork
  <2>3. PICK state \in SavedContext : state = [task |-> running[p][1].task, before |-> c]
    BY <2>2 DEF Work, RequestWork, TaskWork, SavedContext
  <2>4. TheContexts!NewState(Parent, running[p][1].task) = Append(s, state)
    BY <1>2, <1>3, <2>3 DEF TheContexts!NewState
  <2>5. Append(s, state) \in Seq(SavedContext)
    BY AppendProperties
  <2> QED BY <1>3, <2>4, <2>5 DEF TheContexts!CurrentOrNew
<1>7. leaked' = leaked \cup {ids.correlation}
  BY <1>4, <1>5 DEF TheContexts!Die
<1>8. PICK c3, s3 :
        /\ \/ c3 = c /\ s3 = s
           \/ c3 = ids /\ s3 = s2
        /\ context' = [context EXCEPT ![p] = c3, ![Parent] = ids]
        /\ states' = [states EXCEPT ![p] = s3, ![Parent] = s2]
        /\ running' = [running EXCEPT ![p] = <<>>]
        /\ lastId' = lastId + 1 /\ queued' = queued
  <2>1. PICK forked \in {[context |-> c, states |-> s], [context |-> ids, states |-> s2]} :
          /\ context' = [context EXCEPT ![p] = forked.context, ![Parent] = ids]
          /\ states' = [states EXCEPT ![p] = forked.states, ![Parent] = s2]
    <3>1. PICK reported : reported = [context |-> ids, states |-> s2]
      OBVIOUS
    <3>2. \E forked \in {[context |-> c, states |-> s], reported} :
            /\ context' = [context EXCEPT ![p] = forked.context, ![Parent] = reported.context]
            /\ states' = [states EXCEPT ![p] = forked.states, ![Parent] = reported.states]
      BY <1>2, <1>3, <1>4, <1>5, <1>6, <3>1, ZenonT(60) DEF TheContexts!Die
    <3> QED BY <3>1, <3>2
  <2>2. /\ running' = [running EXCEPT ![p] = <<>>]
        /\ lastId' = lastId + 1 /\ queued' = queued
    BY DEF TheContexts!Die, TheContexts!Fresh
  <2>3. CASE forked = [context |-> c, states |-> s]
    BY <2>1, <2>2, <2>3
  <2>4. CASE forked = [context |-> ids, states |-> s2]
    BY <2>1, <2>2, <2>4
  <2> QED BY <2>1, <2>3, <2>4
<1>9. c3 \in IdPair /\ s3 \in Seq(SavedContext) /\ Rests(c3, leaked') /\ Rests(ids, leaked')
      /\ leaked' # {}
  BY <1>2, <1>4, <1>7, <1>8 DEF Rests
<1>10. /\ context'[p] = c3 /\ states'[p] = s3 /\ running'[p] = <<>>
       /\ context'[Parent] = ids /\ states'[Parent] = s2 /\ running'[Parent] = running[Parent]
       /\ \A q \in TheContexts!Processes \ {p, Parent} :
            context'[q] = context[q] /\ states'[q] = states[q] /\ running'[q] = running[q]
  BY <1>1, <1>8 DEF ContextInv, ContextsTyped
<1>11. ContextsTyped'
  <2>1. ids.correlation \in Nat /\ lastId + 1 \in Nat /\ <<>> \in Seq(Work)
    BY <1>4, MessagesAsBefore DEF IdPair
  <2>2. context' \in [TheContexts!Processes -> IdPair]
    BY <1>4, <1>8, <1>9 DEF ContextInv, ContextsTyped
  <2>3. states' \in [TheContexts!Processes -> Seq(SavedContext)]
    BY <1>6, <1>8, <1>9 DEF ContextInv, ContextsTyped
  <2>4. running' \in [TheContexts!Processes -> Seq(Work)]
    BY <1>8, <2>1 DEF ContextInv, ContextsTyped
  <2>5. TheContexts!Processes' = TheContexts!Processes
    BY DEF TheContexts!Processes
  <2> QED BY <1>7, <1>8, <2>1, <2>2, <2>3, <2>4, <2>5 DEF ContextInv, ContextsTyped
<1>12. ProcessesHold'
  <2> SUFFICES ASSUME NEW q \in Web \cup CeleryWorkers
               PROVE  /\ Stacked(q, Excused(q)', states'[q], running'[q])
                      /\ Nested(Excused(q)', context'[q], states'[q], running'[q])
    BY DEF ProcessesHold
  <2>1. CASE q = p
    <3>1. Excused(q)' = leaked'
      BY <1>1, <2>1 DEF Excused
    <3>2. Stacked(p, leaked', s3, <<>>) /\ Nested(leaked', c3, s3, <<>>)
      BY <1>9, Resting
    <3> QED BY <1>10, <2>1, <3>1, <3>2
  <2>2. CASE q # p
    <3>1. /\ context'[q] = context[q] /\ states'[q] = states[q] /\ running'[q] = running[q]
      BY <1>1, <1>10, <2>2 DEF TheContexts!Processes
    <3>2. Excused(q) \subseteq Excused(q)'
      BY <1>7 DEF Excused
    <3>3. /\ Stacked(q, Excused(q), states[q], running[q])
          /\ Nested(Excused(q), context[q], states[q], running[q])
      BY DEF ContextInv, ProcessesHold
    <3> QED BY <3>1, <3>2, <3>3, MoreExcused
  <2> QED BY <2>1, <2>2
<1>13. ParentHolds'
  BY <1>9, <1>10 DEF ContextInv, ParentHolds
<1>14. MessagesHold'
  BY <1>7, <1>8 DEF ContextInv, MessagesHold, MessageHolds
<1> QED BY <1>11, <1>12, <1>13, <1>14 DEF ContextInv

LEMMA QueueGrows ==
  ASSUME ContextInv, NEW m \in QueuedTask, MessageHolds(m, leaked),
         queued' = queued \cup {m}, lastId' = lastId + 1,
         UNCHANGED <<context, states, running, leaked>>
  PROVE  ContextInv'
<1>1. ContextsTyped'
  BY DEF ContextInv, ContextsTyped, TheContexts!Processes
<1>2. ProcessesHold' /\ ParentHolds'
  BY DEF ContextInv, ProcessesHold, ParentHolds, Excused
<1>3. MessagesHold'
  BY DEF ContextInv, MessagesHold
<1> QED BY <1>1, <1>2, <1>3 DEF ContextInv

LEMMA ContextKept == ContextInv /\ [TheContexts!Next]_contextVars => ContextInv'
<1> SUFFICES ASSUME ContextInv, [TheContexts!Next]_contextVars PROVE ContextInv'
  OBVIOUS
<1>1. ASSUME NEW p \in TheContexts!Processes, TheContexts!Publish(p) PROVE ContextInv'
  <2>1. PICK m \in QueuedTask : m = TheContexts!Message(p, lastId + 1) /\ MessageHolds(m, leaked)
    BY <1>1, MessagesAsBefore, MessageSent DEF TheContexts!Publish
  <2>2. /\ queued' = queued \cup {m} /\ lastId' = lastId + 1
        /\ UNCHANGED <<context, states, running, leaked>>
    BY <1>1, <2>1 DEF TheContexts!Publish, TheContexts!Fresh
  <2> QED BY <2>1, <2>2, QueueGrows
<1>2. ASSUME TheContexts!PublishPeriodic PROVE ContextInv'
  <2>1. PICK t \in Nat \ {0} : t = lastId + 1
    BY MessagesAsBefore
  <2>2. PICK m : m = [task |-> t, headers |-> [request |-> 0, correlation |-> 0], root |-> t,
                      request |-> 0, correlations |-> {t}]
    OBVIOUS
  <2>3. m \in QueuedTask /\ MessageHolds(m, leaked)
    BY <2>2 DEF QueuedTask, IdPair, MessageHolds
  <2>4. /\ queued' = queued \cup {m} /\ lastId' = lastId + 1
        /\ UNCHANGED <<context, states, running, leaked>>
    BY <1>2, <2>1, <2>2 DEF TheContexts!PublishPeriodic, TheContexts!Fresh, TheContexts!NoContext,
                            TheContexts!Ids, TheContexts!NoId
  <2> QED BY <2>3, <2>4, QueueGrows
<1>3. ASSUME NEW p \in TheContexts!Processes, TheContexts!Finish(p) PROVE ContextInv'
  BY <1>3, MessagesAsBefore, TaskEnds DEF TheContexts!Finish
<1>4. ASSUME NEW p \in TheContexts!Processes, TheContexts!Retry(p) PROVE ContextInv'
  <2>1. TheContexts!InTask(p) /\ TheContexts!Working(p)
    BY <1>4 DEF TheContexts!Retry, TheContexts!InTask
  <2>2. PICK work \in Work : work = TheContexts!Innermost(p) /\ work.kind = "task"
    BY <2>1, WorkServed DEF TheContexts!InTask
  <2>3. PICK t \in Nat : t = work.task
    BY <2>2 DEF Work, TaskWork, RequestWork
  <2>4. PICK m \in QueuedTask : m = TheContexts!Message(p, t) /\ MessageHolds(m, leaked)
    BY <2>1, MessageSent
  <2>5. queued' = queued \cup {m} /\ lastId' = lastId /\ leaked' = leaked
    BY <1>4, <2>2, <2>3, <2>4 DEF TheContexts!Retry
  <2>6. queued' \subseteq QueuedTask /\ \A x \in queued' : MessageHolds(x, leaked)
    BY <2>4, <2>5, MessagesAsBefore
  <2>7. TheContexts!End(p)
    BY <1>4 DEF TheContexts!Retry
  <2> QED BY <2>1, <2>5, <2>6, <2>7, TaskEnds
<1>5. ASSUME TheContexts!Restart PROVE ContextInv'
  <2>1. TheContexts!NoContext \in IdPair /\ \A excused : Rests(TheContexts!NoContext, excused)
    BY DEF TheContexts!NoContext, TheContexts!Ids, TheContexts!NoId, IdPair, Rests
  <2>2. /\ context' = [p \in TheContexts!Processes |-> TheContexts!NoContext]
        /\ states' = [p \in TheContexts!Processes |-> <<>>]
        /\ running' = [p \in TheContexts!Processes |-> <<>>]
        /\ UNCHANGED <<queued, lastId, leaked>> /\ TheContexts!Processes' = TheContexts!Processes
    BY <1>5 DEF TheContexts!Restart, TheContexts!Processes
  <2>3. ContextsTyped'
    BY <2>1, <2>2 DEF ContextInv, ContextsTyped
  <2>4. ProcessesHold'
    <3> SUFFICES ASSUME NEW p \in Web \cup CeleryWorkers
                 PROVE  /\ Stacked(p, Excused(p)', states'[p], running'[p])
                        /\ Nested(Excused(p)', context'[p], states'[p], running'[p])
      BY DEF ProcessesHold
    <3>1. context'[p] = TheContexts!NoContext /\ states'[p] = <<>> /\ running'[p] = <<>>
      BY <2>2 DEF TheContexts!Processes
    <3>2. <<>> \in Seq(SavedContext) /\ Rests(TheContexts!NoContext, Excused(p)')
      BY <2>1
    <3>3. /\ Stacked(p, Excused(p)', <<>>, <<>>)
          /\ Nested(Excused(p)', TheContexts!NoContext, <<>>, <<>>)
      BY <3>2, Resting
    <3> QED BY <3>1, <3>3
  <2>5. ParentHolds'
    BY <2>1, <2>2 DEF ParentHolds, TheContexts!Processes
  <2>6. MessagesHold'
    BY <2>2 DEF ContextInv, MessagesHold
  <2> QED BY <2>3, <2>4, <2>5, <2>6 DEF ContextInv
<1>6. CASE UNCHANGED contextVars
  BY <1>6 DEF contextVars, ContextInv, ContextsTyped, ProcessesHold, ParentHolds, MessagesHold,
              Excused, TheContexts!Processes
<1>7. ASSUME NEW p \in Web, NEW sentId \in Given \cup {TheContexts!NoId},
             NEW correlation \in Given \cup {TheContexts!NoId},
             TheContexts!Receive(p, sentId, correlation)
      PROVE  ContextInv'
  BY <1>7, ReceiveStep DEF TheContexts!NoId
<1>8. ASSUME NEW p \in CeleryWorkers, NEW m \in queued,
             NEW shown \in {m.headers.correlation, TheContexts!NoId}, TheContexts!Start(p, m, shown)
      PROVE  ContextInv'
  BY <1>8, StartStep DEF TheContexts!NoId
<1> QED
  BY <1>1, <1>2, <1>3, <1>4, <1>5, <1>6, <1>7, <1>8, RespondStep, RunEagerlyStep, DieStep
  DEF TheContexts!Next

\* What IdsFollowWork says of one process.
Follows(p, excused, tasks) ==
  /\ excused = {} => Len(states[p]) = TheContexts!Cardinality(tasks)
  /\ IF TheContexts!Working(p)
       THEN /\ TheContexts!Written(p).request = TheContexts!Innermost(p).request
            /\ TheContexts!Written(p).correlation
                 \in TheContexts!Innermost(p).correlations \cup excused
       ELSE /\ TheContexts!Written(p).request = 0
            /\ TheContexts!Written(p).correlation \in {0} \cup excused

\* What a process writes while it works is under the identifiers of the request
\* the work stems from, through messages, retries and nested tasks, and a
\* process at rest has none; but for what the parent of the workers has leaked
\* when one of them died (celery_observability).
THEOREM IdsFollow == Spec => []IdsFollowWork
<1>1. ASSUME ContextInv PROVE IdsFollowWork
  <2> SUFFICES ASSUME NEW p \in Web \cup CeleryWorkers
               PROVE  Follows(p, Excused(p), {i \in DOMAIN running[p] : running[p][i].kind = "task"})
    <3> SUFFICES \A q \in Web \cup CeleryWorkers :
          Follows(q, IF q \in CeleryWorkers THEN leaked ELSE {},
                  {i \in DOMAIN running[q] : running[q][i].kind = "task"})
      BY DEF IdsFollowWork, TheContexts!IdsFollowWork, Follows, TheContexts!NoId
    <3> QED BY Zenon DEF Excused
  <2>0. \A S : TheContexts!Cardinality(S) = Cardinality(S)
    BY DEF TheContexts!Cardinality, Cardinality
  <2> DEFINE tasks == {i \in DOMAIN running[p] : running[p][i].kind = "task"}
  <2>1. PICK c, s, r :
          /\ c \in IdPair /\ s \in Seq(SavedContext) /\ r \in Seq(Work)
          /\ c = context[p] /\ s = states[p] /\ r = running[p]
          /\ Stacked(p, Excused(p), s, r) /\ Nested(Excused(p), c, s, r)
    BY <1>1 DEF ContextInv, ContextsTyped, ProcessesHold, TheContexts!Processes
  <2>2. TheContexts!Written(p)
          = [request |-> c.request,
             correlation |-> IF c.correlation # 0 THEN c.correlation ELSE c.request]
    <3>1. TheContexts!RecordIds(p)
            = [request |-> c.request,
               correlation |-> IF c.correlation # 0 THEN c.correlation ELSE c.request]
      BY <2>1 DEF TheContexts!RecordIds, TheContexts!Ids, TheContexts!Either, TheContexts!NoId
    <3> QED BY <2>1, <3>1 DEF TheContexts!Written, TheContexts!Ids, TheContexts!Either,
                              TheContexts!NoId
  <2>3. CASE TheContexts!Working(p)
    <3>0. r # <<>> /\ Len(r) \in Nat /\ Len(r) >= 1
      BY <2>1, <2>3 DEF TheContexts!Working
    <3>1. Serves(c, TheContexts!Innermost(p), Excused(p))
      BY <1>1, <2>1, <2>3, WorkServed DEF TheContexts!Processes
    <3>2. TheContexts!Written(p).request = c.request /\ TheContexts!Written(p).correlation = c.correlation
      BY <2>2, <3>1 DEF Serves
    <3>3. p \in Web => 1 \in 1..Len(r) /\ r[1].kind = "request"
      BY <2>1, <3>0 DEF Stacked
    <3>4. ASSUME Excused(p) = {} PROVE Len(s) = Cardinality(tasks)
      <4>1. \A i \in 1..Len(r) : r[i].kind = "task" <=> ~(p \in Web /\ i = 1)
        <5>1. \A i \in 1..Len(r) : r[i].kind = "task" <=> r[i].kind # "request"
          BY <2>1 DEF Work, TaskWork, RequestWork
        <5> QED BY <2>1, <5>1 DEF Stacked
      <4>2. tasks = {i \in 1..Len(r) : r[i].kind = "task"}
        BY <2>1 DEF TheContexts!Working
      <4>3. CASE p \in Web
        <5>1. tasks = 2..Len(r)
          BY <3>0, <4>1, <4>2, <4>3
        <5>2. Len(s) = Len(r) - 1
          BY <2>1, <3>0, <3>4, <4>3 DEF Stacked
        <5>3. Cardinality(2..Len(r)) = IF 2 > Len(r) THEN 0 ELSE Len(r) - 2 + 1
          BY <3>0, FS_Interval
        <5>4. Cardinality(tasks) = Cardinality(2..Len(r))
          BY <5>1
        <5> QED BY <3>0, <5>2, <5>3, <5>4
      <4>4. CASE p \notin Web
        <5>1. tasks = 1..Len(r)
          BY <3>0, <4>1, <4>2, <4>4
        <5>2. Len(s) = Len(r)
          BY <2>1, <3>0, <3>4, <4>4 DEF Stacked
        <5>3. Cardinality(1..Len(r)) = IF 1 > Len(r) THEN 0 ELSE Len(r) - 1 + 1
          BY <3>0, FS_Interval
        <5>4. Cardinality(tasks) = Cardinality(1..Len(r))
          BY <5>1
        <5> QED BY <3>0, <5>2, <5>3, <5>4
      <4> QED BY <4>3, <4>4
    <3> QED BY <2>0, <2>1, <2>3, <3>1, <3>2, <3>4 DEF Serves, Follows
  <2>4. CASE ~TheContexts!Working(p)
    <3>1. r = <<>> /\ Len(r) = 0 /\ tasks = {}
      BY <2>1, <2>4 DEF TheContexts!Working
    <3>2. Rests(c, Excused(p))
      BY <2>1, <3>1 DEF Nested, Within
    <3>3. Excused(p) = {} => Len(s) = 0
      BY <2>1, <3>1 DEF Stacked
    <3>4. Cardinality(tasks) = 0
      BY <3>1, FS_EmptySet
    <3> QED BY <2>0, <2>1, <2>2, <2>4, <3>2, <3>3, <3>4 DEF Rests, Follows
  <2> QED BY <2>3, <2>4
<1> QED BY <1>1, ContextInit, ContextStep, ContextKept, PTL DEF Spec

-----------------------------------------------------------------------------
\* The reports of the sales.

\* A step of the platform is a step of its sales, or leaves them alone.
LEMMA SaleStep == [Next]_vars => [TheReports!Next]_saleVars
<1>1. ASSUME UNCHANGED vars PROVE UNCHANGED saleVars
  BY <1>1 DEF vars, saleVars
<1>2. ASSUME Next PROVE TheReports!Next \/ UNCHANGED saleVars
  BY <1>2 DEF Next
<1> QED BY <1>1, <1>2

LEMMA ReportCardinality == \A S : TheReports!Cardinality(S) = Cardinality(S)
BY DEF TheReports!Cardinality, Cardinality

\* Sums.

AddsUp(g, f, S) ==
  g = [T \in SUBSET S |-> IF T = {} THEN 0
                          ELSE LET x == CHOOSE e \in T : TRUE
                               IN  f[x] + g[T \ {x}]]

\* What adds up like the sum, one element at a time, is the sum.
LEMMA SumIs ==
  ASSUME NEW S, IsFiniteSet(S), NEW f, DOMAIN f = S, NEW g, AddsUp(g, f, S)
  PROVE  TheReports!SumFunction(f) = g[S]
<1> DEFINE Sums(h) == [T \in SUBSET S |-> IF T = {} THEN 0
                                          ELSE LET x == CHOOSE e \in T : TRUE
                                               IN  f[x] + h[T \ {x}]]
<1>1. TheReports!SumFunction(f) = (CHOOSE h : h = Sums(h))[S]
  <2>1. TheReports!SumFunction(f) = TheReports!SumFunctionOnSet(f, S)
    BY Zenon DEF TheReports!SumFunction
  <2> QED BY <2>1, Zenon DEF TheReports!SumFunctionOnSet, TheReports!FoldFunctionOnSet,
                             TheReports!MapThenFoldSet
<1>2. g = Sums(g)
  BY DEF AddsUp
<1>3. PICK h : h = Sums(h) /\ TheReports!SumFunction(f) = h[S]
  <2> HIDE DEF Sums
  <2> QED BY <1>1, <1>2, Zenon
<1> DEFINE Differ == {T \in SUBSET S : h[T] # g[T]}
<1>4. Differ = {}
  <2> SUFFICES ASSUME Differ # {} PROVE FALSE
    OBVIOUS
  <2>1. PICK R : R = {ss \in Nat \X Nat : ss[1] < ss[2]}
    OBVIOUS
  <2>2. IsWellFoundedOn(R, Nat)
    BY <2>1, NatLessThanWellFounded DEF OpToRel
  <2>3. PICK Sizes : Sizes = {Cardinality(T) : T \in Differ}
    OBVIOUS
  <2>4. \A T \in SUBSET S : IsFiniteSet(T) /\ Cardinality(T) \in Nat
    BY FS_Subset, FS_CardinalityType
  <2>5. Sizes \subseteq Nat /\ Sizes # {}
    <3>1. \A T \in Differ : Cardinality(T) \in Nat
      BY <2>4
    <3> HIDE DEF Differ
    <3> QED BY <2>3, <3>1
  <2>6. PICK least \in Sizes : \A n \in Sizes : ~(<<n, least>> \in R)
    BY <2>2, <2>5, WFMin
  <2>7. PICK T \in Differ : least = Cardinality(T)
    BY <2>3, <2>6
  <2>8. CASE T = {}
    <3>1. h[T] = 0 /\ g[T] = 0
      BY <1>2, <1>3, <2>8
    <3> QED BY <2>7, <3>1
  <2>9. CASE T # {}
    <3>1. PICK x \in T : x = CHOOSE e \in T : TRUE
      BY <2>9
    <3>2. h[T] = f[x] + h[T \ {x}] /\ g[T] = f[x] + g[T \ {x}]
      BY <1>2, <1>3, <2>9, <3>1
    <3>3. T \ {x} \in SUBSET S /\ Cardinality(T \ {x}) = Cardinality(T) - 1
      BY <2>4, FS_RemoveElement
    <3>4. Cardinality(T \ {x}) < Cardinality(T) /\ Cardinality(T) \in Nat /\ Cardinality(T \ {x}) \in Nat
      BY <2>4, <3>3
    <3>5. T \ {x} \notin Differ
      BY <2>1, <2>3, <2>6, <2>7, <3>4
    <3> QED BY <2>7, <3>2, <3>3, <3>5
  <2> QED BY <2>8, <2>9
<1>5. h[S] = g[S]
  BY <1>4
<1> QED BY <1>3, <1>5

\* A measure of the subsets of S, of which two apart have the sum.
Additive(m, S) ==
  /\ m \in [SUBSET S -> Nat] /\ m[{}] = 0
  /\ \A A, B \in SUBSET S : A \cap B = {} => m[A \cup B] = m[A] + m[B]

\* If each member of S is in one of the parts, the parts add up to S.
LEMMA SharedOut ==
  ASSUME NEW S, NEW m, Additive(m, S), NEW I, IsFiniteSet(I),
         NEW share, \A i \in I : share[i] \in SUBSET S,
         \A i, j \in I : i # j => share[i] \cap share[j] = {},
         \A x \in S : \E i \in I : x \in share[i],
         NEW f, DOMAIN f = I, \A i \in I : f[i] = m[share[i]]
  PROVE  TheReports!SumFunction(f) = m[S]
<1> DEFINE Of(T) == {x \in S : \E i \in T : x \in share[i]}
<1>1. PICK g : g = [T \in SUBSET I |-> m[Of(T)]]
  OBVIOUS
<1>2. ASSUME NEW T \in SUBSET I, NEW i \in T
      PROVE  m[Of(T)] = f[i] + m[Of(T \ {i})]
  <2>1. PICK A, B : A = share[i] /\ B = Of(T \ {i})
    OBVIOUS
  <2>2. Of(T) = A \cup B /\ A \cap B = {} /\ A \in SUBSET S /\ B \in SUBSET S
    BY <2>1
  <2>3. f[i] = m[A]
    BY <2>1
  <2> HIDE DEF Of
  <2>4. m[A \cup B] = m[A] + m[B]
    BY <2>2 DEF Additive
  <2>5. m[Of(T)] = m[A \cup B] /\ m[Of(T \ {i})] = m[B]
    BY <2>1, <2>2
  <2> QED BY <2>3, <2>4, <2>5
<1>3. m[Of({})] = 0
  <2>1. Of({}) = {}
    OBVIOUS
  <2> HIDE DEF Of
  <2> QED BY <2>1 DEF Additive
<1>4. AddsUp(g, f, I)
  <2>1. ASSUME NEW T \in SUBSET I
        PROVE  g[T] = IF T = {} THEN 0
                      ELSE LET x == CHOOSE e \in T : TRUE
                           IN  f[x] + g[T \ {x}]
    <3>1. CASE T = {}
      <4> HIDE DEF Of
      <4> QED BY <1>1, <1>3, <3>1
    <3>2. CASE T # {}
      <4>1. PICK x \in T : x = CHOOSE e \in T : TRUE
        BY <3>2
      <4>2. g[T] = f[x] + g[T \ {x}]
        <5>1. T \ {x} \in SUBSET I
          OBVIOUS
        <5> HIDE DEF Of
        <5> QED BY <1>1, <1>2, <5>1
      <4> QED BY <3>2, <4>1, <4>2
    <3> QED BY <3>1, <3>2
  <2> HIDE DEF Of
  <2> QED BY <1>1, <2>1, ZenonT(60) DEF AddsUp
<1>5. TheReports!SumFunction(f) = g[I]
  BY <1>4, SumIs
<1>6. Of(I) = S
  OBVIOUS
<1> HIDE DEF Of
<1> QED BY <1>1, <1>5, <1>6

LEMMA CountsAreAdditive ==
  ASSUME NEW S, IsFiniteSet(S)
  PROVE  \E m : Additive(m, S) /\ \A T \in SUBSET S : m[T] = Cardinality(T)
<1>1. PICK m : m = [T \in SUBSET S |-> Cardinality(T)]
  OBVIOUS
<1>2. \A T \in SUBSET S : IsFiniteSet(T) /\ Cardinality(T) \in Nat
  BY FS_Subset, FS_CardinalityType
<1>3. ASSUME NEW A \in SUBSET S, NEW B \in SUBSET S, A \cap B = {}
      PROVE  Cardinality(A \cup B) = Cardinality(A) + Cardinality(B)
  <2>1. Cardinality(A \cup B) = Cardinality(A) + Cardinality(B) - Cardinality(A \cap B)
    BY <1>2, FS_Union
  <2>2. Cardinality(A \cap B) = 0
    BY <1>3, FS_EmptySet
  <2> QED BY <1>2, <2>1, <2>2
<1>4. Additive(m, S)
  <2>1. m \in [SUBSET S -> Nat]
    BY <1>1, <1>2
  <2>2. m[{}] = 0
    BY <1>1, FS_EmptySet
  <2>3. \A A, B \in SUBSET S : A \cap B = {} => m[A \cup B] = m[A] + m[B]
    BY <1>1, <1>3
  <2> QED BY <2>1, <2>2, <2>3 DEF Additive
<1> QED BY <1>1, <1>4

\* A sum counts units.
LEMMA SumsAreAdditive ==
  ASSUME NEW S, IsFiniteSet(S), NEW f, \A x \in S : f[x] \in Nat
  PROVE  \E m : /\ Additive(m, S)
                /\ \A T \in SUBSET S : m[T] = TheReports!SumFunction([x \in T |-> f[x]])
<1> DEFINE Units(T) == {u \in T \X Nat : u[2] \in 1..f[u[1]]}
<1>1. ASSUME NEW x \in S
      PROVE  IsFiniteSet(Units({x})) /\ Cardinality(Units({x})) = f[x]
  <2>1. IsFiniteSet(1..f[x]) /\ Cardinality(1..f[x]) = f[x]
    BY FS_Interval
  <2>2. PICK b : b = [n \in 1..f[x] |-> <<x, n>>]
    OBVIOUS
  <2>3. Units({x}) = {<<x, n>> : n \in 1..f[x]}
    OBVIOUS
  <2>4. b \in Bijection(1..f[x], Units({x}))
    <3> HIDE DEF Units
    <3> QED BY <2>2, <2>3 DEF Bijection, Injection, Surjection, IsInjective
  <2> HIDE DEF Units
  <2> QED BY <2>1, <2>4, FS_Bijection DEF ExistsBijection
<1>2. ASSUME NEW T \in SUBSET S
      PROVE  IsFiniteSet(Units(T)) /\ Cardinality(Units(T)) \in Nat
  <2>1. PICK parts : parts = {Units({x}) : x \in T}
    OBVIOUS
  <2>2. PICK image : image = [x \in T |-> Units({x})]
    OBVIOUS
  <2>3. image \in Surjection(T, parts)
    <3> HIDE DEF Units
    <3> QED BY <2>1, <2>2 DEF Surjection
  <2>4. IsFiniteSet(T)
    BY FS_Subset
  <2>5. IsFiniteSet(parts)
    BY <2>3, <2>4, FS_Surjection
  <2>6. \A part_ \in parts : IsFiniteSet(part_)
    <3> HIDE DEF Units
    <3> QED BY <1>1, <2>1
  <2>7. IsFiniteSet(UNION parts)
    BY <2>5, <2>6, FS_UNION
  <2>8. Units(T) = UNION parts
    BY <2>1
  <2> HIDE DEF Units
  <2> QED BY <2>7, <2>8, FS_CardinalityType
<1>3. ASSUME NEW A \in SUBSET S, NEW B \in SUBSET S, A \cap B = {}
      PROVE  Cardinality(Units(A \cup B)) = Cardinality(Units(A)) + Cardinality(Units(B))
  <2>1. Units(A \cup B) = Units(A) \cup Units(B) /\ Units(A) \cap Units(B) = {}
    BY <1>3
  <2> HIDE DEF Units
  <2>2. Cardinality(Units(A) \cap Units(B)) = 0
    BY <2>1, FS_EmptySet
  <2>3. Cardinality(Units(A) \cup Units(B)) = Cardinality(Units(A)) + Cardinality(Units(B))
                                                - Cardinality(Units(A) \cap Units(B))
    BY <1>2, FS_Union
  <2>4. Cardinality(Units(A \cup B)) = Cardinality(Units(A) \cup Units(B))
    BY <2>1
  <2>5. Cardinality(Units(A)) \in Nat /\ Cardinality(Units(B)) \in Nat
    BY <1>2
  <2> QED BY <2>2, <2>3, <2>4, <2>5
<1>4. Units({}) = {}
  OBVIOUS
<1> HIDE DEF Units
<1>5. PICK m : m = [T \in SUBSET S |-> Cardinality(Units(T))]
  OBVIOUS
<1>6. Additive(m, S)
  <2>1. m \in [SUBSET S -> Nat]
    BY <1>2, <1>5
  <2>2. m[{}] = 0
    BY <1>4, <1>5, FS_EmptySet
  <2>3. \A A, B \in SUBSET S : A \cap B = {} => m[A \cup B] = m[A] + m[B]
    BY <1>3, <1>5
  <2> QED BY <2>1, <2>2, <2>3 DEF Additive
<1>7. ASSUME NEW T \in SUBSET S
      PROVE  m[T] = TheReports!SumFunction([x \in T |-> f[x]])
  <2>1. PICK h, share : h = [x \in T |-> f[x]] /\ share = [x \in T |-> {x}]
    OBVIOUS
  <2>2. PICK mt : mt = [U \in SUBSET T |-> m[U]]
    OBVIOUS
  <2>3. Additive(mt, T)
    <3>1. \A U \in SUBSET T : U \in SUBSET S
      OBVIOUS
    <3>2. mt \in [SUBSET T -> Nat] /\ mt[{}] = 0
      BY <1>6, <2>2, <3>1 DEF Additive
    <3>3. \A A, B \in SUBSET T : A \cap B = {} => mt[A \cup B] = mt[A] + mt[B]
      BY <1>6, <2>2, <3>1 DEF Additive
    <3> QED BY <3>2, <3>3 DEF Additive
  <2>4. \A x \in T : h[x] = mt[share[x]]
    <3> TAKE x \in T
    <3>1. m[{x}] = f[x]
      BY <1>1, <1>5
    <3>2. mt[{x}] = m[{x}]
      BY <2>2
    <3> QED BY <2>1, <3>1, <3>2
  <2>5. /\ \A x \in T : share[x] \in SUBSET T /\ \E y \in T : x \in share[y]
        /\ \A x, y \in T : x # y => share[x] \cap share[y] = {}
    BY <2>1
  <2>6. TheReports!SumFunction(h) = mt[T]
    <3>1. IsFiniteSet(T) /\ DOMAIN h = T
      BY <2>1, FS_Subset
    <3> QED BY <2>3, <2>4, <2>5, <3>1, SharedOut
  <2> QED BY <2>1, <2>2, <2>6
<1> QED BY <1>6, <1>7

LEMMA SumsShared ==
  ASSUME NEW S, IsFiniteSet(S), NEW amount, \A x \in S : amount[x] \in Nat,
         NEW I, IsFiniteSet(I),
         NEW share, \A i \in I : share[i] \in SUBSET S,
         \A i, j \in I : i # j => share[i] \cap share[j] = {},
         \A x \in S : \E i \in I : x \in share[i],
         NEW f, DOMAIN f = I,
         \A i \in I : f[i] = TheReports!SumFunction([x \in share[i] |-> amount[x]])
  PROVE  TheReports!SumFunction(f) = TheReports!SumFunction([x \in S |-> amount[x]])
<1>1. PICK m : /\ Additive(m, S)
               /\ \A T \in SUBSET S : m[T] = TheReports!SumFunction([x \in T |-> amount[x]])
  BY SumsAreAdditive
<1>2. \A i \in I : f[i] = m[share[i]]
  BY <1>1
<1>3. TheReports!SumFunction(f) = m[S]
  BY <1>1, <1>2, SharedOut
<1> QED BY <1>1, <1>3

LEMMA CountsShared ==
  ASSUME NEW S, IsFiniteSet(S), NEW I, IsFiniteSet(I),
         NEW share, \A i \in I : share[i] \in SUBSET S,
         \A i, j \in I : i # j => share[i] \cap share[j] = {},
         \A x \in S : \E i \in I : x \in share[i],
         NEW f, DOMAIN f = I, \A i \in I : f[i] = Cardinality(share[i])
  PROVE  TheReports!SumFunction(f) = Cardinality(S)
<1>1. PICK m : Additive(m, S) /\ \A T \in SUBSET S : m[T] = Cardinality(T)
  BY CountsAreAdditive
<1>2. \A i \in I : f[i] = m[share[i]]
  BY <1>1
<1>3. TheReports!SumFunction(f) = m[S]
  BY <1>1, <1>2, SharedOut
<1> QED BY <1>1, <1>3

\* The orders that the reports count.

SalesTyped ==
  /\ today \in Nat /\ sales = [o \in Orders |-> sales[o]]
  /\ \A o \in Orders :
       sales[o] # TheReports!Unplaced =>
         sales[o] \in [status : {"pending", "delivered", "cancelled"}, at : 0..today,
                       customer : Customers, category : Kinds,
                       price : Nat, quantity : Nat, total : Nat]

LEMMA SalesInit == Init => SalesTyped
BY DEF Init, TheReports!Init, SalesTyped

LEMMA SalesKept == SalesTyped /\ [TheReports!Next]_saleVars => SalesTyped'
<1> SUFFICES ASSUME SalesTyped, [TheReports!Next]_saleVars
             PROVE  SalesTyped'
  OBVIOUS
<1> DEFINE Sale(now) == [status : {"pending", "delivered", "cancelled"}, at : 0..now,
                         customer : Customers, category : Kinds,
                         price : Nat, quantity : Nat, total : Nat]
<1>0. today \in Nat /\ DOMAIN sales = Orders
  BY DEF SalesTyped
<1>1. ASSUME NEW o \in Orders, NEW sale \in Sale(today), sales' = [sales EXCEPT ![o] = sale],
             today' = today
      PROVE  SalesTyped'
  BY <1>0, <1>1 DEF SalesTyped
<1>2. ASSUME NEW o \in Orders, NEW customer \in Customers, NEW category \in Kinds,
             NEW price \in UnitPrices, NEW quantity \in Quantities, NEW discount \in Discounts,
             TheReports!Place(o, customer, category, price, quantity, discount)
      PROVE  SalesTyped'
  <2>1. PICK total : total = price * quantity - discount
    OBVIOUS
  <2>2. price \in Nat /\ quantity \in Nat /\ discount \in Nat /\ discount <= price * quantity
    BY <1>2, ReportsAssumption DEF TheReports!Place
  <2>3. total \in Nat
    <3>1. price * quantity \in Nat
      BY <2>2
    <3> QED BY <2>1, <2>2, <3>1
  <2>4. PICK sale : sale = [status |-> "pending", at |-> today, customer |-> customer,
                            category |-> category, price |-> price, quantity |-> quantity,
                            total |-> total]
    OBVIOUS
  <2>5. sale \in Sale(today)
    BY <1>0, <2>2, <2>3, <2>4
  <2>6. sales' = [sales EXCEPT ![o] = sale] /\ today' = today
    BY <1>2, <2>1, <2>4 DEF TheReports!Place
  <2> QED BY <1>1, <2>5, <2>6
<1>3. ASSUME NEW o \in Orders, NEW end \in {"delivered", "cancelled"}, TheReports!Finish(o, end)
      PROVE  SalesTyped'
  <2>1. PICK sale : sale = [sales[o] EXCEPT !.status = end]
    OBVIOUS
  <2>2. sales[o] \in Sale(today)
    BY <1>3 DEF SalesTyped, TheReports!Finish, TheReports!Placed
  <2>3. sale \in Sale(today)
    BY <2>1, <2>2
  <2>4. sales' = [sales EXCEPT ![o] = sale] /\ today' = today
    BY <1>0, <1>3, <2>1 DEF TheReports!Finish
  <2> QED BY <1>1, <2>3, <2>4
<1>4. CASE sales' = sales /\ today' = today
  BY <1>4 DEF SalesTyped
<1>5. CASE TheReports!TimePasses
  <2>1. today' = today + 1 /\ sales' = sales
    BY <1>5 DEF TheReports!TimePasses
  <2>2. \A sale \in Sale(today) : sale \in Sale(today')
    BY <1>0, <2>1
  <2> QED BY <1>0, <2>1, <2>2 DEF SalesTyped
<1>6. ASSUME NEW o \in Orders, TheReports!DeleteVariant(o) PROVE SalesTyped'
  BY <1>4, <1>6 DEF TheReports!DeleteVariant
<1>7. CASE UNCHANGED saleVars
  BY <1>4, <1>7 DEF saleVars
<1> QED BY <1>2, <1>3, <1>5, <1>6, <1>7 DEF TheReports!Next

\* A day is within the i-th point of a timeline.
Falls(at, i, start, step) ==
  start + (i - 1) * step <= at /\ at < start + (i - 1) * step + step

Cover(start, now, step, last) ==
  /\ last \in Nat
  /\ \A at \in start..now : \E i \in 1..last : Falls(at, i, start, step)
  /\ \A at \in Nat, i, j \in 1..last :
       Falls(at, i, start, step) /\ Falls(at, j, start, step) => i = j
  /\ \A at \in Nat, i \in 1..last : Falls(at, i, start, step) => start <= at

\* The points of a timeline do not overlap and leave no day out.
LEMMA PointsMeet ==
  ASSUME NEW step \in Nat \ {0}, NEW start \in Nat, NEW now \in Nat, start <= now,
         NEW last, last = ((now - start) \div step) + 1
  PROVE  Cover(start, now, step, last)
<1>0. ASSUME NEW n \in Nat
      PROVE  /\ n \div step \in Nat /\ (n \div step) * step <= n
             /\ n < (n \div step) * step + step
  <2>1. PICK q, rest : q = n \div step /\ rest = n % step
    OBVIOUS
  <2>2. q \in Nat /\ rest \in 0..step - 1 /\ n = q * step + rest
    BY <2>1
  <2> QED BY <2>1, <2>2
<1>1. now - start \in Nat
  OBVIOUS
<1>2. last \in Nat
  BY <1>0, <1>1
<1>3. ASSUME NEW at \in start..now
      PROVE  \E i \in 1..last : Falls(at, i, start, step)
  <2>1. PICK q \in Nat, r \in Nat : q = (at - start) \div step /\ r = (now - start) \div step
    BY <1>0, <1>1
  <2>2. q * step <= at - start /\ at - start < q * step + step
    BY <1>0, <2>1
  <2>3. r * step <= now - start /\ now - start < r * step + step
    BY <1>0, <1>1, <2>1
  <2>4. q <= r
    <3> SUFFICES ASSUME r + 1 <= q PROVE FALSE
      BY <2>1
    <3>1. (r + 1) * step <= q * step
      BY <2>1
    <3>2. (r + 1) * step = r * step + step
      BY <2>1
    <3> QED BY <2>2, <2>3, <3>1, <3>2
  <2>5. q + 1 \in 1..last /\ (q + 1) - 1 = q
    BY <1>2, <2>1, <2>4
  <2>6. start + q * step <= at /\ at < start + q * step + step
    <3>1. PICK n \in Nat : n = q * step
      BY <2>1
    <3> QED BY <2>2, <3>1
  <2> QED BY <2>5, <2>6 DEF Falls
<1>4. ASSUME NEW at \in Nat, NEW i \in 1..last, NEW j \in 1..last,
             start + (i - 1) * step <= at, at < start + (j - 1) * step + step
      PROVE  i <= j
  <2> SUFFICES ASSUME j + 1 <= i PROVE FALSE
    BY <1>2
  <2>1. PICK a \in Nat, b \in Nat : a = (i - 1) * step /\ b = (j - 1) * step
    BY <1>2
  <2>2. j * step <= (i - 1) * step
    BY <1>2
  <2>3. j * step = (j - 1) * step + step
    BY <1>2
  <2>4. b + step <= a
    BY <2>1, <2>2, <2>3
  <2> QED BY <1>4, <2>1, <2>4
<1>5. ASSUME NEW at \in Nat, NEW i \in 1..last, Falls(at, i, start, step)
      PROVE  start <= at
  <2>1. PICK a \in Nat : a = (i - 1) * step
    BY <1>2
  <2> QED BY <1>5, <2>1 DEF Falls
<1>6. ASSUME NEW at \in Nat, NEW i \in 1..last, NEW j \in 1..last,
             Falls(at, i, start, step), Falls(at, j, start, step)
      PROVE  i = j
  <2>1. i <= j /\ j <= i
    BY <1>4, <1>6 DEF Falls
  <2> QED BY <1>2, <2>1
<1> QED BY <1>2, <1>3, <1>5, <1>6 DEF Cover

\* The reports, for one beginning of the period.

\* What the summary counts.
InPeriod(start) == {o \in TheReports!Placed : start <= sales[o].at /\ sales[o].at <= today}

Totals == [o \in TheReports!Placed |-> sales[o].total]
Pieces == [o \in TheReports!Placed |-> sales[o].quantity]
LinePrices == [o \in TheReports!Placed |-> TheReports!LinePrice(o)]

LEMMA PlacedAreSales ==
  ASSUME SalesTyped
  PROVE  /\ IsFiniteSet(TheReports!Placed)
         /\ \A o \in TheReports!Placed :
              /\ sales[o].at \in Nat /\ sales[o].at <= today
              /\ sales[o].status \in {"pending", "delivered", "cancelled"}
              /\ Totals[o] \in Nat /\ Pieces[o] \in Nat /\ LinePrices[o] \in Nat
<1>1. IsFiniteSet(TheReports!Placed)
  BY FS_Subset, ReportsAssumption DEF TheReports!Placed
<1>2. \A o \in TheReports!Placed :
        sales[o] \in [status : {"pending", "delivered", "cancelled"}, at : 0..today,
                      customer : Customers, category : Kinds,
                      price : Nat, quantity : Nat, total : Nat]
  BY DEF SalesTyped, TheReports!Placed
<1>3. \A o \in TheReports!Placed : sales[o].price * sales[o].quantity \in Nat
  <2> TAKE o \in TheReports!Placed
  <2>1. sales[o].price \in Nat /\ sales[o].quantity \in Nat
    BY <1>2
  <2> QED BY <2>1
<1>4. today \in Nat
  BY DEF SalesTyped
<1> QED BY <1>1, <1>2, <1>3, <1>4 DEF Totals, Pieces, LinePrices, TheReports!LinePrice

LEMMA SummaryIs ==
  ASSUME SalesTyped, NEW start
  PROVE  LET summary == TheReports!Summary(start)
             sold == TheReports!Delivered(InPeriod(start))
         IN /\ summary.total_orders = Cardinality(InPeriod(start))
            /\ summary.by_status = [s \in {"pending", "delivered", "cancelled"} |->
                 Cardinality({o \in InPeriod(start) : sales[o].status = s})]
            /\ summary.total_revenue = TheReports!SumFunction([o \in sold |-> Totals[o]])
            /\ summary.items_sold = TheReports!SumFunction([o \in sold |-> Pieces[o]])
<1>1. PICK sold : sold = TheReports!Delivered(InPeriod(start))
  OBVIOUS
<1>2. sold \subseteq TheReports!Placed
  BY <1>1 DEF TheReports!Delivered, InPeriod
<1>3. /\ [o \in sold |-> Totals[o]] = [o \in sold |-> sales[o].total]
      /\ [o \in sold |-> Pieces[o]] = [o \in sold |-> sales[o].quantity]
  BY <1>2 DEF Totals, Pieces
<1>4. TheReports!Summary(start) =
        [total_orders |-> Cardinality(InPeriod(start)),
         by_status |-> [s \in {"pending", "delivered", "cancelled"} |->
                         Cardinality({o \in InPeriod(start) : sales[o].status = s})],
         total_revenue |-> TheReports!SumFunction([o \in sold |-> sales[o].total]),
         items_sold |-> TheReports!SumFunction([o \in sold |-> sales[o].quantity])]
  BY <1>1, ReportCardinality, Zenon DEF TheReports!Summary, InPeriod
<1> QED BY <1>1, <1>3, <1>4

LEMMA TimelineAdds ==
  ASSUME SalesTyped, NEW start \in 0..today, NEW period \in Periods
  PROVE  LET timeline == TheReports!Timeline(start, period)
             summary == TheReports!Summary(start)
             Total(field) == TheReports!SumFunction([i \in DOMAIN timeline |-> timeline[i][field]])
         IN /\ Total("orders_count") = summary.total_orders
            /\ Total("revenue") = summary.total_revenue
            /\ Total("items_sold") = summary.items_sold
<1>1. PICK step, last : step = Step[period] /\ last = ((today - start) \div step) + 1
  OBVIOUS
<1>2. step \in Nat \ {0} /\ start \in Nat /\ today \in Nat /\ start <= today
  BY <1>1, ReportsAssumption DEF SalesTyped
<1>3. /\ last \in Nat
      /\ \A at \in start..today : \E i \in 1..last : Falls(at, i, start, step)
      /\ \A at \in Nat, i, j \in 1..last :
           Falls(at, i, start, step) /\ Falls(at, j, start, step) => i = j
      /\ \A at \in Nat, i \in 1..last : Falls(at, i, start, step) => start <= at
  <2>1. Cover(start, today, step, last)
    BY <1>1, <1>2, PointsMeet
  <2> QED BY <2>1 DEF Cover
<1>4. PICK S, sold : S = InPeriod(start) /\ sold = TheReports!Delivered(S)
  OBVIOUS
<1> DEFINE I == 1..last
<1>5. PICK share : share = [i \in I |->
        {o \in TheReports!Placed : Falls(sales[o].at, i, start, step)}]
  OBVIOUS
<1>6. PICK bought : bought = [i \in I |-> TheReports!Delivered(share[i])]
  OBVIOUS
<1>7. /\ IsFiniteSet(TheReports!Placed)
      /\ \A o \in TheReports!Placed : sales[o].at \in Nat /\ sales[o].at <= today
  BY PlacedAreSales
<1>8. /\ \A i \in I : share[i] \in SUBSET S
      /\ \A i, j \in I : i # j => share[i] \cap share[j] = {}
      /\ \A o \in S : \E i \in I : o \in share[i]
  <2>1. ASSUME NEW i \in I, NEW o \in share[i] PROVE o \in S
    <3>1. o \in TheReports!Placed /\ Falls(sales[o].at, i, start, step)
      BY <1>5
    <3>2. start <= sales[o].at /\ sales[o].at <= today
      BY <1>3, <1>7, <3>1
    <3> QED BY <1>4, <3>1, <3>2 DEF InPeriod
  <2>2. ASSUME NEW i \in I, NEW j \in I, NEW o \in share[i], o \in share[j]
        PROVE  i = j
    <3>1. /\ o \in TheReports!Placed
          /\ Falls(sales[o].at, i, start, step) /\ Falls(sales[o].at, j, start, step)
      BY <1>5, <2>2
    <3>2. sales[o].at \in Nat
      BY <1>7, <3>1
    <3> QED BY <1>3, <3>1, <3>2
  <2>3. ASSUME NEW o \in S PROVE \E i \in I : o \in share[i]
    <3>1. o \in TheReports!Placed /\ sales[o].at \in start..today
      BY <1>2, <1>4, <1>7 DEF InPeriod
    <3>2. PICK i \in I : Falls(sales[o].at, i, start, step)
      BY <1>3, <3>1
    <3>3. o \in share[i]
      BY <1>5, <3>1, <3>2
    <3> QED BY <3>3
  <2> HIDE DEF I
  <2> QED BY <2>1, <2>2, <2>3
<1>9. /\ \A i \in I : bought[i] \in SUBSET sold
      /\ \A i, j \in I : i # j => bought[i] \cap bought[j] = {}
      /\ \A o \in sold : \E i \in I : o \in bought[i]
  <2>1. ASSUME NEW i \in I, NEW o
        PROVE  o \in bought[i] <=> o \in share[i] /\ sales[o].status = "delivered"
    BY <1>6 DEF TheReports!Delivered
  <2>2. \A o : o \in sold <=> o \in S /\ sales[o].status = "delivered"
    BY <1>4 DEF TheReports!Delivered
  <2> HIDE DEF I
  <2> QED BY <1>8, <2>1, <2>2
<1>10. S \in SUBSET TheReports!Placed /\ sold \in SUBSET TheReports!Placed
  BY <1>4 DEF InPeriod, TheReports!Delivered
<1>11. IsFiniteSet(S) /\ IsFiniteSet(sold) /\ IsFiniteSet(I)
  <2>1. IsFiniteSet(S) /\ IsFiniteSet(sold)
    <3> HIDE DEF I
    <3> QED BY <1>7, <1>10, FS_Subset
  <2>2. 1 \in Int /\ last \in Int
    BY <1>3
  <2>3. IsFiniteSet(1..last)
    BY ONLY <2>2, FS_Interval, Zenon
  <2> QED BY <2>1, <2>3
<1>12. PICK timeline : timeline = TheReports!Timeline(start, period)
  OBVIOUS
<1>13. /\ DOMAIN timeline = I
       /\ \A i \in I :
            /\ timeline[i].orders_count = Cardinality(share[i])
            /\ timeline[i].revenue = TheReports!SumFunction([o \in bought[i] |-> Totals[o]])
            /\ timeline[i].items_sold = TheReports!SumFunction([o \in bought[i] |-> Pieces[o]])
  <2>1. PICK points : points = TheReports!Points(start, step)
    OBVIOUS
  <2>2. DOMAIN points = I /\ \A i \in I : points[i] = start + (i - 1) * step
    BY <1>1, <2>1 DEF TheReports!Points
  <2>3. timeline = [i \in I |-> TheReports!PointOf(points[i], step)]
    BY <1>1, <1>12, <2>1, <2>2, Zenon DEF TheReports!Timeline
  <2> SUFFICES ASSUME NEW i \in I
               PROVE  LET point == TheReports!PointOf(points[i], step)
                      IN /\ point.orders_count = Cardinality(share[i])
                         /\ point.revenue = TheReports!SumFunction([o \in bought[i] |-> Totals[o]])
                         /\ point.items_sold = TheReports!SumFunction([o \in bought[i] |-> Pieces[o]])
    BY <2>3
  <2>4. PICK current : current = points[i]
    OBVIOUS
  <2>5. share[i] = {o \in TheReports!Placed : /\ current <= sales[o].at
                                             /\ sales[o].at < current + step}
    BY <1>5, <2>2, <2>4 DEF Falls
  <2>6. TheReports!PointOf(current, step) =
          [orders_count |-> Cardinality(share[i]),
           revenue |-> TheReports!SumFunction([o \in bought[i] |-> sales[o].total]),
           items_sold |-> TheReports!SumFunction([o \in bought[i] |-> sales[o].quantity])]
    <3>1. bought[i] = TheReports!Delivered(share[i])
      BY <1>6
    <3> QED BY <2>5, <3>1, ReportCardinality, Zenon DEF TheReports!PointOf
  <2>7. bought[i] \in SUBSET TheReports!Placed
    BY <1>9, <1>10
  <2>8. /\ [o \in bought[i] |-> Totals[o]] = [o \in bought[i] |-> sales[o].total]
        /\ [o \in bought[i] |-> Pieces[o]] = [o \in bought[i] |-> sales[o].quantity]
    BY <2>7 DEF Totals, Pieces
  <2> QED BY <2>4, <2>6, <2>8
<1> HIDE DEF I
<1>14. TheReports!SumFunction([i \in DOMAIN timeline |-> timeline[i]["orders_count"]])
         = TheReports!Summary(start).total_orders
  <2>1. PICK f : f = [i \in DOMAIN timeline |-> timeline[i]["orders_count"]]
    OBVIOUS
  <2>2. DOMAIN f = I /\ \A i \in I : f[i] = Cardinality(share[i])
    BY <1>13, <2>1
  <2>3. TheReports!SumFunction(f) = Cardinality(S)
    BY <1>8, <1>11, <2>2, CountsShared
  <2> QED BY <1>4, <2>1, <2>3, SummaryIs
<1>15. TheReports!SumFunction([i \in DOMAIN timeline |-> timeline[i]["revenue"]])
         = TheReports!Summary(start).total_revenue
  <2>1. PICK f, amount : /\ f = [i \in DOMAIN timeline |-> timeline[i]["revenue"]]
                         /\ amount = Totals
    OBVIOUS
  <2>2. /\ DOMAIN f = I
        /\ \A i \in I : f[i] = TheReports!SumFunction([o \in bought[i] |-> amount[o]])
    BY <1>13, <2>1
  <2>3. \A o \in sold : amount[o] \in Nat
    BY <1>10, <2>1, PlacedAreSales
  <2>4. TheReports!SumFunction(f) = TheReports!SumFunction([o \in sold |-> amount[o]])
    BY <1>9, <1>11, <2>2, <2>3, SumsShared
  <2> QED BY <1>4, <2>1, <2>4, SummaryIs
<1>16. TheReports!SumFunction([i \in DOMAIN timeline |-> timeline[i]["items_sold"]])
         = TheReports!Summary(start).items_sold
  <2>1. PICK f, amount : /\ f = [i \in DOMAIN timeline |-> timeline[i]["items_sold"]]
                         /\ amount = Pieces
    OBVIOUS
  <2>2. /\ DOMAIN f = I
        /\ \A i \in I : f[i] = TheReports!SumFunction([o \in bought[i] |-> amount[o]])
    BY <1>13, <2>1
  <2>3. \A o \in sold : amount[o] \in Nat
    BY <1>10, <2>1, PlacedAreSales
  <2>4. TheReports!SumFunction(f) = TheReports!SumFunction([o \in sold |-> amount[o]])
    BY <1>9, <1>11, <2>2, <2>3, SumsShared
  <2> QED BY <1>4, <2>1, <2>4, SummaryIs
<1> QED BY <1>12, <1>14, <1>15, <1>16

LEMMA SoldInPeriod ==
  ASSUME SalesTyped, NEW start
  PROVE  TheReports!SoldSince(start) = TheReports!Delivered(InPeriod(start))
<1>1. \A o \in TheReports!Placed :
        sales[o].at \in Nat /\ sales[o].at <= today
  BY PlacedAreSales
<1>2. \A o : o \in TheReports!SoldSince(start) <=>
              /\ o \in TheReports!Placed /\ sales[o].at >= start /\ sales[o].status = "delivered"
  BY DEF TheReports!SoldSince, TheReports!Delivered
<1>3. \A o : o \in TheReports!Delivered(InPeriod(start)) <=>
              /\ o \in TheReports!Placed /\ start <= sales[o].at /\ sales[o].at <= today
              /\ sales[o].status = "delivered"
  BY DEF TheReports!Delivered, InPeriod
<1> QED BY <1>1, <1>2, <1>3

LEMMA StatusesAddUp ==
  ASSUME SalesTyped, NEW start
  PROVE  TheReports!SumFunction(TheReports!Summary(start).by_status)
           = TheReports!Summary(start).total_orders
<1>1. PICK S, I : S = InPeriod(start) /\ I = {"pending", "delivered", "cancelled"}
  OBVIOUS
<1>2. PICK share : share = [s \in I |-> {o \in S : sales[o].status = s}]
  OBVIOUS
<1>3. /\ \A o \in S : o \in TheReports!Placed /\ sales[o].status \in I
      /\ IsFiniteSet(S) /\ IsFiniteSet(I)
  <2>1. S \in SUBSET TheReports!Placed
    BY <1>1 DEF InPeriod
  <2>2. IsFiniteSet(S) /\ \A o \in S : sales[o].status \in I
    BY <1>1, <2>1, PlacedAreSales, FS_Subset
  <2>3. IsFiniteSet(I)
    <3>1. IsFiniteSet(({} \cup {"pending"}) \cup {"delivered"})
      BY FS_EmptySet, FS_AddElement
    <3>2. I = (({} \cup {"pending"}) \cup {"delivered"}) \cup {"cancelled"}
      BY <1>1
    <3> QED BY <3>1, <3>2, FS_AddElement
  <2> QED BY <2>1, <2>2, <2>3
<1>4. PICK f : f = TheReports!Summary(start).by_status
  OBVIOUS
<1>5. DOMAIN f = I /\ \A s \in I : f[s] = Cardinality(share[s])
  <2>1. f = [s \in I |-> Cardinality({o \in S : sales[o].status = s})]
    BY <1>1, <1>4, SummaryIs, ZenonT(60)
  <2>2. \A s \in I : {o \in S : sales[o].status = s} = share[s]
    BY <1>2
  <2> QED BY <2>1, <2>2
<1>6. /\ \A s \in I : share[s] \in SUBSET S
      /\ \A s, t \in I : s # t => share[s] \cap share[t] = {}
      /\ \A o \in S : \E s \in I : o \in share[s]
  BY <1>2, <1>3
<1>7. TheReports!SumFunction(f) = Cardinality(S)
  BY <1>3, <1>5, <1>6, CountsShared
<1> QED BY <1>1, <1>4, <1>7, SummaryIs

LEMMA CustomersSpend ==
  ASSUME SalesTyped, NEW start
  PROVE  LET customers == TheReports!TopCustomers(start)
         IN TheReports!SumFunction([c \in DOMAIN customers |-> customers[c].total_spent])
              = TheReports!Summary(start).total_revenue
<1>1. PICK S, amount : S = TheReports!SoldSince(start) /\ amount = Totals
  OBVIOUS
<1>2. PICK I : I = {sales[o].customer : o \in S}
  OBVIOUS
<1>3. PICK share : share = [c \in I |-> {o \in S : sales[o].customer = c}]
  OBVIOUS
<1>4. S \in SUBSET TheReports!Placed
  BY <1>1 DEF TheReports!SoldSince, TheReports!Delivered
<1>5. IsFiniteSet(S) /\ \A o \in S : amount[o] \in Nat
  BY <1>1, <1>4, PlacedAreSales, FS_Subset
<1>6. IsFiniteSet(I)
  <2>1. PICK of : of = [o \in S |-> sales[o].customer]
    OBVIOUS
  <2>2. of \in Surjection(S, I)
    BY <1>2, <2>1 DEF Surjection
  <2> QED BY <1>5, <2>2, FS_Surjection
<1>7. PICK customers, f : /\ customers = TheReports!TopCustomers(start)
                          /\ f = [c \in DOMAIN customers |-> customers[c].total_spent]
  OBVIOUS
<1>8. DOMAIN f = I /\ \A c \in I : f[c] = TheReports!SumFunction([o \in share[c] |-> amount[o]])
  <2>1. customers = [c \in I |->
          [orders_count |-> Cardinality(share[c]),
           total_spent |-> TheReports!SumFunction([o \in share[c] |-> sales[o].total])]]
    <3>1. \A c \in I : {o \in S : sales[o].customer = c} = share[c]
      BY <1>3
    <3>2. customers = [c \in I |->
            [orders_count |-> Cardinality({o \in S : sales[o].customer = c}),
             total_spent |-> TheReports!SumFunction(
                               [o \in {placed \in S : sales[placed].customer = c} |-> sales[o].total])]]
      BY <1>1, <1>2, <1>7, ReportCardinality, Zenon DEF TheReports!TopCustomers
    <3> QED BY <3>1, <3>2
  <2>2. ASSUME NEW c \in I
        PROVE  [o \in share[c] |-> sales[o].total] = [o \in share[c] |-> amount[o]]
    <3>1. share[c] \in SUBSET TheReports!Placed
      BY <1>3, <1>4
    <3> QED BY <1>1, <3>1 DEF Totals
  <2> QED BY <1>7, <2>1, <2>2
<1>9. /\ \A c \in I : share[c] \in SUBSET S
      /\ \A c, d \in I : c # d => share[c] \cap share[d] = {}
      /\ \A o \in S : \E c \in I : o \in share[c]
  BY <1>2, <1>3
<1>10. TheReports!SumFunction(f) = TheReports!SumFunction([o \in S |-> amount[o]])
  BY <1>5, <1>6, <1>8, <1>9, SumsShared
<1>11. TheReports!Summary(start).total_revenue
          = TheReports!SumFunction([o \in S |-> amount[o]])
  <2>1. S = TheReports!Delivered(InPeriod(start))
    BY <1>1, SoldInPeriod
  <2> QED BY <1>1, <2>1, SummaryIs
<1> QED BY <1>7, <1>10, <1>11

LEMMA CategoriesSell ==
  ASSUME SalesTyped, NEW start
  PROVE  LET products == TheReports!TopProducts(start)
         IN TheReports!SumFunction(TheReports!TopCategories(start))
              = TheReports!SumFunction([o \in DOMAIN products \ deleted |-> products[o].revenue])
<1>1. PICK S, amount : S = TheReports!SoldSince(start) \ deleted /\ amount = LinePrices
  OBVIOUS
<1>2. PICK I : I = {sales[o].category : o \in S}
  OBVIOUS
<1>3. PICK share : share = [c \in I |-> {o \in S : sales[o].category = c}]
  OBVIOUS
<1>4. S \in SUBSET TheReports!Placed
  BY <1>1 DEF TheReports!SoldSince, TheReports!Delivered
<1>5. IsFiniteSet(S) /\ \A o \in S : amount[o] \in Nat
  BY <1>1, <1>4, PlacedAreSales, FS_Subset
<1>6. IsFiniteSet(I)
  <2>1. PICK of : of = [o \in S |-> sales[o].category]
    OBVIOUS
  <2>2. of \in Surjection(S, I)
    BY <1>2, <2>1 DEF Surjection
  <2> QED BY <1>5, <2>2, FS_Surjection
<1>7. PICK f : f = TheReports!TopCategories(start)
  OBVIOUS
<1>8. DOMAIN f = I /\ \A c \in I : f[c] = TheReports!SumFunction([o \in share[c] |-> amount[o]])
  <2>1. \A c \in I : {o \in S : sales[o].category = c} = share[c]
    BY <1>3
  <2>2. f = [c \in I |-> TheReports!SumFunction(
               [o \in {line \in S : sales[line].category = c} |-> TheReports!LinePrice(o)])]
    BY <1>1, <1>2, <1>7, Zenon DEF TheReports!TopCategories
  <2>3. ASSUME NEW c \in I
        PROVE  [o \in share[c] |-> TheReports!LinePrice(o)] = [o \in share[c] |-> amount[o]]
    <3>1. share[c] \in SUBSET TheReports!Placed
      BY <1>3, <1>4
    <3> QED BY <1>1, <3>1 DEF LinePrices
  <2> QED BY <2>1, <2>2, <2>3
<1>9. /\ \A c \in I : share[c] \in SUBSET S
      /\ \A c, d \in I : c # d => share[c] \cap share[d] = {}
      /\ \A o \in S : \E c \in I : o \in share[c]
  BY <1>2, <1>3
<1>10. TheReports!SumFunction(f) = TheReports!SumFunction([o \in S |-> amount[o]])
  BY <1>5, <1>6, <1>8, <1>9, SumsShared
<1>11. PICK products : products = TheReports!TopProducts(start)
  OBVIOUS
<1>12. [o \in DOMAIN products \ deleted |-> products[o].revenue] = [o \in S |-> amount[o]]
  <2>1. /\ DOMAIN products = TheReports!SoldSince(start)
        /\ \A o \in S : products[o].revenue = TheReports!LinePrice(o)
    BY <1>1, <1>11 DEF TheReports!TopProducts
  <2>2. \A o \in S : amount[o] = TheReports!LinePrice(o)
    BY <1>1, <1>4 DEF LinePrices
  <2> QED BY <1>1, <2>1, <2>2
<1> QED BY <1>7, <1>10, <1>11, <1>12

\* The reports of one dashboard agree with each other, for any orders and any
\* beginning and length of the periods.
THEOREM ReportsAddUp == Spec => []ReportsAgree
<1>1. SalesTyped => ReportsAgree
  BY TimelineAdds, StatusesAddUp, CustomersSpend, CategoriesSell, Zenon
     DEF ReportsAgree, TheReports!ReportsAgree
<1> QED BY <1>1, SalesInit, SaleStep, SalesKept, PTL DEF Spec
=============================================================================
