------------------------------ MODULE Merchants ------------------------------
(***************************************************************************)
(* Whose the shop is: legal entities, their stores and markets, and the    *)
(* report that says, before the migration PROD-050, whether all there is   *)
(* can be given to the one store of the first release.                     *)
(*                                                                         *)
(* The report only reads, in a transaction of its own, but its queries see *)
(* what others commit in between (READ COMMITTED).                         *)
(*                                                                         *)
(* Abstractions.  Of a price only its currency counts, of the history of   *)
(* prices whether there is one.  Names, slugs and countries are left out,  *)
(* no code switches a currency off, and an object that the constraint has  *)
(* refused to save is not used again.                                      *)
(***************************************************************************)
EXTENDS Integers, FiniteSets

CONSTANTS
  Entities, Stores, Markets, Currencies,
  Seeded,    \* [entity, store, market] of the first deployment
  Rubles,    \* its currency, and the one of a new price
  LegacyPrices, \* currencies of the prices there were
  PaymentChoices, \* currencies that a market is given
  MaxChanges \* bound: what others commit

VARIABLES
  entities, stores, markets, \* rows, or Absent
  prices,  \* currencies of the Price rows
  history, \* whether there are PriceHistory rows
  held,    \* the LegalEntity object that a caller of the service has loaded, if any
  report,  \* what the report has read
  changes

merchantVars == <<entities, stores, markets, prices, history, held, report, changes>>

Absent == [absent |-> TRUE]

Existing(rows) == {x \in DOMAIN rows : rows[x] # Absent}
ActiveEntities == {e \in Existing(entities) : entities[e].active}
ActiveMarkets == {k \in Existing(markets) : markets[k].active}

\* A commit of anyone but the report.
Commit ==
  /\ changes < MaxChanges /\ changes' = changes + 1
  /\ report' = [report EXCEPT !.quiet = FALSE]

-----------------------------------------------------------------------------
\* MerchantsService.  Its checks are repeated by UNIQUE constraints, so that
\* rows are written if and only if they fit.

\* Constraint legalentity_single_active.
SingleActive == Cardinality(ActiveEntities') <= 1

CreateLegalEntity(e, currency, active) ==
  /\ entities[e] = Absent
  /\ entities' = [entities EXCEPT ![e] = [currency |-> currency, active |-> active]]
  /\ SingleActive /\ Commit
  /\ UNCHANGED <<stores, markets, prices, history, held>>

LoadEntity(e) ==
  /\ entities[e] # Absent
  /\ held' = {[entity |-> e, active |-> entities[e].active]}
  /\ UNCHANGED <<entities, stores, markets, prices, history, report, changes>>

\* update_legal_entity, by the one who holds the object or by anyone else.
UpdateLegalEntity(e, active) ==
  /\ entities[e] # Absent
  /\ entities' = [entities EXCEPT ![e].active = active]
  /\ entities' # entities /\ SingleActive /\ Commit
  /\ held' \in {held, {IF h.entity = e THEN [h EXCEPT !.active = active] ELSE h : h \in held}}
  /\ UNCHANGED <<stores, markets, prices, history>>

\* create_store looks at the object.
CreateStore(s) ==
  /\ stores[s] = Absent
  /\ \E h \in held : h.active /\ stores' = [stores EXCEPT ![s] = [entity |-> h.entity]]
  /\ Commit
  /\ UNCHANGED <<entities, markets, prices, history, held>>

\* Constraint storemarket_active_per_store.
OneActivePerStore ==
  \A k, l \in ActiveMarkets' : markets'[k].store = markets'[l].store => k = l

CreateStoreMarket(k, s, payment, active) ==
  /\ markets[k] = Absent /\ stores[s] # Absent
  /\ markets' = [markets EXCEPT ![k] = [store |-> s, payment |-> payment, active |-> active]]
  /\ OneActivePerStore /\ Commit
  /\ UNCHANGED <<entities, stores, prices, history, held>>

UpdateStoreMarket(k, payment, active) ==
  /\ markets[k] # Absent
  /\ markets' = [markets EXCEPT ![k].payment = payment, ![k].active = active]
  /\ markets' # markets
  /\ OneActivePerStore /\ Commit
  /\ UNCHANGED <<entities, stores, prices, history, held>>

\* PricingService.set_price: a new row, or another price and its history.
SetPrice(isNew) ==
  /\ IF isNew THEN prices' = prices \cup {Rubles} /\ UNCHANGED history
              ELSE prices # {} /\ history' = TRUE /\ UNCHANGED prices
  /\ Commit
  /\ UNCHANGED <<entities, stores, markets, held>>

RemovePrice(currency) ==
  /\ currency \in prices
  /\ prices' = prices \ {currency}
  /\ Commit
  /\ UNCHANGED <<entities, stores, markets, history, held>>

-----------------------------------------------------------------------------
\* prod050_preflight: the queries, one after the other.
NoReport ==
  [step |-> "none", active |-> {}, known |-> {}, stores |-> {}, markets |-> {}, paid |-> {},
   prices |-> {}, history |-> FALSE, accounting |-> {}, quiet |-> FALSE]

Start ==
  /\ report.step = "none"
  /\ report' = [NoReport EXCEPT !.step = "active", !.quiet = TRUE]
  /\ UNCHANGED <<entities, stores, markets, prices, history, held, changes>>

Sole(set) == Cardinality(set) = 1

-----------------------------------------------------------------------------
\* Its classifications, of what was read.
Proven == {}

EntityFindings(r) ==
  IF Sole(r.active) THEN Proven
  ELSE IF r.active = {} THEN {"UNPROVABLE"} ELSE {"CONFLICT"}

StoreFindings(r, store) ==
  IF store.entity \notin r.known THEN {"CONFLICT"}
  ELSE IF ~Sole(r.active) THEN {"UNPROVABLE"}
  ELSE IF store.entity \notin r.active THEN {"CONFLICT"} ELSE Proven

MarketFindings(r, market) ==
  IF \A store \in r.stores : store.id # market.store THEN {"CONFLICT"}
  ELSE IF market.active /\ market.id \notin r.paid THEN {"UNPROVABLE"} ELSE Proven

\* Active markets: those of the only store, and others.
Candidates(r) ==
  {m \in r.markets : m.active /\ Sole(r.stores) /\ \A store \in r.stores : m.store = store.id}
Alternatives(r) == {m \in r.markets : m.active} \ Candidates(r)

Bootstrap(r) ==
  /\ Sole(r.stores) /\ Sole(r.active)
  /\ \A store \in r.stores : store.entity \in r.active \cap r.known
  /\ Sole(Candidates(r)) /\ Alternatives(r) = {}
  /\ \A m \in Candidates(r) : m.id \in r.paid

BootstrapFindings(r) ==
  IF Bootstrap(r) THEN Proven
  ELSE IF Cardinality(r.stores) > 1 \/ Cardinality(Candidates(r)) > 1 \/ Alternatives(r) # {}
       THEN {"CONFLICT"} ELSE {"UNPROVABLE"}

\* Products and variants are the store's if the bootstrap is proven.
PriceFindings(r, currency) ==
  IF ~Bootstrap(r) THEN {"UNPROVABLE"}
  ELSE IF currency \notin r.accounting THEN {"CONFLICT"} ELSE Proven

HistoryFindings(r) == IF r.history THEN {"UNKNOWN"} ELSE Proven

Findings(r) ==
  EntityFindings(r) \cup BootstrapFindings(r) \cup HistoryFindings(r)
    \cup (UNION {StoreFindings(r, store) : store \in r.stores})
    \cup (UNION {MarketFindings(r, m) : m \in r.markets})
    \cup (UNION {PriceFindings(r, currency) : currency \in r.prices})

\* Mutant: a conflict is something to look at, not a failure.
ProofsOnly == {"UNPROVABLE", "AMBIGUOUS", "UNKNOWN"}

FailClassifications == {"UNPROVABLE", "AMBIGUOUS", "CONFLICT", "UNKNOWN"}

Passed(r) == Findings(r) \cap FailClassifications = {}

\* build_report.
Read(step, read) ==
  /\ report.step = step /\ report' = read
  /\ UNCHANGED <<entities, stores, markets, prices, history, held, changes>>

Query ==
  \/ Read("active", [report EXCEPT !.active = ActiveEntities, !.step = "known"])
  \/ Read("known", [report EXCEPT !.known = Existing(entities), !.step = "stores"])
  \/ Read("stores",
          [report EXCEPT !.step = "markets",
             !.stores = {[id |-> s, entity |-> stores[s].entity] : s \in Existing(stores)}])
  \/ Read("markets",
          [report EXCEPT !.step = "payments",
             !.markets = {[id |-> k, store |-> markets[k].store,
                           active |-> markets[k].active] : k \in Existing(markets)}])
  \/ Read("payments",
          [report EXCEPT !.step = "prices",
             !.paid = {k \in {m.id : m \in report.markets} : markets[k].payment # {}}])
  \/ Read("prices", [report EXCEPT !.prices = prices, !.step = "history"])
  \/ Read("history", [report EXCEPT !.history = history, !.step = "accounting"])
  \/ Read("accounting",
          [report EXCEPT !.step = "done",
             !.accounting = IF Bootstrap(report)
                              THEN {entities[e].currency : e \in report.active} ELSE {}])

-----------------------------------------------------------------------------
\* The first deployment, with the prices there were.
Init ==
  /\ entities = [e \in Entities |-> IF e = Seeded.entity
                   THEN [currency |-> Rubles, active |-> TRUE] ELSE Absent]
  /\ stores = [s \in Stores |-> IF s = Seeded.store
                 THEN [entity |-> Seeded.entity] ELSE Absent]
  /\ markets = [k \in Markets |-> IF k = Seeded.market
                  THEN [store |-> Seeded.store, payment |-> Currencies, active |-> TRUE]
                  ELSE Absent]
  /\ prices = LegacyPrices /\ history = FALSE
  /\ held = {} /\ report = NoReport /\ changes = 0

Next ==
  \/ \E e \in Entities :
       \/ LoadEntity(e)
       \/ \E active \in BOOLEAN :
            \/ UpdateLegalEntity(e, active)
            \/ \E currency \in Currencies : CreateLegalEntity(e, currency, active)
  \/ \E s \in Stores : CreateStore(s)
  \/ \E k \in Markets, active \in BOOLEAN, payment \in PaymentChoices :
       \/ UpdateStoreMarket(k, payment, active)
       \/ \E s \in Stores : CreateStoreMarket(k, s, payment, active)
  \/ \E isNew \in BOOLEAN : SetPrice(isNew)
  \/ \E currency \in Currencies : RemovePrice(currency)
  \/ Start \/ Query

Spec == Init /\ [][Next]_merchantVars

-----------------------------------------------------------------------------
\* Everything belongs to one store: it is the only one, of the only active
\* legal entity, with the only active market, and the prices are in its
\* currency and always were.
OneOwner ==
  \E e \in ActiveEntities, s \in Existing(stores), k \in ActiveMarkets :
    /\ ActiveEntities = {e} /\ Existing(stores) = {s} /\ ActiveMarkets = {k}
    /\ stores[s].entity = e /\ markets[k].store = s /\ markets[k].payment # {}
    /\ prices \subseteq {entities[e].currency} /\ ~history

\* The report passes exactly if the migration may give everything to one store
\* (build_report), provided that nobody has committed anything since it began.
\* Even if somebody has, a report that passes has compared all the prices it
\* has seen with the currency of the legal entity that owns the store it names.
PreflightTrue ==
  report.step = "done" =>
    /\ report.quiet => (Passed(report) <=> OneOwner)
    /\ Passed(report) =>
         \E store \in report.stores :
           /\ report.stores = {store} /\ stores[store.id].entity \in report.active
           /\ report.prices \subseteq {entities[stores[store.id].entity].currency}
           /\ \A m \in report.markets : m.active => markets[m.id].store = store.id
=============================================================================
