------------------------------ MODULE Catalogue ------------------------------
(***************************************************************************)
(* The listing of the shop, read page by page, while staff edit products,  *)
(* brands and categories and prices are published.                         *)
(*                                                                         *)
(* A page is two queries, the number of products and the slice; every page *)
(* selects and orders anew.  A PATCH loads an active product and saves all *)
(* of it; the form of the admin is sent as it was shown, and the fields in *)
(* which it differs from the row are saved.                                *)
(*                                                                         *)
(* Abstractions.  published_at is only ever set to the current time, so    *)
(* that it never hides a product.  Tags and the full text are filters like *)
(* the brand; the other orderings have ties like the price.  Names, texts  *)
(* and the images of a product have no part in what is listed.             *)
(***************************************************************************)
EXTENDS Integers, Sequences, SequencesExt, FiniteSets, FiniteSetsExt

CONSTANTS
  Products,  \* numbers: the primary keys
  Brands, Categories, Unset,
  Prices,    \* what min_price may be
  Filters,   \* query parameters of the listing
  Edits,     \* fields that staff change, and to what
  New,       \* rows that staff create
  Staff, Readers,
  PageSize

VARIABLES
  rows,      \* Product rows
  active,    \* Brands and categories that are active
  editing,   \* requests of the staff
  reading,   \* readers of the listing
  published, \* what PricingService has published last
  restored   \* products that have got an older price back with a PATCH

catalogueVars == <<rows, active, editing, reading, published, restored>>

Missing == [status |-> "missing"]
NoPrice == 99 \* NULL, which PostgreSQL orders last
Idle == [step |-> "idle"]
Statuses == {"draft", "active", "out_of_stock", "archived"}

Changed(row, change) ==
  [f \in DOMAIN row |-> IF f \in DOMAIN change THEN change[f] ELSE row[f]]

-----------------------------------------------------------------------------
\* ProductQuerySet.
IsActive(p) == rows[p].status = "active"
Active == {p \in Products : IsActive(p)}
Visible == {p \in Active : rows[p].primary \in active}
ForCategory(c) == {p \in Active : c \in rows[p].categories}
ForBrand(b) == {p \in Active : rows[p].brand = b}
PriceRange(low, high) ==
  {p \in Active : /\ low # Unset => rows[p].price >= low /\ rows[p].price # NoPrice
                  /\ high # Unset => rows[p].price <= high}

\* A category or brand that the listing is asked for has to be active.
Found(filter) == {filter.category, filter.brand} \subseteq active \cup {Unset}

\* get_product_listing.
Listing(filter) ==
  Visible \cap PriceRange(filter.low, filter.high)
          \cap (IF filter.category = Unset THEN Active ELSE ForCategory(filter.category))
          \cap (IF filter.brand = Unset THEN Active ELSE ForBrand(filter.brand))

\* Mutant: rows of one price in no particular order.
ByPriceAlone(prices, p, q) == prices[p] <= prices[q]

\* ensure_deterministic_ordering: by price, then by primary key.
Before(prices, p, q) == prices[p] < prices[q] \/ (prices[p] = prices[q] /\ p < q)

\* The sequences that the database may answer a query with.
Orderings(ps, prices) ==
  {seq \in SetToSeqs(ps) : \A i, j \in 1..Len(seq) : i < j => Before(prices, seq[i], seq[j])}

CurrentPrices == [p \in Products |-> IF rows[p] = Missing THEN NoPrice ELSE rows[p].price]

-----------------------------------------------------------------------------
\* A reader opens the listing, at its first page.
Open(r, filter) ==
  /\ reading[r] = Idle
  /\ reading' = [reading EXCEPT ![r] =
       [step |-> "count", filter |-> filter, page |-> 1, pages |-> 0, seen |-> <<>>,
         quiet |-> TRUE]]
  /\ UNCHANGED <<rows, active, editing, published, restored>>

TotalPages(count) == (count + PageSize - 1) \div PageSize

\* paginate_queryset: count() ...
Count(r) ==
  /\ reading[r].step = "count" /\ Found(reading[r].filter)
  /\ reading' = [reading EXCEPT ![r].step = "slice",
                                ![r].pages = TotalPages(Cardinality(Listing(reading[r].filter)))]
  /\ UNCHANGED <<rows, active, editing, published, restored>>

\* ... and the slice; the answer links to the next page, if there is one.
Slice(r) ==
  LET row == reading[r]
      first == (row.page - 1) * PageSize + 1
  IN /\ row.step = "slice"
     /\ \E seq \in Orderings(Listing(row.filter), CurrentPrices) :
          reading' = [reading EXCEPT
            ![r].seen = @ \o SubSeq(seq, first, Min({Len(seq), first + PageSize - 1})),
            ![r].page = @ + 1,
            ![r].step = IF row.page < row.pages THEN "count" ELSE "done"]
     /\ UNCHANGED <<rows, active, editing, published, restored>>

\* The reader has enough, or the filter names nothing that is active: 404.
Close(r) ==
  /\ reading[r] # Idle
  /\ reading' = [reading EXCEPT ![r] = Idle]
  /\ UNCHANGED <<rows, active, editing, published, restored>>

\* Something is committed while they read.
Disturb ==
  reading' = [r \in Readers |-> IF reading[r] = Idle THEN Idle
                                ELSE [reading[r] EXCEPT !.quiet = FALSE]]

-----------------------------------------------------------------------------
\* A new brand or category of a product has to be active.
Allowed(change) ==
  /\ "brand" \in DOMAIN change => change.brand \in active
  /\ "primary" \in DOMAIN change => change.primary \in active

\* create_product.
Create(p, row) ==
  /\ rows[p] = Missing /\ Allowed(row)
  /\ rows' = [rows EXCEPT ![p] = [f \in (DOMAIN row) \cup {"price"} |->
                                      IF f = "price" THEN NoPrice ELSE row[f]]]
  /\ published' = [published EXCEPT ![p] = NoPrice]
  /\ Disturb
  /\ UNCHANGED <<active, editing, restored>>

\* get_product_by_uuid, before a PATCH: only what is active has a card.
PatchLoad(s, p) ==
  /\ editing[s] = Idle /\ IsActive(p)
  /\ editing' = [editing EXCEPT ![s] = [step |-> "patch", product |-> p, copy |-> rows[p]]]
  /\ UNCHANGED <<rows, active, reading, published, restored>>

\* update_product: product.save() of all the columns, which inserts the row
\* again if it has been deleted.
PatchSave(s, change) ==
  LET p == editing[s].product
  IN /\ editing[s].step = "patch" /\ Allowed(change)
     /\ rows' = [rows EXCEPT ![p] = Changed(editing[s].copy, change)]
     /\ restored' = IF editing[s].copy.price # published[p] THEN restored \cup {p} ELSE restored
     /\ editing' = [editing EXCEPT ![s] = Idle]
     /\ Disturb
     /\ UNCHANGED <<active, published>>

\* The admin's form as it is shown.
FormLoad(s, p) ==
  /\ editing[s] = Idle /\ rows[p] # Missing
  /\ editing' = [editing EXCEPT ![s] = [step |-> "form", product |-> p, copy |-> rows[p]]]
  /\ UNCHANGED <<rows, active, reading, published, restored>>

\* _admin_change_update_fields: the fields of the form.
FormFields(row) == DOMAIN row \ {"price"}

\* ProductAdmin.save_model: only a row that is still there, and not what the
\* services derive.
FormSave(s, change) ==
  LET p == editing[s].product
      form == Changed(editing[s].copy, change)
  IN /\ editing[s].step = "form" /\ rows[p] # Missing
     /\ rows' = [rows EXCEPT ![p] = Changed(@, [f \in FormFields(@) |-> form[f]])]
     /\ editing' = [editing EXCEPT ![s] = Idle]
     /\ Disturb
     /\ UNCHANGED <<active, published, restored>>

\* A refused or abandoned edit.
Abandon(s) ==
  /\ editing[s] # Idle
  /\ editing' = [editing EXCEPT ![s] = Idle]
  /\ UNCHANGED <<rows, active, reading, published, restored>>

Delete(p) ==
  /\ rows[p] # Missing
  /\ rows' = [rows EXCEPT ![p] = Missing]
  /\ published' = [published EXCEPT ![p] = NoPrice]
  /\ restored' = restored \ {p}
  /\ Disturb
  /\ UNCHANGED <<active, editing>>

\* CatalogService.set_product_prices, by PricingService.
Publish(p, price) ==
  /\ rows[p] # Missing /\ published[p] # price
  /\ rows' = [rows EXCEPT ![p].price = price]
  /\ published' = [published EXCEPT ![p] = price]
  /\ restored' = restored \ {p}
  /\ Disturb
  /\ UNCHANGED <<active, editing>>

\* Brand.is_active, Category.is_active.
Switch(x) ==
  /\ active' = IF x \in active THEN active \ {x} ELSE active \cup {x}
  /\ Disturb
  /\ UNCHANGED <<rows, editing, published, restored>>

-----------------------------------------------------------------------------
Init ==
  /\ rows = [p \in Products |-> Missing]
  /\ active = Brands \cup Categories
  /\ editing = [s \in Staff |-> Idle]
  /\ reading = [r \in Readers |-> Idle]
  /\ published = [p \in Products |-> NoPrice]
  /\ restored = {}

Next ==
  \/ \E r \in Readers : \/ \E filter \in Filters : Open(r, filter)
                        \/ Count(r) \/ Slice(r) \/ Close(r)
  \/ \E s \in Staff :
       \/ \E p \in Products : PatchLoad(s, p) \/ FormLoad(s, p)
       \/ \E change \in Edits : PatchSave(s, change) \/ FormSave(s, change)
       \/ Abandon(s)
  \/ \E p \in Products :
       \/ \E row \in New : Create(p, row)
       \/ Delete(p) \/ \E price \in Prices : Publish(p, price)
  \/ \E x \in Brands \cup Categories : Switch(x)

Spec == Init /\ [][Next]_catalogueVars

-----------------------------------------------------------------------------
\* A listing that is read to its end while nothing is committed has shown every
\* product that meets the filter once, although each page is a query of its own
\* and many products cost the same (paginate_queryset,
\* ensure_deterministic_ordering), in the order of the prices that were
\* published last, whatever forms were sent since; only a PATCH may have put an
\* older price back (update_product).  The page of a brand counts at least as
\* many (BrandDetailView).
PagesCoverListing ==
  \A r \in Readers :
    LET row == reading[r]
    IN (row # Idle /\ row.step = "done" /\ row.quiet) =>
         /\ restored = {} => row.seen \in Orderings(Listing(row.filter), published)
         /\ IsInjective(row.seen) /\ ToSet(row.seen) = Listing(row.filter)
         /\ row.filter.brand # Unset => Len(row.seen) <= Cardinality(ForBrand(row.filter.brand))
=============================================================================
