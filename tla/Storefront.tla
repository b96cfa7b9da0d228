------------------------------ MODULE Storefront ------------------------------
(***************************************************************************)
(* What rows keep of other tables, side by side: a product its range of    *)
(* prices, its main image, its rating and its number of views, a category  *)
(* the names of its ancestors, a wishlist the number of its items; the     *)
(* listing that shows all that, and whose the storefront is.               *)
(*                                                                         *)
(* The parts keep their state in different tables or, on the Product row,  *)
(* in different columns, so that what one does commutes with what another  *)
(* does, and a behaviour of the whole is one of each part: that a part may *)
(* wait for a row another part has locked only delays it.  A behaviour     *)
(* here is one of the part it has chosen at the start, while the others    *)
(* rest.                                                                   *)
(***************************************************************************)
EXTENDS Integers, Sequences, FiniteSets, TLC

CONSTANTS
  Requests,  \* requests that may be in flight at the same time
  Variants, Products, ProductOf, Prices, RequestedChanges,
  Images, NoImage,
  Authors, Voters, Votable, Ratings, RequestedReviews, MaxId, MaxHelpful,
  Categories, Names,
  Users, Sessions, Sources, Hour, MaxTime, MaxViews,
  Wished, MaxWishlistItems, MaxPk,
  Listed, Brands, Sections, Unset, ListPrices, Filters, Edits, New, Staff, Readers, PageSize,
  Entities, Stores, Markets, Currencies, Seeded, Rubles, LegacyPrices, PaymentChoices,
  MaxChanges

ASSUME ImagesAssumption == NoImage \notin Images
ASSUME RequestsAssumption == "free" \notin Requests
ASSUME VotersAssumption == IsFiniteSet(Voters)
ASSUME ViewsAssumption ==
  /\ Hour \in Nat /\ IsFiniteSet(Sources)
  /\ IsFiniteSet(Users) /\ IsFiniteSet(Sessions) /\ Users \cap Sessions = {}
ASSUME MerchantsAssumption ==
  /\ IsFiniteSet(Entities) /\ IsFiniteSet(Stores) /\ IsFiniteSet(Markets)
  /\ Seeded.entity \in Entities /\ Seeded.store \in Stores

VARIABLES
  part,
  variants, bounds, locked, pricing, overwritten, unrecorded,
  images, used, flagged, mainImage, editing, reverted,
  reviews, votes, stats, rowLock, statsLock, client, ids, restored, clobbered,
  parent, name, slug, cache,
  clock, views, viewsCount, viewLock, recording,
  items, lastPk, itemsCount, inCart, sold, tab, drifted,
  rows, active, opened, reading, published, repriced,
  entities, stores, markets, prices, history, held, report, changes

ThePrices == INSTANCE ProductPrices WITH Workers <- Requests, Requested <- RequestedChanges
TheImages == INSTANCE ProductImages WITH Editors <- Requests
TheReviews == INSTANCE ProductReviews WITH Clients <- Requests, Requested <- RequestedReviews
TheTree == INSTANCE CategoryTree
TheViews == INSTANCE ProductViews WITH Recorders <- Requests
TheWishes == INSTANCE Wishlists WITH Variants <- Wished, Tabs <- Requests
TheCatalogue == INSTANCE Catalogue WITH Products <- Listed, Categories <- Sections,
                  Prices <- ListPrices, editing <- opened, restored <- repriced
TheMerchants == INSTANCE Merchants

\* A price is above zero (set_price refuses any other), and several changes at
\* a time are prices of a bulk update.
ASSUME PricesAssumption ==
  /\ Prices \subseteq Nat \ {0}
  /\ ProductOf \in [Variants -> Products]
  /\ \A requested \in RequestedChanges :
       /\ requested \in Seq(ThePrices!Changes)
       /\ Len(requested) > 1 => \A i \in DOMAIN requested : requested[i].kind = "set"

\* Products are told apart by their primary keys, and prices are below what
\* stands for none; min_price is read-only for PATCH and no part of a new row.
ASSUME CatalogueAssumption ==
  /\ Listed \subseteq Nat /\ IsFiniteSet(Listed)
  /\ ListPrices \subseteq 0..TheCatalogue!NoPrice - 1
  /\ PageSize \in Nat \ {0}
  /\ \A change \in Edits \cup New : "price" \notin DOMAIN change

ASSUME TreeAssumption ==
  IsFiniteSet(Categories) /\ {TheTree!Top, TheTree!Absent} \cap Categories = {}

ASSUME ReviewsAssumption ==
  /\ RequestedReviews \subseteq [author : Authors, change : TheReviews!Changes]
  /\ Votable \subseteq Authors

priceVars == <<variants, bounds, locked, pricing, overwritten, unrecorded>>
imageVars == <<images, used, flagged, mainImage, editing, reverted>>
reviewVars == <<reviews, votes, stats, rowLock, statsLock, client, ids, restored, clobbered>>
treeVars == <<parent, name, slug, cache>>
viewVars == <<clock, views, viewsCount, viewLock, recording>>
wishVars == <<items, lastPk, itemsCount, inCart, sold, tab, drifted>>
catalogueVars == <<rows, active, opened, reading, published, repriced>>
merchantVars == <<entities, stores, markets, prices, history, held, report, changes>>
vars == <<part, priceVars, imageVars, reviewVars, treeVars, viewVars, wishVars,
          catalogueVars, merchantVars>>

Parts == {"prices", "images", "reviews", "tree", "views", "wishes", "catalogue", "merchants"}

Init ==
  /\ part \in Parts
  /\ ThePrices!Init /\ TheImages!Init /\ TheReviews!Init /\ TheTree!Init
  /\ TheViews!Init /\ TheWishes!Init /\ TheCatalogue!Init
  /\ TheMerchants!Init

\* A step of the chosen part.
Next ==
  /\ UNCHANGED part
  /\ \/ /\ part = "prices" /\ ThePrices!Next
        /\ UNCHANGED <<imageVars, reviewVars, treeVars, viewVars, wishVars, catalogueVars,
                       merchantVars>>
     \/ /\ part = "images" /\ TheImages!Next
        /\ UNCHANGED <<priceVars, reviewVars, treeVars, viewVars, wishVars, catalogueVars,
                       merchantVars>>
     \/ /\ part = "reviews" /\ TheReviews!Next
        /\ UNCHANGED <<priceVars, imageVars, treeVars, viewVars, wishVars, catalogueVars,
                       merchantVars>>
     \/ /\ part = "tree" /\ TheTree!Next
        /\ UNCHANGED <<priceVars, imageVars, reviewVars, viewVars, wishVars,
                       catalogueVars, merchantVars>>
     \/ /\ part = "views" /\ TheViews!Next
        /\ UNCHANGED <<priceVars, imageVars, reviewVars, treeVars, wishVars,
                       catalogueVars, merchantVars>>
     \/ /\ part = "wishes" /\ TheWishes!Next
        /\ UNCHANGED <<priceVars, imageVars, reviewVars, treeVars, viewVars,
                       catalogueVars, merchantVars>>
     \/ /\ part = "catalogue" /\ TheCatalogue!Next
        /\ UNCHANGED <<priceVars, imageVars, reviewVars, treeVars, viewVars, wishVars,
                       merchantVars>>
     \/ /\ part = "merchants" /\ TheMerchants!Next
        /\ UNCHANGED <<priceVars, imageVars, reviewVars, treeVars, viewVars, wishVars,
                       catalogueVars>>

Spec == Init /\ [][Next]_vars

-----------------------------------------------------------------------------
\* The price range of a product is that of its committed prices, unless an
\* edit of the product has put an older one back, and the history has every
\* price that was replaced (PricingService).
PricesTrue == ThePrices!PricesTrue

\* The rating of a product is that of its approved reviews, unless an edit of
\* the product has put an older one back (ReviewService).
StatsCurrent == TheReviews!StatsCurrent

\* The counters of a review are the votes on it, unless the save of a stale
\* copy has overwritten them (ReviewService.vote_helpful).
HelpfulMatchesVotes == TheReviews!HelpfulMatchesVotes

\* The image shown for a product is the one marked as its main image, unless
\* an edit of the product has put an older one back (catalog/signals.py).
MainImageShown == TheImages!MainImageShown

\* Paths and full names of categories are those of the tree (Category.save,
\* Category.move).
PathsMatchTree == TheTree!PathsMatchTree

\* Views of one viewer are more than an hour apart and counted once
\* (AnalyticsService.record_view).
ViewsApart == TheViews!ViewsApart

\* The counter of a wishlist is the number of its items, unless requests met
\* on the same item or a listed variant was deleted (WishlistService).
ItemsCounted == TheWishes!ItemsCounted

\* A listing that is read to its end while nothing is committed has shown every
\* product that meets its filter once, in the order of the prices (pagination).
PagesCoverListing == TheCatalogue!PagesCoverListing

\* The report before the migration PROD-050 passes exactly if everything
\* belongs to one store (build_report).
PreflightTrue == TheMerchants!PreflightTrue
=============================================================================
