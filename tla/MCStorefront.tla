----------------------------- MODULE MCStorefront -----------------------------
(***************************************************************************)
(* A product with two variants and one with one; two authors, of whom one  *)
(* is moderated and voted on; three images; three categories and two       *)
(* names; a viewer of each kind; a wishlist of two; two products of a      *)
(* brand and a category, listed one on a page; a second legal entity,      *)
(* store and market, and a price in dollars.                               *)
(***************************************************************************)
EXTENDS Storefront

CONSTANTS v1, v2, v3, p1, p2, a1, a2

Set(v, p) == [kind |-> "set", variant |-> v, price |-> p]

MCProductOf == [v \in Variants |-> IF v = v3 THEN p2 ELSE p1]

\* Everything that may be done to v1, a price for v2 of the same product, and
\* two bulk updates that lock the products in different orders.
MCRequestedChanges ==
  {<<Set(v1, p)>> : p \in Prices}
    \cup {<<[kind |-> k, variant |-> v1]>> :
            k \in {"remove", "activate", "deactivate", "delete", "recalculate"}}
    \cup {<<Set(v2, 1)>>, <<Set(v1, 2), Set(v3, 2)>>, <<Set(v3, 1), Set(v2, 2)>>}

\* Author a1 is moderated, edited and deletes, a2 only writes.
MCRequestedReviews ==
  [author : {a1}, change : {[kind |-> "create", rating |-> 5],
                            [kind |-> "edit", rating |-> 2],
                            [kind |-> "moderate", approve |-> FALSE],
                            [kind |-> "admin", rating |-> 5, approve |-> TRUE],
                            [kind |-> "delete"]}]
    \cup [author : {a2}, change : [kind : {"create"}, rating : {2}]]

\* The whole listing, and one by each of the filters.
MCFilters ==
  {[category |-> Unset, brand |-> Unset, low |-> Unset, high |-> Unset]}
    \cup [category : Sections, brand : Brands, low : ListPrices, high : ListPrices]

MCEdits == {[status |-> "archived"], [status |-> "active"]}

MCNew == {[status |-> "active", brand |-> b, primary |-> c, categories |-> {c}] :
            b \in Brands, c \in Sections}

MCSeeded == [entity |-> 1, store |-> 1, market |-> 1]
MCPaymentChoices == {{"RUB"}}

Symmetry == Permutations(Requests)
=============================================================================
