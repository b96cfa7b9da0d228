------------------------------ MODULE MCCarts ------------------------------
(***************************************************************************)
(* One user and one guest.  Rows, requests and the variants that do not    *)
(* change are interchangeable.                                             *)
(***************************************************************************)
EXTENDS Carts, TLC

CONSTANTS c1, c2, c3, v1, v2, v3, r1, r2, u1, g1

Symmetry == Permutations(Carts) \cup Permutations(Requests) \cup Permutations(Variants \ Changing)
=============================================================================
