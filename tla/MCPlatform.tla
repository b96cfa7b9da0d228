------------------------------ MODULE MCPlatform ------------------------------
(***************************************************************************)
(* Two requests at a time; four days of a shop's sales, in days and in     *)
(* pairs of days; two signed messages; three addresses.                    *)
(***************************************************************************)
EXTENDS Platform

CONSTANTS day, week

MCStep == [p \in Periods |-> IF p = day THEN 1 ELSE 2]

Tariff(zone, isActive, rank, base, perKg, threshold, maximum) ==
  [zone |-> zone, active |-> isActive, rank |-> rank, base |-> base, perKg |-> perKg,
   threshold |-> threshold, maximum |-> maximum]

\* With a threshold from which it is free, dearer by base than one that ranks
\* lower, no longer offered, and with a maximum; -1 is none.
MCTariffs ==
  {Tariff(1, TRUE, 1, 2, 1, 4, -1), Tariff(1, TRUE, 2, 1, 0, -1, -1),
   Tariff(1, FALSE, 1, 2, 1, 4, -1), Tariff(2, TRUE, 1, 3, 2, -1, 4)}

MCPurchases ==
  {[subtotal |-> 3, weight |-> 2, discount |-> 0, region |-> "a", city |-> "b"],
   [subtotal |-> 4, weight |-> 1, discount |-> 1, region |-> NoPlace, city |-> "b"]}

MCCoverages == {{"a"}, {"a", "b"}}

Symmetry == Permutations(Requests) \cup Permutations(Nonces)
=============================================================================
