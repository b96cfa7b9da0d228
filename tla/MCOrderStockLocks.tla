------------------------- MODULE MCOrderStockLocks -------------------------
(***************************************************************************)
(* Two workers and two orders of the same two variants, whose items are    *)
(* listed in the same order.                                               *)
(***************************************************************************)
EXTENDS OrderStockLocks, TLC

CONSTANTS o1, o2, a, b, w1, w2

MCOrdered == [o \in Orders |-> [v \in Variants |-> 1]]
MCItemOrder == [o \in Orders |-> IF b \in Variants THEN <<a, b>> ELSE <<a>>]
MCInitialStock == [v \in Variants |-> 1]

MCSymmetry == Permutations(Workers) \cup Permutations(Orders)
=============================================================================
