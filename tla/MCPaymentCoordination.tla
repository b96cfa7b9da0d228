----------------------- MODULE MCPaymentCoordination -----------------------
(***************************************************************************)
(* A small instance of PaymentCoordination: one order and two payment      *)
(* attempts for it.                                                        *)
(***************************************************************************)
EXTENDS PaymentCoordination, TLC

CONSTANTS o1, p1, p2

MCPaymentOrder == [p \in Payments |-> o1]

MCSymmetry == Permutations(Payments)
=============================================================================
