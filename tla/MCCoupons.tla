----------------------------- MODULE MCCoupons -----------------------------
(***************************************************************************)
(* Two orders of one user and one of another; a percent coupon, whose      *)
(* discount is rounded half to even (1.5 and 2.5 to 2), and a coupon of a  *)
(* fixed sum, more than any order, which only the largest order may use.   *)
(***************************************************************************)
EXTENDS Coupons

CONSTANTS o1, o2, o3, u1, u2, c1, c2

MCUserOf == [o \in Orders |-> IF o = o3 THEN u2 ELSE u1]
MCSubtotal == [o \in Orders |-> CASE o = o1 -> 4 [] o = o2 -> 10 [] OTHER -> 6]
MCDeliveryCost == [o \in Orders |-> 1]
MCTerms ==
  [c \in Coupons |->
     IF c = c1 THEN [percent |-> TRUE, value |-> 2500, cap |-> 5, minimum |-> 0]
               ELSE [percent |-> FALSE, value |-> 12, cap |-> 0, minimum |-> 10]]
=============================================================================
