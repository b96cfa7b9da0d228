---------------------------- MODULE MCOrderStock ----------------------------
(***************************************************************************)
(* A small instance of OrderStock: two orders that compete for two         *)
(* variants, one of them sold in two units.                                *)
(***************************************************************************)
EXTENDS OrderStock

CONSTANTS o1, o2, a, b

MCOrdered ==
  [o \in Orders |-> [v \in Variants |->
     IF o = o1 THEN (IF v = a THEN 2 ELSE 1)
               ELSE (IF v = a THEN 1 ELSE 0)]]

MCInitialStock == [v \in Variants |-> IF v = a THEN 2 ELSE 1]
=============================================================================
