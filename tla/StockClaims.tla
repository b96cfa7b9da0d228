---------------------------- MODULE StockClaims ----------------------------
(***************************************************************************)
(* What the warehouse promises to orders, without counters or journal.     *)
(* Each item of an order has a claim on its stock, which is held once, and *)
(* then either given back or shipped, once.  The items of an order are     *)
(* always claimed together, only as far as the shelf covers all claims     *)
(* held, and a claim held can always be honoured.  Module OrderStock       *)
(* implements this.                                                        *)
(***************************************************************************)
EXTENDS Integers, FiniteSets

CONSTANTS Orders, Variants, Ordered, MaxItemQuantity, MaxStock, InitialStock

VARIABLES
  listed,  \* the variants on sale
  onHand,  \* units on the shelf
  claim    \* claim[o][v]: the claim of order o on variant v

vars == <<listed, onHand, claim>>

Claims == {"none", "held", "returned", "shipped"}

Items(o) == {v \in listed : Ordered[o][v] > 0}

\* The units that orders hold of v.
Held(v) ==
  {u \in Orders \X (1..MaxItemQuantity) :
     claim[u[1]][v] = "held" /\ u[2] <= Ordered[u[1]][v]}

Covered(o) ==
  \A v \in Items(o) : onHand[v] - Cardinality(Held(v)) >= Ordered[o][v]

\* The claims of o on the stocks S become c.
Claimed(o, S, c) ==
  [claim EXCEPT ![o] = [v \in Variants |-> IF v \in S THEN c ELSE @[v]]]

Taken(o, S) ==
  [v \in Variants |-> IF v \in S THEN onHand[v] - Ordered[o][v] ELSE onHand[v]]

HeldItems(o) == {v \in Variants : claim[o][v] = "held"}

Unclaimed(o) == \A v \in Variants : claim[o][v] = "none"

Hold(o) ==
  /\ Unclaimed(o) /\ Covered(o)
  /\ claim' = Claimed(o, Items(o), "held")
  /\ UNCHANGED <<listed, onHand>>

GiveBack(o) ==
  /\ claim' = Claimed(o, HeldItems(o), "returned")
  /\ UNCHANGED <<listed, onHand>>

Ship(o) ==
  /\ claim' = Claimed(o, HeldItems(o), "shipped")
  /\ onHand' = Taken(o, HeldItems(o))
  /\ UNCHANGED listed

HoldAndShip(o) ==
  /\ Unclaimed(o) /\ Covered(o)
  /\ claim' = Claimed(o, Items(o), "shipped")
  /\ onHand' = Taken(o, Items(o))
  /\ UNCHANGED listed

\* The shelf of v is filled up or counted; claims held stay covered.
Supply(v, n) ==
  /\ v \in listed
  /\ n >= Cardinality(Held(v))
  /\ onHand' = [onHand EXCEPT ![v] = n]
  /\ UNCHANGED <<listed, claim>>

Discontinue(v) ==
  /\ v \in listed
  /\ listed' = listed \ {v}
  /\ onHand' = [onHand EXCEPT ![v] = 0]
  /\ claim' = [o \in Orders |-> [claim[o] EXCEPT ![v] = "none"]]

Init ==
  /\ listed = Variants
  /\ onHand = InitialStock
  /\ claim = [o \in Orders |-> [v \in Variants |-> "none"]]

Next ==
  \/ \E o \in Orders : Hold(o) \/ GiveBack(o) \/ Ship(o) \/ HoldAndShip(o)
  \/ \E v \in Variants :
       (\E n \in 0..MaxStock : Supply(v, n)) \/ Discontinue(v)

Spec == Init /\ [][Next]_vars
=============================================================================
