--------------------------- MODULE OrderContract ---------------------------
(***************************************************************************)
(* What a shopper and the stock keeper are promised, with no payment       *)
(* intents, webhooks, workers or locks: the goods of an order are held     *)
(* from the moment it is placed until they are handed over or given back,  *)
(* once and for good, and an order is charged at most once.                *)
(***************************************************************************)
EXTENDS Integers

CONSTANTS Orders, Qty, Stock

VARIABLES
    goods,      \* "none", "held", "gone" (handed over) or "back"
    charged,    \* orders whose shopper's money was taken
    free        \* units nobody has a claim on

vars == <<goods, charged, free>>

Init ==
    /\ goods = [o \in Orders |-> "none"]
    /\ charged = {}
    /\ free = Stock

Place(o) ==
    /\ goods[o] = "none"
    /\ Qty[o] <= free
    /\ goods' = [goods EXCEPT ![o] = "held"]
    /\ free' = free - Qty[o]
    /\ UNCHANGED charged

HandOver(o) ==
    /\ goods[o] = "held"
    /\ goods' = [goods EXCEPT ![o] = "gone"]
    /\ UNCHANGED <<charged, free>>

GiveBack(o) ==
    /\ goods[o] = "held"
    /\ goods' = [goods EXCEPT ![o] = "back"]
    /\ free' = free + Qty[o]
    /\ UNCHANGED charged

\* The charge may come at any time after the order was placed, even when its
\* goods went back already, but not twice.
Charge(o) ==
    /\ goods[o] # "none"
    /\ o \notin charged
    /\ charged' = charged \cup {o}
    /\ UNCHANGED <<goods, free>>

Next ==
    \E o \in Orders : Place(o) \/ HandOver(o) \/ GiveBack(o) \/ Charge(o)

Spec == Init /\ [][Next]_vars
=============================================================================
