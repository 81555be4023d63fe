---------------------------- MODULE MCCheckout ----------------------------
(* Instances of Checkout for TLC.                                          *)
EXTENDS Checkout

CONSTANTS o1, o2

\* Unequal quantities; with two units one order can starve the other.
MCQty == [o \in Orders |-> IF o = o1 THEN 1 ELSE 2]
=============================================================================
