---------------------------- MODULE MCFrontEnds -----------------------------
(***************************************************************************)
(* What the front ends keep in the storage of their browsers, in one run:  *)
(* the till's queue and its setup, the shopper's cart and session.  They   *)
(* share nothing, so desk picks the one that moves.                        *)
(***************************************************************************)
EXTENDS SaleQueue, ShopperCart, ShopperSession, RegisterSetup

VARIABLE desk

FrontInit ==
    /\ desk \in {"queue", "cart", "browser", "register"}
    /\ Init /\ CartInit /\ SessionInit /\ SetupInit

AtQueue == desk = "queue" /\ Next /\ UNCHANGED <<desk, cartVars, sessionVars, setupVars>>
AtCart == desk = "cart" /\ CartNext /\ UNCHANGED <<desk, vars, sessionVars, setupVars>>
AtBrowser == desk = "browser" /\ SessionNext /\ UNCHANGED <<desk, vars, cartVars, setupVars>>
AtRegister == desk = "register" /\ SetupNext /\ UNCHANGED <<desk, vars, cartVars, sessionVars>>

FrontSpec ==
    /\ FrontInit
    /\ [][AtQueue \/ AtCart \/ AtBrowser \/ AtRegister]_<<desk, vars, cartVars, sessionVars, setupVars>>
    /\ desk = "queue" => Fairness

\* What a shopper wanted is in the cart or was ordered, once; a tab of the
\* storefront and the window of the till act for the session they hold.
ScreensAgree ==
    /\ desk = "cart" => CartAccounted
    /\ desk = "browser" => SessionTypeOK /\ SessionsOwn
    /\ desk = "register" => SetupSound
=============================================================================
