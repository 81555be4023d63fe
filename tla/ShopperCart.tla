---------------------------- MODULE ShopperCart ----------------------------
(***************************************************************************)
(* The cart of a shopper in one browser and its checkout page              *)
(* (storefront/lib/cart.ts, pages/Checkout.tsx).  Every tab keeps the      *)
(* lines in memory and writes them all to the storage that the tabs share; *)
(* it reads the storage once, when it is opened.  Ordering sends the lines *)
(* of the tab, waits, and clears the cart if the order was placed; the     *)
(* order carries no key, so the server places whatever arrives.            *)
(*                                                                         *)
(* The code promises nothing once tabs disagree or an answer is missed.    *)
(* trouble says which of it has happened; the model stops there.           *)
(***************************************************************************)
EXTENDS Sums

CONSTANTS
    Tabs,         \* tabs of the shop in the browser
    Variants,     \* what can be put in the cart
    MaxQuantity,  \* bound on a line
    Submissions,  \* orders that are sent
    Nobody        \* the tab of a submission whose page is gone

ASSUME CartAssumption == IsFiniteSet(Submissions) /\ MaxQuantity \in Nat

VARIABLES
    stored,       \* the lines in localStorage, as quantities
    lines,        \* lines[t]: CartStore.lines of an open tab
    waiting,      \* waiting[t]: what the mounted checkout page waits for
    sent,         \* sent[s]: [stage, tab, lines] of a submission
    wanted,       \* (history) put into the cart less taken out again
    trouble       \* (history) what the code does not guard against

cartVars == <<stored, lines, waiting, sent, wanted, trouble>>

Empty == [v \in Variants |-> 0]
NotSent == [stage |-> "none", tab |-> Nobody, lines |-> Empty]

CartInit ==
    /\ stored = Empty
    /\ lines = [t \in Tabs |-> Empty]
    /\ waiting = [t \in Tabs |-> {}]
    /\ sent = [s \in Submissions |-> NotSent]
    /\ wanted = Empty
    /\ trouble = {}

UnderWay == {s \in Submissions : sent[s].stage \in {"flying", "placed"}}

-----------------------------------------------------------------------------
(* The store                                                               *)

\* commit: memory first, then the storage, whose failure is swallowed.
CommitLines(t, next, more) ==
    /\ lines' = [lines EXCEPT ![t] = next]
    /\ stored' \in {next, stored}
    /\ trouble' = trouble \cup more \cup (IF lines[t] # stored THEN {"stale tab"} ELSE {})
                          \cup (IF stored' # next THEN {"not saved"} ELSE {})

\* add and setQuantity (remove is quantity 0).
Put(t, v, quantity) ==
    /\ quantity # lines[t][v]
    /\ CommitLines(t, [lines[t] EXCEPT ![v] = quantity],
                   IF UnderWay # {} THEN {"changed while ordering"} ELSE {})
    /\ wanted' = [wanted EXCEPT ![v] = @ + quantity - lines[t][v]]
    /\ UNCHANGED <<waiting, sent>>

\* The page is loaded again: loadCart, and nobody waits for its requests.
ReloadTab(t) ==
    /\ lines' = [lines EXCEPT ![t] = stored]
    /\ waiting' = [waiting EXCEPT ![t] = {}]
    /\ sent' = [s \in Submissions |->
                   IF sent[s].tab = t THEN [sent[s] EXCEPT !.tab = Nobody] ELSE sent[s]]
    /\ UNCHANGED <<stored, wanted, trouble>>

-----------------------------------------------------------------------------
(* The checkout page                                                       *)

\* The button is disabled while this page waits, and only this page.
SendOrder(t, s) ==
    /\ lines[t] # Empty /\ waiting[t] = {}
    /\ sent[s].stage = "none"
    /\ sent' = [sent EXCEPT ![s] = [stage |-> "flying", tab |-> t, lines |-> lines[t]]]
    /\ waiting' = [waiting EXCEPT ![t] = {s}]
    /\ trouble' = trouble \cup (IF UnderWay # {} THEN {"sent again"} ELSE {})
                          \cup (IF lines[t] # stored THEN {"stale tab"} ELSE {})
    /\ UNCHANGED <<stored, lines, wanted>>

\* Another page of the shop: the state of the checkout page is forgotten, its
\* request and the store live on.
Leave(t) ==
    /\ waiting[t] # {}
    /\ waiting' = [waiting EXCEPT ![t] = {}]
    /\ UNCHANGED <<stored, lines, sent, wanted, trouble>>

ServerAnswers(s, verdict) ==
    /\ sent[s].stage = "flying"
    /\ sent' = [sent EXCEPT ![s].stage = verdict]
    /\ UNCHANGED <<stored, lines, waiting, wanted, trouble>>

NoLongerWaiting(s) == [t \in Tabs |-> waiting[t] \ {s}]

\* A mistake to compare with: the cart is cleared whatever the answer.
AnyAnswer(s) == sent[s].stage \in {"placed", "refused"}

ClearsCart(s) == sent[s].stage = "placed"

\* The answer arrives at a page that is still loaded.
Answered(s) ==
    /\ sent[s].stage \in {"placed", "refused"}
    /\ sent[s].tab # Nobody
    /\ IF ClearsCart(s) THEN CommitLines(sent[s].tab, Empty, {})
       ELSE UNCHANGED <<stored, lines, trouble>>
    /\ sent' = [sent EXCEPT ![s].stage = IF ClearsCart(s) THEN "cleared" ELSE "kept"]
    /\ waiting' = NoLongerWaiting(s)
    /\ UNCHANGED wanted

\* The answer is lost, or nobody waits for it: the cart stays as it is.
AnswerMissed(s) ==
    /\ sent[s].stage \in {"placed", "refused"}
    /\ trouble' = IF sent[s].stage = "placed" THEN trouble \cup {"missed"} ELSE trouble
    /\ sent' = [sent EXCEPT ![s].stage = IF @ = "placed" THEN "missed" ELSE "kept"]
    /\ waiting' = NoLongerWaiting(s)
    /\ UNCHANGED <<stored, lines, wanted>>

CartNext ==
    /\ trouble = {}
    /\ \/ \E t \in Tabs :
            \/ \E v \in Variants, quantity \in 0 .. MaxQuantity : Put(t, v, quantity)
            \/ ReloadTab(t) \/ Leave(t)
            \/ \E s \in Submissions : SendOrder(t, s)
       \/ \E s \in Submissions :
            \/ \E verdict \in {"placed", "refused"} : ServerAnswers(s, verdict)
            \/ Answered(s) \/ AnswerMissed(s)

CartSpec == CartInit /\ [][CartNext]_cartVars

-----------------------------------------------------------------------------
(* Properties                                                              *)

In(v, stages) ==
    SumOf([s \in Submissions |-> IF sent[s].stage \in stages THEN sent[s].lines[v] ELSE 0],
          Submissions)

\* Whatever the shopper put in the cart is still there or was ordered, once,
\* and a reload shows it, up to the first of these: two tabs disagree, the
\* storage is full, the cart is changed or sent while an order of it is under
\* way, or the answer to an order that was placed is missed.
\* (CartStore.commit, CheckoutPage.onSubmit.)
CartAccounted ==
    trouble = {} => \A v \in Variants :
        /\ stored[v] + In(v, {"cleared"}) = wanted[v]
        /\ In(v, {"flying", "placed"}) <= stored[v]
=============================================================================
