------------------------------ MODULE MCQueues ------------------------------
(***************************************************************************)
(* What must end, in one run: an order that waits for its payment, the     *)
(* command log of a register and the notification queue.  They share       *)
(* nothing, so desk picks the one that moves.                              *)
(***************************************************************************)
EXTENDS Checkout, RegisterSync, NotificationDelivery

CONSTANTS Lapsed, Old   \* an order of before and its intent

VARIABLE desk

MCQty == [o \in Orders |-> 1]

\* What the janitor leaves of an order that was not paid in time: the order is
\* cancelled, its goods are back, and its intent is as live as before.
LeftBehind ==
    /\ order = [o \in Orders |-> IF o = Lapsed THEN "cancelled" ELSE "none"]
    /\ tender = [o \in Orders |-> IF o = Lapsed THEN "card" ELSE "none"]
    /\ payment = [o \in Orders |-> IF o = Lapsed THEN "voided" ELSE "none"]
    /\ reservation = [o \in Orders |-> IF o = Lapsed THEN "expired" ELSE "none"]
    /\ lapsed = {} /\ onHand = Stock /\ reserved = 0
    /\ intent = [i \in Intents |-> IF i = Old THEN "created" ELSE "none"]
    /\ intentOrder = [i \in Intents |-> IF i = Old THEN Lapsed ELSE NoOrder]
    /\ provider = [i \in Intents |-> IF i = Old THEN "open" ELSE "none"]
    /\ delivered = {} /\ paidEvents = [i \in Intents |-> 0]
    /\ recWork = [r \in Reconcilers |-> [i \in Intents |-> "idle"]]
    /\ exception = [i \in Intents |-> {}]

QueuesInit ==
    /\ desk \in {"checkout", "register", "notices"}
    /\ LeftBehind /\ RegisterInit /\ NoticeInit

AtCheckout == desk = "checkout" /\ Next /\ UNCHANGED <<desk, registerVars, noticeVars>>
AtRegister == desk = "register" /\ RegisterNext /\ UNCHANGED <<desk, vars, noticeVars>>
AtNotices == desk = "notices" /\ NoticeNext /\ UNCHANGED <<desk, vars, registerVars>>

QueuesFairness ==
    \/ desk = "checkout" /\ Fairness
    \/ desk = "register" /\ RegisterFairness
    \/ desk = "notices" /\ NoticeFairness

QueuesSpec ==
    /\ QueuesInit
    /\ [][AtCheckout \/ AtRegister \/ AtNotices]_<<desk, vars, registerVars, noticeVars>>
    /\ QueuesFairness

QueuesTypeOK == RegisterTypeOK /\ LevelsOK /\ NoticeTypeOK
=============================================================================
