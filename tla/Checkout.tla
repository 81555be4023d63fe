------------------------------ MODULE Checkout ------------------------------
(***************************************************************************)
(* A web order from the basket to the counter: the order service reserves  *)
(* the goods, the payment service opens a gateway intent and applies       *)
(* webhooks, the reconciliation worker polls for lost webhooks, the        *)
(* reservation janitor frees goods that were not paid for in time, and     *)
(* staff fulfil or cancel.  All of them share the rows of one PostgreSQL   *)
(* tenant.                                                                 *)
(*                                                                         *)
(* Every database transaction is one action.  What lies outside a          *)
(* transaction is a step of its own: the gateway call a payment            *)
(* transaction makes while it holds the order row, the delivery of a       *)
(* webhook, and the four separate steps of the reconciler (list the stuck  *)
(* intents, poll, apply, report), between which the worker may die.        *)
(*                                                                         *)
(* One SKU at one location; an order is one line of it.                    *)
(***************************************************************************)
EXTENDS Integers, FiniteSets, Sums

CONSTANTS
    Orders,        \* sales orders a shopper may place
    NoOrder,       \* the order of an intent that was never opened
    Intents,       \* payment intents that may be opened, numbered by created_at
    Reconcilers,   \* runs of the payment reconciler, one beside the other
    BatchLimit,    \* stuck intents a run of the reconciler reads at most
    Qty,           \* Qty[o]: units on the line of order o
    Stock          \* units on hand before the first order

ASSUME CheckoutAssumption ==
    /\ Qty \in [Orders -> Nat \ {0}]
    /\ Stock \in Nat
    /\ NoOrder \notin Orders

ASSUME BatchAssumption == Intents \subseteq Nat /\ BatchLimit \in Nat \ {0}

VARIABLES
    order,         \* sales_order.status, "none" before checkout
    tender,        \* how the order is to be paid
    payment,       \* status of the order's gateway payment row
    reservation,   \* status of the order's stock_reservation row
    lapsed,        \* orders whose active reservation is past expires_at
    onHand,        \* stock_level quantity in state on_hand
    reserved,      \* stock_level quantity in state reserved
    intent,        \* payment_intent.status, with the stages before the commit
    intentOrder,   \* payment_intent.order_id
    provider,      \* the gateway's own record of the intent
    delivered,     \* keys in webhook_delivery
    paidEvents,    \* order.paid rows in the outbox, by the intent that wrote them
    recWork,       \* recWork[r][i]: where reconciler r is with intent i
    exception      \* open payment_reconciliation_exception reasons of an intent

orderVars   == <<order, tender, payment, reservation, lapsed>>
stockVars   == <<onHand, reserved>>
intentVars  == <<intent, intentOrder, delivered, paidEvents>>
workerVars  == <<recWork, exception>>
vars == <<order, tender, payment, reservation, lapsed, onHand, reserved,
          intent, intentOrder, provider, delivered, paidEvents, recWork,
          exception>>

OrderStatus == {"none", "pending", "confirmed", "fulfilled", "cancelled"}
Tender == {"none", "card", "cod", "cod_advance"}
PaymentStatus == {"none", "pending", "captured", "voided"}
ReservationStatus == {"none", "active", "consumed", "released", "expired"}

\* "opening": the row is not committed, its transaction holds the order row.
\* "abandoned": that transaction rolled back; the gateway knows the intent,
\* the database does not.
IntentStatus == {"none", "opening", "created", "succeeded", "failed",
                 "abandoned"}
\* "paid_other": paid, with an amount that is not the amount of the intent.
ProviderStatus == {"none", "open", "paid", "paid_other", "declined"}

Outcome == {"succeeded", "failed"}
Source == {"webhook", "reconcile"}
RecStage == {"idle", "listed", "succeeded", "failed", "declined", "resolve",
             "unrepaired"}
Reason == {"gateway_failed", "unrepaired"}

Init ==
    /\ order = [o \in Orders |-> "none"]
    /\ tender = [o \in Orders |-> "none"]
    /\ payment = [o \in Orders |-> "none"]
    /\ reservation = [o \in Orders |-> "none"]
    /\ lapsed = {}
    /\ onHand = Stock
    /\ reserved = 0
    /\ intent = [i \in Intents |-> "none"]
    /\ intentOrder = [i \in Intents |-> NoOrder]
    /\ provider = [i \in Intents |-> "none"]
    /\ delivered = {}
    /\ paidEvents = [i \in Intents |-> 0]
    /\ recWork = [r \in Reconcilers |-> [i \in Intents |-> "idle"]]
    /\ exception = [i \in Intents |-> {}]

-----------------------------------------------------------------------------
(* Rows and locks                                                          *)

\* Mutant: whoever needs the order waits for its payment too.
OrderFreeUnlessPaying(o) ==
    \A i \in Intents :
        intentOrder[i] = o => intent[i] \notin {"opening", "created"}

\* The order row is locked FOR UPDATE for as long as a payment transaction
\* waits for the gateway; everyone else who needs the row waits.
OrderFree(o) ==
    \A i \in Intents : intentOrder[i] = o => intent[i] # "opening"

\* Mutant: the constraint is missing.
AdvanceNotAsked(o) == o \in Orders

\* sales_order_cod_advance_collected: the row may not leave pending, but to
\* cancelled, while the cash-on-delivery advance is not captured.
AdvanceCollected(o) ==
    tender[o] = "cod_advance" => payment[o] = "captured"

\* The partial unique index on payment_intent: one live intent per order.
Live(i) == intent[i] = "created"

\* Mutant: the index is missing.
OtherLiveIgnored(i) == i \notin Intents

OtherLive(i) ==
    \E j \in Intents \ {i} : intentOrder[j] = intentOrder[i] /\ Live(j)

\* Mutant: any order will do.
Placed(o) == order[o] # "none"

BeforeFulfilment(o) == order[o] \in {"pending", "confirmed"}

VoidPending(o) ==
    IF payment[o] = "pending" THEN "voided" ELSE payment[o]

\* Mutant: the reservation is forgotten.
KeepReservation(o, status) ==
    IF reservation[o] = status THEN "active" ELSE reservation[o]

CloseReservation(o, status) ==
    IF reservation[o] = "active" THEN status ELSE reservation[o]

-----------------------------------------------------------------------------
(* Checkout                                                                *)

\* Mutant: the location is not asked for the goods.
AnyLocation(o) == o \in Orders

\* A location can cover the line from its goods on hand.
Covered(o) == Qty[o] <= onHand

\* Mutant: an advance gets no payment row.
CardOnlyPayment(t) == IF t = "card" THEN "pending" ELSE "none"

\* The payment row of what the shopper owes now, if that is anything.
PaymentDue(t) == IF t = "cod" THEN "none" ELSE "pending"

\* The cash-on-delivery gate decides whether a COD order owes an advance; an
\* order that owes nothing now is confirmed at once.
CreateOrder(o, t) ==
    /\ order[o] = "none"
    /\ Covered(o)
    /\ order' = [order EXCEPT ![o] = IF t = "cod" THEN "confirmed"
                                                  ELSE "pending"]
    /\ tender' = [tender EXCEPT ![o] = t]
    /\ payment' = [payment EXCEPT ![o] = PaymentDue(t)]
    /\ reservation' = [reservation EXCEPT ![o] = "active"]
    /\ onHand' = onHand - Qty[o]
    /\ reserved' = reserved + Qty[o]
    /\ UNCHANGED <<lapsed, intentVars, provider, workerVars>>

-----------------------------------------------------------------------------
(* Payment intents                                                         *)

\* Lock the order, refuse it unless pending, call the gateway.
CreateIntent(i, o) ==
    /\ intent[i] = "none"
    /\ OrderFree(o)
    /\ order[o] = "pending"
    /\ intent' = [intent EXCEPT ![i] = "opening"]
    /\ intentOrder' = [intentOrder EXCEPT ![i] = o]
    /\ provider' = [provider EXCEPT ![i] = "open"]
    /\ UNCHANGED <<orderVars, stockVars, delivered, paidEvents, workerVars>>

\* The insert and its commit, or INTENT_EXISTS from the unique index.
InsertIntent(i) ==
    /\ intent[i] = "opening"
    /\ intent' = [intent EXCEPT ![i] = IF OtherLive(i) THEN "abandoned"
                                                       ELSE "created"]
    /\ UNCHANGED <<orderVars, stockVars, intentOrder, provider, delivered,
                   paidEvents, workerVars>>

\* The gateway call throws or the connection is lost: nothing is committed.
RollbackIntent(i) ==
    /\ intent[i] = "opening"
    /\ intent' = [intent EXCEPT ![i] = "abandoned"]
    /\ UNCHANGED <<orderVars, stockVars, intentOrder, provider, delivered,
                   paidEvents, workerVars>>

-----------------------------------------------------------------------------
(* The gateway (external)                                                  *)

\* The gateway settles an intent once, possibly before the database commits
\* it.  From then on its webhook may be delivered any number of times, late,
\* or never.
GatewaySettles(i, result) ==
    /\ provider[i] = "open"
    /\ provider' = [provider EXCEPT ![i] = result]
    /\ UNCHANGED <<orderVars, stockVars, intentVars, workerVars>>

\* Mutant: the type of the event is not looked at.
WebhookAlwaysPaid(p) == IF p = "open" THEN "failed" ELSE "succeeded"

\* The outcome a webhook of the gateway reports; the amount is not in it.
WebhookOutcome(p) == IF p = "declined" THEN "failed" ELSE "succeeded"

Settled(i) == provider[i] \in {"paid", "paid_other", "declined"}

-----------------------------------------------------------------------------
(* applyWebhook: dedupe and effect in one transaction under the lock of the *)
(* intent row.  Its three branches are shared by the webhook route and the  *)
(* reconciler, which differ in the source of their idempotency key.         *)

\* Mutant: the status is the one read before the lock was taken.
NotFailed(i) == intent[i] \in {"created", "succeeded"}

\* The status read again under the lock of the intent row.
NotFinal(i) == intent[i] = "created"

ConfirmPending(o) ==
    IF order[o] = "pending" THEN "confirmed" ELSE order[o]

CapturePending(o) ==
    IF payment[o] = "pending" THEN "captured" ELSE payment[o]

NewDelivery(key) == key \notin delivered /\ delivered' = delivered \cup {key}

AlreadyFinal(i, key) ==
    /\ intent[i] \in {"succeeded", "failed"}
    /\ NewDelivery(key)
    /\ UNCHANGED <<orderVars, intent, paidEvents>>

CloseFailed(i, key) ==
    /\ NotFinal(i)
    /\ key[3] = "failed"
    /\ NewDelivery(key)
    /\ intent' = [intent EXCEPT ![i] = "failed"]
    /\ UNCHANGED <<orderVars, paidEvents>>

\* A voided payment stays voided and an order that left pending stays where
\* it is: the two updates are guarded, the order.paid insert is not.
Capture(i, key) ==
    LET o == intentOrder[i] IN
    /\ NotFinal(i)
    /\ key[3] = "succeeded"
    /\ OrderFree(o)
    /\ NewDelivery(key)
    /\ intent' = [intent EXCEPT ![i] = "succeeded"]
    /\ payment' = [payment EXCEPT ![o] = CapturePending(o)]
    /\ order' = [order EXCEPT ![o] = ConfirmPending(o)]
    /\ paidEvents' = [paidEvents EXCEPT ![i] = @ + 1]
    /\ UNCHANGED <<tender, reservation, lapsed>>

\* Mutant: the delivery of an intent that is not committed yet is recorded.
RecordUnknownIntent(i) ==
    LET key == <<"webhook", i, WebhookOutcome(provider[i])>> IN
    /\ Settled(i)
    /\ \/ AlreadyFinal(i, key)
       \/ CloseFailed(i, key)
       \/ Capture(i, key)
       \/ /\ intent[i] = "opening"
          /\ NewDelivery(key)
          /\ UNCHANGED <<orderVars, intent, paidEvents>>
    /\ UNCHANGED <<stockVars, intentOrder, provider, workerVars>>

\* The webhook route.  Before the intent is committed the answer is
\* intent_not_found, after the key is recorded it is duplicate: no change.
ApplyWebhook(i) ==
    LET key == <<"webhook", i, WebhookOutcome(provider[i])>> IN
    /\ Settled(i)
    /\ \/ AlreadyFinal(i, key)
       \/ CloseFailed(i, key)
       \/ Capture(i, key)
    /\ UNCHANGED <<stockVars, intentOrder, provider, workerVars>>

-----------------------------------------------------------------------------
(* The payment reconciler (one run per member of Reconcilers)              *)

Advance(r, i, stage) == recWork' = [recWork EXCEPT ![r][i] = stage]

\* One intent is worked on at a time, the oldest first; the others wait.
Turn(r, i) ==
    \A j \in Intents \ {i} :
        recWork[r][j] = "idle" \/ (recWork[r][j] = "listed" /\ i < j)

Older(i) == {j \in Intents : Live(j) /\ j < i}

\* Mutant: the newest come first.
NewestFirst(i) == Live(i) /\ Cardinality({j \in Intents : Live(j) /\ j > i}) < BatchLimit

\* Among the oldest live intents, as many as a run reads.
Batched(i) == Live(i) /\ Cardinality(Older(i)) < BatchLimit

\* The unlocked read of the stuck intents, oldest first; any live intent may be
\* old enough, and one that is not is like one that is left alone.
FindStuck(r) ==
    /\ \A i \in Intents : recWork[r][i] = "idle"
    /\ \E i \in Intents : Live(i)
    /\ recWork' = [recWork EXCEPT ![r] =
                     [i \in Intents |-> IF Batched(i) THEN "listed" ELSE "idle"]]
    /\ UNCHANGED <<orderVars, stockVars, intentVars, provider, exception>>

\* Mutant: the amount is not compared.
VerdictOnAnyAmount(p) == WebhookOutcome(p)

\* Mutant: a payment that cannot be matched is left alone.
VerdictSilent(p) ==
    IF p = "paid_other" THEN "idle" ELSE WebhookOutcome(p)

\* A payment whose amount is not the intent's is not repaired but flagged.
Verdict(p) ==
    IF p = "paid_other" THEN "unrepaired" ELSE WebhookOutcome(p)

\* The gateway answers the poll with what it knows.
PollAnswered(r, i) ==
    /\ recWork[r][i] = "listed"
    /\ Turn(r, i)
    /\ Settled(i)
    /\ Advance(r, i, Verdict(provider[i]))
    /\ UNCHANGED <<orderVars, stockVars, intentVars, provider, exception>>

\* The gateway does not know the intent, or cannot be polled: flagged.
PollUnknown(r, i) ==
    /\ recWork[r][i] = "listed"
    /\ Turn(r, i)
    /\ Advance(r, i, "unrepaired")
    /\ UNCHANGED <<orderVars, stockVars, intentVars, provider, exception>>

\* Still pending, or the poll failed: left alone until the next tick.
PollLeftAlone(r, i) ==
    /\ recWork[r][i] = "listed"
    /\ Turn(r, i)
    /\ Advance(r, i, "idle")
    /\ UNCHANGED <<orderVars, stockVars, intentVars, provider, exception>>

RecKey(r, i) == <<"reconcile", i, recWork[r][i]>>

\* What follows an apply that did not throw: a declined payment is reported
\* whatever the branch; only a capture resolves the open exceptions.
ReconcileApply(r, i) ==
    LET afterwards == IF recWork[r][i] = "failed" THEN "declined" ELSE "idle" IN
    /\ recWork[r][i] \in Outcome
    /\ \/ Capture(i, RecKey(r, i)) /\ Advance(r, i, "resolve")
       \/ CloseFailed(i, RecKey(r, i)) /\ Advance(r, i, afterwards)
       \/ AlreadyFinal(i, RecKey(r, i)) /\ Advance(r, i, afterwards)
       \/ /\ RecKey(r, i) \in delivered
          /\ Advance(r, i, afterwards)
          /\ UNCHANGED <<orderVars, intent, delivered, paidEvents>>
    /\ UNCHANGED <<stockVars, intentOrder, provider, exception>>

\* applyWebhook throws, its transaction rolled back: apply_failed is flagged.
ReconcileThrows(r, i) ==
    /\ recWork[r][i] \in Outcome
    /\ Advance(r, i, "unrepaired")
    /\ UNCHANGED <<orderVars, stockVars, intentVars, provider, exception>>

\* The exception sink, a transaction of its own whose failure is only logged.
Report(r, i) ==
    /\ \/ /\ recWork[r][i] = "declined"
          /\ exception' = [exception EXCEPT ![i] = @ \cup {"gateway_failed"}]
       \/ /\ recWork[r][i] = "unrepaired"
          /\ exception' = [exception EXCEPT ![i] = @ \cup {"unrepaired"}]
       \/ /\ recWork[r][i] = "resolve"
          /\ exception' = [exception EXCEPT ![i] = {}]
    /\ Advance(r, i, "idle")
    /\ UNCHANGED <<orderVars, stockVars, intentVars, provider>>

ReportFails(r, i) ==
    /\ recWork[r][i] \in {"declined", "unrepaired", "resolve"}
    /\ Advance(r, i, "idle")
    /\ UNCHANGED <<orderVars, stockVars, intentVars, provider, exception>>

WorkerCrash(r) ==
    /\ \E i \in Intents : recWork[r][i] # "idle"
    /\ recWork' = [recWork EXCEPT ![r] = [i \in Intents |-> "idle"]]
    /\ UNCHANGED <<orderVars, stockVars, intentVars, provider, exception>>

-----------------------------------------------------------------------------
(* The reservation janitor                                                 *)

\* The hour of an active reservation passes; that of a closed one is asked by
\* nobody.
Lapse(o) ==
    /\ reservation[o] = "active"
    /\ o \notin lapsed
    /\ lapsed' = lapsed \cup {o}
    /\ UNCHANGED <<order, tender, payment, reservation, stockVars, intentVars,
                   provider, workerVars>>

\* Mutant: the goods are released with the row.
RetireAndRelease(o) ==
    /\ o \in lapsed
    /\ reservation[o] = "active"
    /\ OrderFree(o)
    /\ order[o] # "pending"
    /\ Qty[o] <= reserved
    /\ reserved' = reserved - Qty[o]
    /\ onHand' = onHand + Qty[o]
    /\ reservation' = [reservation EXCEPT ![o] = "expired"]
    /\ lapsed' = lapsed \ {o}
    /\ UNCHANGED <<order, tender, payment, intentVars, provider,
                   workerVars>>

\* A lapsed reservation of an order that is no longer pending: the row is
\* retired and the goods stay where they are.
RetireReservation(o) ==
    /\ o \in lapsed
    /\ reservation[o] = "active"
    /\ OrderFree(o)
    /\ order[o] # "pending"
    /\ reservation' = [reservation EXCEPT ![o] = "expired"]
    /\ lapsed' = lapsed \ {o}
    /\ UNCHANGED <<order, tender, payment, stockVars, intentVars,
                   provider, workerVars>>

\* A lapsed reservation of a pending order: release the goods, void the
\* payment, cancel the order.  Its payment intent is not touched.
ExpireOrder(o) ==
    /\ o \in lapsed
    /\ reservation[o] = "active"
    /\ OrderFree(o)
    /\ order[o] = "pending"
    /\ Qty[o] <= reserved
    /\ reserved' = reserved - Qty[o]
    /\ onHand' = onHand + Qty[o]
    /\ reservation' = [reservation EXCEPT ![o] = "expired"]
    /\ lapsed' = lapsed \ {o}
    /\ payment' = [payment EXCEPT ![o] = VoidPending(o)]
    /\ order' = [order EXCEPT ![o] = "cancelled"]
    /\ UNCHANGED <<tender, intentVars, provider, workerVars>>

-----------------------------------------------------------------------------
(* Staff: fulfilment and cancellation                                      *)

\* The goods leave the reserved bucket, paid or not, except that the advance
\* of a cash-on-delivery order must be in.
Fulfill(o) ==
    /\ BeforeFulfilment(o)
    /\ OrderFree(o)
    /\ AdvanceCollected(o)
    /\ Qty[o] <= reserved
    /\ reserved' = reserved - Qty[o]
    /\ reservation' = [reservation EXCEPT
                         ![o] = CloseReservation(o, "consumed")]
    /\ lapsed' = lapsed \ {o}
    /\ order' = [order EXCEPT ![o] = "fulfilled"]
    /\ UNCHANGED <<tender, payment, onHand, intentVars, provider,
                   workerVars>>

Cancel(o) ==
    /\ BeforeFulfilment(o)
    /\ OrderFree(o)
    /\ Qty[o] <= reserved
    /\ reserved' = reserved - Qty[o]
    /\ onHand' = onHand + Qty[o]
    /\ reservation' = [reservation EXCEPT
                         ![o] = CloseReservation(o, "released")]
    /\ lapsed' = lapsed \ {o}
    /\ payment' = [payment EXCEPT ![o] = VoidPending(o)]
    /\ order' = [order EXCEPT ![o] = "cancelled"]
    /\ UNCHANGED <<tender, intentVars, provider, workerVars>>

-----------------------------------------------------------------------------

OrderStep(o) ==
    \/ \E t \in Tender \ {"none"} : CreateOrder(o, t)
    \/ Lapse(o)
    \/ RetireReservation(o)
    \/ ExpireOrder(o)
    \/ Fulfill(o)
    \/ Cancel(o)

IntentStep(i) ==
    \/ \E o \in Orders : CreateIntent(i, o)
    \/ InsertIntent(i)
    \/ RollbackIntent(i)
    \/ \E result \in {"paid", "paid_other", "declined"} :
           GatewaySettles(i, result)
    \/ ApplyWebhook(i)

ReconcilerStep(r, i) ==
    \/ PollAnswered(r, i)
    \/ PollUnknown(r, i)
    \/ PollLeftAlone(r, i)
    \/ ReconcileApply(r, i)
    \/ ReconcileThrows(r, i)
    \/ Report(r, i)
    \/ ReportFails(r, i)

Next ==
    \/ \E o \in Orders : OrderStep(o)
    \/ \E i \in Intents : IntentStep(i)
    \/ \E r \in Reconcilers : FindStuck(r) \/ WorkerCrash(r)
    \/ \E r \in Reconcilers, i \in Intents : ReconcilerStep(r, i)

\* A payment transaction waits for its gateway call, which has no deadline.
HeldUp == \E i \in Intents : intent[i] = "opening"

\* Time passes, and the janitor, on a timer, gets through its list unless a row
\* it waits for stays locked.  The reconciler runs on a timer; a run whose poll
\* hangs holds nothing, has left its intents alone, and the next one starts
\* beside it.  Asked again and again, the gateway answers a poll, and the repair
\* and its report get through.  Nobody is obliged to answer the call that opens
\* an intent, to pay, to deliver a webhook, or to fulfil.
Fairness ==
    /\ \A o \in Orders : WF_vars(Lapse(o)) /\ WF_vars(ExpireOrder(o) /\ ~HeldUp)
    /\ \A r \in Reconcilers :
         /\ WF_vars(FindStuck(r))
         /\ \A i \in Intents :
              /\ SF_vars(PollAnswered(r, i))
              /\ SF_vars(ReconcileApply(r, i))
              /\ SF_vars(Report(r, i))
              /\ WF_vars(PollLeftAlone(r, i))
              /\ WF_vars(ReportFails(r, i))

Spec == Init /\ [][Next]_vars /\ Fairness

-----------------------------------------------------------------------------
(* Properties                                                              *)

TypeOK ==
    /\ order \in [Orders -> OrderStatus]
    /\ tender \in [Orders -> Tender]
    /\ payment \in [Orders -> PaymentStatus]
    /\ reservation \in [Orders -> ReservationStatus]
    /\ lapsed \subseteq Orders
    /\ onHand \in Nat
    /\ reserved \in Nat
    /\ intent \in [Intents -> IntentStatus]
    /\ intentOrder \in [Intents -> Orders \cup {NoOrder}]
    /\ provider \in [Intents -> ProviderStatus]
    /\ delivered \subseteq Source \X Intents \X Outcome
    /\ paidEvents \in [Intents -> Nat]
    /\ recWork \in [Reconcilers -> [Intents -> RecStage]]
    /\ exception \in [Intents -> SUBSET Reason]

Held(o) == order[o] \in {"pending", "confirmed"}

Units(S) == SumOf(Qty, S)

\* The reserved bucket holds exactly the goods of the orders that are pending
\* or confirmed, and no unit is lost or made up by a release, an expiry or a
\* fulfilment, whichever of them wins.
StockAccounted ==
    /\ reserved = Units({o \in Orders : Held(o)})
    /\ onHand + reserved + Units({o \in Orders : order[o] = "fulfilled"}) = Stock

\* The janitor finds an order it must cancel by its active reservation: a
\* pending order always has one, and one that is still active belongs to an
\* order whose goods are held.
ReservationGuardsOrder ==
    \A o \in Orders :
        /\ order[o] = "pending" => reservation[o] = "active"
        /\ reservation[o] = "active" => Held(o)

\* An order has at most one intent that is live or has taken money.
ChargedOnce ==
    \A i, j \in Intents :
        /\ i # j /\ intentOrder[i] = intentOrder[j]
        /\ intent[i] \in {"created", "succeeded"}
        => intent[j] \notin {"created", "succeeded"}

\* order.paid is published once for an intent that succeeded and never for
\* another one, however many webhooks and reconcilers report it.
PaidEventOnce ==
    \A i \in Intents :
        paidEvents[i] = IF intent[i] = "succeeded" THEN 1 ELSE 0

\* Money that was taken is in the books: the order's payment is captured, or
\* it had been voided by the cancellation of the order.  And a payment is
\* captured for no other reason.
CaptureAccounted ==
    /\ \A i \in Intents : intent[i] = "succeeded" =>
         LET o == intentOrder[i] IN
         \/ payment[o] = "captured" /\ order[o] # "pending"
         \/ payment[o] = "voided" /\ order[o] = "cancelled"
    /\ \A o \in Orders : payment[o] = "captured" =>
         \E i \in Intents : intentOrder[i] = o /\ intent[i] = "succeeded"

\* A recorded delivery has had its effect: the dedupe key never swallows an
\* outcome that was not applied.
DeliveryApplied ==
    \A key \in delivered : intent[key[2]] = key[3]

\* The final status of an intent is what the gateway decided, through
\* whichever door it was learnt.
TruthfulOutcome ==
    \A i \in Intents :
        /\ intent[i] = "succeeded" => provider[i] \in {"paid", "paid_other"}
        /\ intent[i] = "failed" => provider[i] = "declined"

\* The reconciler captures no total it cannot match.
RepairMatchesAmount ==
    \A i \in Intents :
        <<"reconcile", i, "succeeded">> \in delivered => provider[i] = "paid"

\* A cash-on-delivery order that owes an advance is not confirmed, and does
\* not leave the shop, before the advance is captured.
AdvanceBeforeConfirm ==
    \A o \in Orders :
        tender[o] = "cod_advance" /\ order[o] \in {"confirmed", "fulfilled"}
        => payment[o] = "captured"

\* What the books say of a payment is what happened to the money: the outcome
\* is the gateway's, a repair matches its total, and an owed advance comes first.
OutcomesTruthful == TruthfulOutcome /\ RepairMatchesAmount /\ AdvanceBeforeConfirm

\* An order that was fulfilled or cancelled stays so, a confirmed one is not
\* pending again, and an intent never changes its final status.
NoWayBack ==
    [][/\ \A o \in Orders :
            /\ order[o] \in {"fulfilled", "cancelled"} => order'[o] = order[o]
            /\ order[o] = "confirmed" => order'[o] # "pending"
       /\ \A i \in Intents :
            intent[i] \in {"succeeded", "failed"} => intent'[i] = intent[i]
      ]_vars

\* Nobody's unpaid order holds goods for ever, unless a gateway call that never
\* answers holds a row for ever, of this order or of one the janitor waits for.
\* (ReservationJanitor; PaymentService.createIntent calls the gateway under the
\* row lock, and neither the call nor the transaction has a deadline.)
PendingOrdersEnd ==
    \A o \in Orders : order[o] = "pending" ~> (order[o] # "pending" \/ []HeldUp)

\* As many live intents are older than this one as a run reads.
Starved(i) == Cardinality(Older(i)) >= BatchLimit

\* An intent that the gateway settled is closed or put before a human, even if no
\* webhook ever arrives, unless older ones that stay live fill every batch for
\* ever, or a gateway call that never answers holds an order's row.
StuckIntentsSurface ==
    \A i \in Intents :
        Live(i) /\ Settled(i)
            ~> (~Live(i) \/ exception[i] # {} \/ []Starved(i) \/ []HeldUp)

\* The promise to shopper and stock keeper: which of its states an order is in.
Goods(o) ==
    CASE order[o] = "none"      -> "none"
      [] Held(o)                -> "held"
      [] order[o] = "fulfilled" -> "gone"
      [] order[o] = "cancelled" -> "back"

GoodsMap == [o \in Orders |-> Goods(o)]

Charged ==
    {o \in Orders :
        \E i \in Intents : intentOrder[i] = o /\ intent[i] = "succeeded"}

Contract == INSTANCE OrderContract WITH
    goods <- GoodsMap, charged <- Charged, free <- onHand

\* Checkout keeps the contract.
KeepsContract == Contract!Spec

\* What the comment on the payment service says of payment.succeeded: the
\* payment is captured and the order confirmed (or already handed over).
PaidMeansConfirmed ==
    \A i \in Intents : intent[i] = "succeeded" =>
        /\ payment[intentOrder[i]] = "captured"
        /\ order[intentOrder[i]] \in {"confirmed", "fulfilled"}
=============================================================================
