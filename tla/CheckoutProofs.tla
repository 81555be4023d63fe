--------------------------- MODULE CheckoutProofs ---------------------------
(* What TLAPS proves of Checkout, for any orders, intents and reconcilers. *)
EXTENDS Checkout, SumLemmas

USE CheckoutAssumption
USE DEF OrderStatus, Tender, PaymentStatus, ReservationStatus, IntentStatus,
        ProviderStatus, Outcome, Source, RecStage, Reason

-----------------------------------------------------------------------------
(* The inductive invariant: the type invariant, the safety properties of   *)
(* Checkout, and what ties the rows of an order and of an intent together. *)

\* An intent that was opened has an order and a record at the gateway.
IntentShape ==
    \A i \in Intents :
        /\ intent[i] = "none" => provider[i] = "none"
        /\ intent[i] # "none" => intentOrder[i] \in Orders /\ provider[i] # "none"

\* The payment row follows the order: an order that waits for money has a
\* pending one, and only a cancellation voids it.
PaymentShape ==
    \A o \in Orders :
        /\ order[o] = "none" => payment[o] = "none" /\ reservation[o] = "none"
        /\ order[o] = "pending" => payment[o] = "pending"
        /\ payment[o] = "voided" => order[o] = "cancelled"

\* An order with an intent was placed, and owed something.
IntentHasPayment ==
    \A i \in Intents : intent[i] # "none" =>
        /\ order[intentOrder[i]] # "none"
        /\ payment[intentOrder[i]] # "none"

\* The transaction that opens an intent holds the row of a pending order, and
\* holds it alone.
OpeningLocks ==
    /\ \A i \in Intents : intent[i] = "opening" => order[intentOrder[i]] = "pending"
    /\ \A i, j \in Intents :
         /\ i # j /\ intentOrder[i] = intentOrder[j]
         /\ intent[i] = "opening"
         => intent[j] # "opening"

\* What a reconciler is about to apply is still what the gateway decided.
WorkTruthful ==
    \A r \in Reconcilers, i \in Intents :
        /\ recWork[r][i] = "succeeded" => provider[i] = "paid"
        /\ recWork[r][i] = "failed" => provider[i] = "declined"

IInv ==
    /\ TypeOK
    /\ IntentShape
    /\ PaymentShape
    /\ IntentHasPayment
    /\ OpeningLocks
    /\ WorkTruthful
    /\ ReservationGuardsOrder
    /\ ChargedOnce
    /\ PaidEventOnce
    /\ CaptureAccounted
    /\ DeliveryApplied
    /\ TruthfulOutcome
    /\ RepairMatchesAmount
    /\ AdvanceBeforeConfirm

LEMMA InitInv == Init => IInv
<1> SUFFICES ASSUME Init PROVE IInv
  OBVIOUS
<1>1. TypeOK
  BY DEF Init, TypeOK
<1>2. IntentShape /\ PaymentShape /\ IntentHasPayment /\ OpeningLocks
  BY DEF Init, IntentShape, PaymentShape, IntentHasPayment, OpeningLocks
<1>3. WorkTruthful
  BY DEF Init, WorkTruthful
<1>4. ReservationGuardsOrder /\ ChargedOnce /\ PaidEventOnce
  BY DEF Init, ReservationGuardsOrder, ChargedOnce, PaidEventOnce
<1>5. CaptureAccounted
  BY DEF Init, CaptureAccounted
<1>6. DeliveryApplied /\ TruthfulOutcome /\ RepairMatchesAmount
  BY DEF Init, DeliveryApplied, TruthfulOutcome, RepairMatchesAmount
<1>7. AdvanceBeforeConfirm
  BY DEF Init, AdvanceBeforeConfirm
<1> QED
  BY <1>1, <1>2, <1>3, <1>4, <1>5, <1>6, <1>7 DEF IInv

-----------------------------------------------------------------------------
(* Steps on an order                                                       *)

\* The intents, the gateway's record and the reconcilers are left alone.
IntentSideUnchanged ==
    UNCHANGED <<intentVars, provider, workerVars>>

LEMMA IntentSideStays ==
    ASSUME IInv, IntentSideUnchanged
    PROVE  /\ IntentShape' /\ WorkTruthful'
           /\ ChargedOnce' /\ PaidEventOnce' /\ DeliveryApplied'
           /\ TruthfulOutcome' /\ RepairMatchesAmount'
<1> USE DEF IInv, IntentSideUnchanged, intentVars, workerVars
<1>1. IntentShape' /\ WorkTruthful'
  BY DEF IntentShape, WorkTruthful
<1>2. ChargedOnce' /\ PaidEventOnce' /\ DeliveryApplied'
  BY DEF ChargedOnce, PaidEventOnce, DeliveryApplied
<1>3. TruthfulOutcome' /\ RepairMatchesAmount'
  BY DEF TruthfulOutcome, RepairMatchesAmount
<1> QED BY <1>1, <1>2, <1>3

LEMMA CreateOrderInv ==
    ASSUME IInv, NEW o \in Orders, NEW t \in Tender \ {"none"}, CreateOrder(o, t)
    PROVE  IInv'
<1> USE DEF CreateOrder, PaymentDue, Covered
<1>1. IntentSideUnchanged
  BY DEF IntentSideUnchanged
<1>2. TypeOK'
  BY DEF IInv, TypeOK, intentVars, workerVars
<1>3. PaymentShape' /\ ReservationGuardsOrder' /\ AdvanceBeforeConfirm'
  BY DEF IInv, TypeOK, PaymentShape, ReservationGuardsOrder,
         AdvanceBeforeConfirm, Held
<1>4. IntentHasPayment' /\ OpeningLocks'
  BY DEF IInv, TypeOK, IntentShape, IntentHasPayment, OpeningLocks, intentVars
<1>5. CaptureAccounted'
  BY DEF IInv, TypeOK, IntentShape, IntentHasPayment, PaymentShape,
         CaptureAccounted, intentVars
<1> QED
  BY <1>1, <1>2, <1>3, <1>4, <1>5, IntentSideStays DEF IInv

LEMMA LapseInv ==
    ASSUME IInv, NEW o \in Orders, Lapse(o)
    PROVE  IInv'
<1> USE DEF Lapse
<1>1. IntentSideUnchanged
  BY DEF IntentSideUnchanged
<1>2. TypeOK'
  BY DEF IInv, TypeOK, intentVars, workerVars, stockVars
<1>3. PaymentShape' /\ ReservationGuardsOrder' /\ AdvanceBeforeConfirm'
  BY DEF IInv, PaymentShape, ReservationGuardsOrder, AdvanceBeforeConfirm, Held
<1>4. IntentHasPayment' /\ OpeningLocks' /\ CaptureAccounted'
  BY DEF IInv, IntentHasPayment, OpeningLocks, CaptureAccounted, intentVars
<1> QED
  BY <1>1, <1>2, <1>3, <1>4, IntentSideStays DEF IInv

LEMMA RetireReservationInv ==
    ASSUME IInv, NEW o \in Orders, RetireReservation(o)
    PROVE  IInv'
<1> USE DEF RetireReservation
<1>1. IntentSideUnchanged
  BY DEF IntentSideUnchanged
<1>2. TypeOK'
  BY DEF IInv, TypeOK, intentVars, workerVars, stockVars
<1>3. PaymentShape' /\ ReservationGuardsOrder' /\ AdvanceBeforeConfirm'
  BY DEF IInv, TypeOK, PaymentShape, ReservationGuardsOrder,
         AdvanceBeforeConfirm, Held
<1>4. IntentHasPayment' /\ OpeningLocks' /\ CaptureAccounted'
  BY DEF IInv, IntentHasPayment, OpeningLocks, CaptureAccounted, intentVars
<1> QED
  BY <1>1, <1>2, <1>3, <1>4, IntentSideStays DEF IInv

\* An expiry and a cancellation differ in what they leave the reservation in;
\* both end the order under its row lock.
LEMMA CancellationKeeps ==
    ASSUME IInv, NEW o \in Orders, IntentSideUnchanged, OrderFree(o),
           order[o] \in {"pending", "confirmed"},
           tender' = tender,
           order' = [order EXCEPT ![o] = "cancelled"],
           payment' = [payment EXCEPT ![o] = VoidPending(o)]
    PROVE  /\ IntentHasPayment' /\ OpeningLocks'
           /\ CaptureAccounted' /\ AdvanceBeforeConfirm'
<1> USE DEF IntentSideUnchanged, intentVars, VoidPending
<1>1. IntentHasPayment'
  BY DEF IInv, TypeOK, IntentShape, IntentHasPayment
<1>2. OpeningLocks'
  BY DEF IInv, TypeOK, OpeningLocks, OrderFree
<1>3. CaptureAccounted'
  BY DEF IInv, TypeOK, IntentShape, PaymentShape, CaptureAccounted
<1>4. AdvanceBeforeConfirm'
  BY DEF IInv, TypeOK, AdvanceBeforeConfirm
<1> QED BY <1>1, <1>2, <1>3, <1>4

LEMMA ExpireOrderInv ==
    ASSUME IInv, NEW o \in Orders, ExpireOrder(o)
    PROVE  IInv'
<1> USE DEF ExpireOrder
<1>1. IntentSideUnchanged
  BY DEF IntentSideUnchanged
<1>2. TypeOK'
  BY DEF IInv, TypeOK, VoidPending, intentVars, workerVars
<1>3. PaymentShape' /\ ReservationGuardsOrder'
  BY DEF IInv, TypeOK, PaymentShape, ReservationGuardsOrder, VoidPending, Held
<1>4. /\ IntentHasPayment' /\ OpeningLocks'
      /\ CaptureAccounted' /\ AdvanceBeforeConfirm'
  BY <1>1, CancellationKeeps
<1> QED
  BY <1>1, <1>2, <1>3, <1>4, IntentSideStays DEF IInv

LEMMA CancelInv ==
    ASSUME IInv, NEW o \in Orders, Cancel(o)
    PROVE  IInv'
<1> USE DEF Cancel, BeforeFulfilment, CloseReservation
<1>1. IntentSideUnchanged
  BY DEF IntentSideUnchanged
<1>2. TypeOK'
  BY DEF IInv, TypeOK, VoidPending, intentVars, workerVars
<1>3. PaymentShape' /\ ReservationGuardsOrder'
  BY DEF IInv, TypeOK, PaymentShape, ReservationGuardsOrder, VoidPending, Held
<1>4. /\ IntentHasPayment' /\ OpeningLocks'
      /\ CaptureAccounted' /\ AdvanceBeforeConfirm'
  BY <1>1, CancellationKeeps
<1> QED
  BY <1>1, <1>2, <1>3, <1>4, IntentSideStays DEF IInv

LEMMA FulfillInv ==
    ASSUME IInv, NEW o \in Orders, Fulfill(o)
    PROVE  IInv'
<1> USE DEF Fulfill, BeforeFulfilment, CloseReservation
<1>1. IntentSideUnchanged
  BY DEF IntentSideUnchanged
<1>2. TypeOK'
  BY DEF IInv, TypeOK, intentVars, workerVars
<1>3. PaymentShape' /\ ReservationGuardsOrder'
  BY DEF IInv, TypeOK, PaymentShape, ReservationGuardsOrder, Held
<1>4. IntentHasPayment' /\ OpeningLocks'
  BY DEF IInv, TypeOK, IntentShape, IntentHasPayment, OpeningLocks, OrderFree,
         intentVars
<1>5. CaptureAccounted'
  BY DEF IInv, TypeOK, IntentShape, CaptureAccounted, intentVars
<1>6. AdvanceBeforeConfirm'
  BY DEF IInv, TypeOK, AdvanceBeforeConfirm, AdvanceCollected
<1> QED
  BY <1>1, <1>2, <1>3, <1>4, <1>5, <1>6, IntentSideStays DEF IInv

LEMMA OrderStepInv ==
    ASSUME IInv, NEW o \in Orders, OrderStep(o)
    PROVE  IInv'
BY CreateOrderInv, LapseInv, RetireReservationInv, ExpireOrderInv, FulfillInv,
   CancelInv DEF OrderStep

-----------------------------------------------------------------------------
(* Steps on an intent                                                      *)

\* The rows of the orders are left alone.
LEMMA OrderSideStays ==
    ASSUME IInv, UNCHANGED orderVars
    PROVE  PaymentShape' /\ ReservationGuardsOrder' /\ AdvanceBeforeConfirm'
BY DEF IInv, PaymentShape, ReservationGuardsOrder, AdvanceBeforeConfirm, Held,
       orderVars

LEMMA CreateIntentInv ==
    ASSUME IInv, NEW i \in Intents, NEW o \in Orders, CreateIntent(i, o)
    PROVE  IInv'
<1> USE DEF CreateIntent, orderVars
<1>1. PaymentShape' /\ ReservationGuardsOrder' /\ AdvanceBeforeConfirm'
  BY OrderSideStays
<1>2. TypeOK'
  BY DEF IInv, TypeOK, stockVars, workerVars
<1>3. IntentShape' /\ IntentHasPayment'
  BY DEF IInv, TypeOK, IntentShape, IntentHasPayment, PaymentShape
<1>4. OpeningLocks'
  BY DEF IInv, TypeOK, OpeningLocks, OrderFree, IntentShape
<1>5. WorkTruthful' /\ TruthfulOutcome'
  BY DEF IInv, TypeOK, WorkTruthful, TruthfulOutcome, IntentShape, workerVars
<1>6. RepairMatchesAmount' /\ DeliveryApplied'
  BY DEF IInv, TypeOK, RepairMatchesAmount, DeliveryApplied, IntentShape
<1>7. ChargedOnce' /\ PaidEventOnce'
  BY DEF IInv, TypeOK, ChargedOnce, PaidEventOnce
<1>8. CaptureAccounted'
  BY DEF IInv, TypeOK, CaptureAccounted
<1> QED
  BY <1>1, <1>2, <1>3, <1>4, <1>5, <1>6, <1>7, <1>8 DEF IInv

\* The end of the transaction that opens an intent, either way.
LEMMA IntentEndInv ==
    ASSUME IInv, NEW i \in Intents, InsertIntent(i) \/ RollbackIntent(i)
    PROVE  IInv'
<1> USE DEF InsertIntent, RollbackIntent
<1>1. PaymentShape' /\ ReservationGuardsOrder' /\ AdvanceBeforeConfirm'
  BY OrderSideStays
<1>2. TypeOK'
  BY DEF IInv, TypeOK, stockVars, orderVars, workerVars
<1>3. IntentShape' /\ IntentHasPayment' /\ OpeningLocks'
  <2>1. /\ intent[i] = "opening"
        /\ UNCHANGED <<order, payment, intentOrder, provider>>
    BY DEF orderVars
  <2>2. \A j \in Intents : /\ intent'[j] = "none" => intent[j] = "none"
                           /\ intent'[j] = "opening" => intent[j] = "opening"
    BY <2>1 DEF IInv, TypeOK
  <2>3. \A j \in Intents : intent'[j] # "none" => intent[j] # "none"
    BY <2>1 DEF IInv, TypeOK
  <2>4. IntentShape'
    BY <2>1, <2>2, <2>3 DEF IInv, IntentShape
  <2>5. IntentHasPayment'
    BY <2>1, <2>3 DEF IInv, IntentHasPayment
  <2>6. OpeningLocks'
    BY <2>1, <2>2 DEF IInv, OpeningLocks
  <2> QED BY <2>4, <2>5, <2>6
<1>4. WorkTruthful' /\ TruthfulOutcome' /\ RepairMatchesAmount' /\ PaidEventOnce'
  BY DEF IInv, TypeOK, WorkTruthful, TruthfulOutcome, RepairMatchesAmount,
         PaidEventOnce, workerVars
<1>5. DeliveryApplied'
  BY DEF IInv, TypeOK, DeliveryApplied
<1>6. ChargedOnce'
  BY DEF IInv, TypeOK, ChargedOnce, OtherLive, Live, OpeningLocks, CaptureAccounted,
         IntentShape, PaymentShape, orderVars
<1>7. CaptureAccounted'
  BY DEF IInv, TypeOK, CaptureAccounted, orderVars
<1> QED
  BY <1>1, <1>2, <1>3, <1>4, <1>5, <1>6, <1>7 DEF IInv

LEMMA GatewaySettlesInv ==
    ASSUME IInv, NEW i \in Intents,
           NEW result \in {"paid", "paid_other", "declined"},
           GatewaySettles(i, result)
    PROVE  IInv'
<1> USE DEF GatewaySettles
<1>1. PaymentShape' /\ ReservationGuardsOrder' /\ AdvanceBeforeConfirm'
  BY OrderSideStays
<1>2. TypeOK'
  BY DEF IInv, TypeOK, stockVars, orderVars, workerVars, intentVars
<1>3. /\ IntentShape' /\ WorkTruthful' /\ TruthfulOutcome'
      /\ RepairMatchesAmount'
  BY DEF IInv, TypeOK, IntentShape, WorkTruthful, TruthfulOutcome,
         RepairMatchesAmount, workerVars, intentVars
<1>4. /\ IntentHasPayment' /\ OpeningLocks' /\ ChargedOnce' /\ PaidEventOnce'
      /\ DeliveryApplied' /\ CaptureAccounted'
  BY DEF IInv, IntentHasPayment, OpeningLocks, ChargedOnce, PaidEventOnce,
         DeliveryApplied, CaptureAccounted, orderVars, intentVars
<1> QED
  BY <1>1, <1>2, <1>3, <1>4 DEF IInv

-----------------------------------------------------------------------------
(* applyWebhook, whoever calls it                                          *)

\* What a caller knows when it applies an outcome to intent i.
Told(key, i) ==
    /\ key \in Source \X {i} \X Outcome
    /\ key[3] = "succeeded" => provider[i] \in {"paid", "paid_other"}
    /\ key[3] = "failed" => provider[i] = "declined"
    /\ key = <<"reconcile", i, "succeeded">> => provider[i] = "paid"

\* The part of the invariant that is not about the reconcilers.
EffectKept ==
    /\ IntentShape' /\ PaymentShape' /\ IntentHasPayment' /\ OpeningLocks'
    /\ ReservationGuardsOrder' /\ ChargedOnce' /\ PaidEventOnce'
    /\ CaptureAccounted' /\ DeliveryApplied' /\ TruthfulOutcome'
    /\ RepairMatchesAmount' /\ AdvanceBeforeConfirm'

LEMMA AlreadyFinalKeeps ==
    ASSUME IInv, NEW i \in Intents, NEW key, Told(key, i), AlreadyFinal(i, key),
           UNCHANGED <<stockVars, intentOrder, provider>>,
           recWork' \in [Reconcilers -> [Intents -> RecStage]],
           exception' \in [Intents -> SUBSET Reason]
    PROVE  TypeOK' /\ EffectKept
<1> USE DEF AlreadyFinal, NewDelivery
<1>1. PaymentShape' /\ ReservationGuardsOrder' /\ AdvanceBeforeConfirm'
  BY OrderSideStays
<1>2. TypeOK'
  BY DEF IInv, TypeOK, Told, stockVars, orderVars
<1>3. /\ IntentShape' /\ IntentHasPayment' /\ OpeningLocks' /\ ChargedOnce'
      /\ PaidEventOnce' /\ TruthfulOutcome' /\ CaptureAccounted'
  BY DEF IInv, IntentShape, IntentHasPayment, OpeningLocks, ChargedOnce,
         PaidEventOnce, TruthfulOutcome, CaptureAccounted, orderVars
<1>4. DeliveryApplied'
  BY DEF IInv, TypeOK, DeliveryApplied, TruthfulOutcome, Told
<1>5. RepairMatchesAmount'
  BY DEF IInv, RepairMatchesAmount, Told
<1> QED BY <1>1, <1>2, <1>3, <1>4, <1>5 DEF EffectKept

LEMMA CloseFailedKeeps ==
    ASSUME IInv, NEW i \in Intents, NEW key, Told(key, i), CloseFailed(i, key),
           UNCHANGED <<stockVars, intentOrder, provider>>,
           recWork' \in [Reconcilers -> [Intents -> RecStage]],
           exception' \in [Intents -> SUBSET Reason]
    PROVE  TypeOK' /\ EffectKept
<1> USE DEF CloseFailed, NewDelivery, NotFinal
<1>1. PaymentShape' /\ ReservationGuardsOrder' /\ AdvanceBeforeConfirm'
  BY OrderSideStays
<1>2. TypeOK'
  <2>1. /\ intent' \in [Intents -> IntentStatus]
        /\ delivered' \subseteq Source \X Intents \X Outcome
    BY DEF IInv, TypeOK, Told
  <2> QED
    BY <2>1 DEF IInv, TypeOK, stockVars, orderVars
<1>3. IntentShape' /\ IntentHasPayment' /\ OpeningLocks' /\ ChargedOnce'
  BY DEF IInv, TypeOK, IntentShape, IntentHasPayment, OpeningLocks,
         ChargedOnce, orderVars
<1>4. PaidEventOnce' /\ CaptureAccounted'
  BY DEF IInv, TypeOK, PaidEventOnce, CaptureAccounted, orderVars
<1>5. TruthfulOutcome' /\ RepairMatchesAmount'
  BY DEF IInv, TypeOK, TruthfulOutcome, RepairMatchesAmount, Told
<1>6. DeliveryApplied'
  BY DEF IInv, TypeOK, DeliveryApplied, Told
<1> QED BY <1>1, <1>2, <1>3, <1>4, <1>5, <1>6 DEF EffectKept

LEMMA CaptureKeeps ==
    ASSUME IInv, NEW i \in Intents, NEW key, Told(key, i), Capture(i, key),
           UNCHANGED <<stockVars, intentOrder, provider>>,
           recWork' \in [Reconcilers -> [Intents -> RecStage]],
           exception' \in [Intents -> SUBSET Reason]
    PROVE  TypeOK' /\ EffectKept
<1> DEFINE o == intentOrder[i]
<1> USE DEF Capture, NewDelivery, NotFinal
<1>1. /\ o \in Orders
      /\ order[o] # "none"
      /\ payment[o] \in {"pending", "voided"}
  \* A captured payment would be that of another intent that succeeded.
  BY DEF IInv, TypeOK, IntentShape, IntentHasPayment, CaptureAccounted,
         ChargedOnce
<1>2. TypeOK'
  <2>1. /\ order' \in [Orders -> OrderStatus]
        /\ payment' \in [Orders -> PaymentStatus]
    BY DEF IInv, TypeOK, CapturePending, ConfirmPending
  <2>2. /\ intent' \in [Intents -> IntentStatus]
        /\ paidEvents' \in [Intents -> Nat]
        /\ delivered' \subseteq Source \X Intents \X Outcome
    BY DEF IInv, TypeOK, Told
  <2> QED
    BY <2>1, <2>2 DEF IInv, TypeOK, stockVars
<1>3. PaymentShape' /\ ReservationGuardsOrder'
  BY <1>1 DEF IInv, TypeOK, PaymentShape, ReservationGuardsOrder, Held,
              CapturePending, ConfirmPending
<1>4. IntentShape' /\ IntentHasPayment'
  BY <1>1 DEF IInv, TypeOK, IntentShape, IntentHasPayment, CapturePending,
              ConfirmPending
<1>5. OpeningLocks'
  BY <1>1 DEF IInv, TypeOK, OpeningLocks, OrderFree, ConfirmPending
<1>6. ChargedOnce' /\ PaidEventOnce'
  BY DEF IInv, TypeOK, ChargedOnce, PaidEventOnce
<1>7. CaptureAccounted'
  BY <1>1 DEF IInv, TypeOK, CaptureAccounted, PaymentShape, IntentShape,
              CapturePending, ConfirmPending
<1>8. TruthfulOutcome' /\ RepairMatchesAmount'
  BY DEF IInv, TypeOK, TruthfulOutcome, RepairMatchesAmount, Told
<1>9. DeliveryApplied'
  BY DEF IInv, TypeOK, DeliveryApplied, Told
<1>10. AdvanceBeforeConfirm'
  BY <1>1 DEF IInv, TypeOK, AdvanceBeforeConfirm, PaymentShape,
              CapturePending, ConfirmPending
<1> QED
  BY <1>2, <1>3, <1>4, <1>5, <1>6, <1>7, <1>8, <1>9, <1>10 DEF EffectKept

LEMMA ApplyWebhookInv ==
    ASSUME IInv, NEW i \in Intents, ApplyWebhook(i)
    PROVE  IInv'
<1> DEFINE key == <<"webhook", i, WebhookOutcome(provider[i])>>
<1>1. Told(key, i)
  BY DEF Told, ApplyWebhook, Settled, WebhookOutcome
<1>2. /\ UNCHANGED <<stockVars, intentOrder, provider, recWork, exception>>
      /\ recWork' \in [Reconcilers -> [Intents -> RecStage]]
      /\ exception' \in [Intents -> SUBSET Reason]
  BY DEF ApplyWebhook, workerVars, IInv, TypeOK
<1>3. TypeOK' /\ EffectKept
  <2> HIDE DEF key
  <2>1. AlreadyFinal(i, key) \/ CloseFailed(i, key) \/ Capture(i, key)
    BY DEF ApplyWebhook, key
  <2> QED
    BY <1>1, <1>2, <2>1, AlreadyFinalKeeps, CloseFailedKeeps, CaptureKeeps
<1>4. WorkTruthful'
  BY <1>2 DEF IInv, WorkTruthful
<1> QED BY <1>3, <1>4 DEF IInv, EffectKept

LEMMA IntentStepInv ==
    ASSUME IInv, NEW i \in Intents, IntentStep(i)
    PROVE  IInv'
BY CreateIntentInv, IntentEndInv, GatewaySettlesInv, ApplyWebhookInv
   DEF IntentStep

-----------------------------------------------------------------------------
(* Steps of a reconciler                                                   *)

\* A step of a reconciler that touches neither orders nor intents.
LEMMA RowsStay ==
    ASSUME IInv, UNCHANGED <<orderVars, stockVars, intentVars, provider>>,
           recWork' \in [Reconcilers -> [Intents -> RecStage]],
           exception' \in [Intents -> SUBSET Reason],
           WorkTruthful'
    PROVE  IInv'
<1>1. PaymentShape' /\ ReservationGuardsOrder' /\ AdvanceBeforeConfirm'
  BY OrderSideStays
<1>2. TypeOK'
  BY DEF IInv, TypeOK, stockVars, orderVars, intentVars
<1>3. /\ IntentShape' /\ IntentHasPayment' /\ OpeningLocks' /\ ChargedOnce'
      /\ PaidEventOnce' /\ CaptureAccounted'
  BY DEF IInv, IntentShape, IntentHasPayment, OpeningLocks, ChargedOnce,
         PaidEventOnce, CaptureAccounted, orderVars, intentVars
<1>4. DeliveryApplied' /\ TruthfulOutcome' /\ RepairMatchesAmount'
  BY DEF IInv, DeliveryApplied, TruthfulOutcome, RepairMatchesAmount, intentVars
<1> QED BY <1>1, <1>2, <1>3, <1>4 DEF IInv

\* Moving one intent of one reconciler to another stage.
LEMMA AdvanceWork ==
    ASSUME IInv, NEW r \in Reconcilers, NEW i \in Intents,
           NEW stage \in RecStage, Advance(r, i, stage)
    PROVE  /\ recWork' \in [Reconcilers -> [Intents -> RecStage]]
           /\ \A r2 \in Reconcilers, i2 \in Intents :
                recWork'[r2][i2] \in {stage, recWork[r2][i2]}
           /\ recWork'[r][i] = stage
           /\ \A r2 \in Reconcilers, i2 \in Intents :
                i2 # i => recWork'[r2][i2] = recWork[r2][i2]
BY DEF IInv, TypeOK, Advance

LEMMA BatchInv ==
    ASSUME IInv, NEW r \in Reconcilers, FindStuck(r) \/ WorkerCrash(r)
    PROVE  IInv'
<1>1. PICK batch \in [Intents -> {"idle", "listed"}] :
          recWork' = [recWork EXCEPT ![r] = batch]
  <2>1. CASE FindStuck(r)
    <3> DEFINE listed == [i \in Intents |-> IF Batched(i) THEN "listed" ELSE "idle"]
    <3>1. listed \in [Intents -> {"idle", "listed"}]
      OBVIOUS
    <3>2. recWork' = [recWork EXCEPT ![r] = listed]
      BY <2>1 DEF FindStuck
    <3> QED BY <3>1, <3>2
  <2>2. CASE WorkerCrash(r)
    <3> DEFINE idle == [i \in Intents |-> "idle"]
    <3>1. idle \in [Intents -> {"idle", "listed"}]
      OBVIOUS
    <3>2. recWork' = [recWork EXCEPT ![r] = idle]
      BY <2>2 DEF WorkerCrash
    <3> QED BY <3>1, <3>2
  <2> QED BY <2>1, <2>2
<1>2. recWork' \in [Reconcilers -> [Intents -> RecStage]]
  BY <1>1 DEF IInv, TypeOK
<1>3. UNCHANGED <<orderVars, stockVars, intentVars, provider, exception>>
  BY DEF FindStuck, WorkerCrash
<1>4. WorkTruthful'
  BY <1>1, <1>3 DEF IInv, TypeOK, WorkTruthful
<1> QED BY <1>2, <1>3, <1>4, RowsStay DEF IInv, TypeOK

LEMMA PollInv ==
    ASSUME IInv, NEW r \in Reconcilers, NEW i \in Intents,
           \/ PollAnswered(r, i) \/ PollUnknown(r, i) \/ PollLeftAlone(r, i)
           \/ ReconcileThrows(r, i) \/ ReportFails(r, i)
    PROVE  IInv'
<1>1. UNCHANGED <<orderVars, stockVars, intentVars, provider, exception>>
  BY DEF PollAnswered, PollUnknown, PollLeftAlone, ReconcileThrows, ReportFails
<1>2. PICK stage \in RecStage :
         /\ Advance(r, i, stage)
         /\ stage = "succeeded" => provider[i] = "paid"
         /\ stage = "failed" => provider[i] = "declined"
  <2>1. CASE PollAnswered(r, i)
    BY <2>1 DEF PollAnswered, Settled, Verdict, WebhookOutcome
  <2>2. CASE PollUnknown(r, i) \/ ReconcileThrows(r, i)
    <3>1. Advance(r, i, "unrepaired")
      BY <2>2 DEF PollUnknown, ReconcileThrows
    <3> QED BY <3>1
  <2>3. CASE PollLeftAlone(r, i) \/ ReportFails(r, i)
    <3>1. Advance(r, i, "idle")
      BY <2>3 DEF PollLeftAlone, ReportFails
    <3> QED BY <3>1
  <2> QED BY <2>1, <2>2, <2>3
<1>3. recWork' \in [Reconcilers -> [Intents -> RecStage]]
  BY <1>2, AdvanceWork
<1>4. WorkTruthful'
  BY <1>1, <1>2, AdvanceWork DEF IInv, WorkTruthful
<1> QED BY <1>1, <1>3, <1>4, RowsStay DEF IInv, TypeOK

LEMMA ReportInv ==
    ASSUME IInv, NEW r \in Reconcilers, NEW i \in Intents, Report(r, i)
    PROVE  IInv'
<1>1. Advance(r, i, "idle")
  BY DEF Report
<1>2. recWork' \in [Reconcilers -> [Intents -> RecStage]]
  BY <1>1, AdvanceWork
<1>3. UNCHANGED <<orderVars, stockVars, intentVars, provider>>
  BY DEF Report
<1>4. WorkTruthful'
  BY <1>1, <1>3, AdvanceWork DEF IInv, WorkTruthful
<1>5. exception' \in [Intents -> SUBSET Reason]
  BY DEF IInv, TypeOK, Report
<1> QED BY <1>2, <1>3, <1>4, <1>5, RowsStay

LEMMA ReconcileApplyInv ==
    ASSUME IInv, NEW r \in Reconcilers, NEW i \in Intents, ReconcileApply(r, i)
    PROVE  IInv'
<1> DEFINE key == RecKey(r, i)
<1>1. Told(key, i)
  BY DEF IInv, TypeOK, WorkTruthful, Told, ReconcileApply, RecKey
<1>2. UNCHANGED <<stockVars, intentOrder, provider, exception>>
  BY DEF ReconcileApply
<1>3. PICK stage \in {"resolve", "declined", "idle"} : Advance(r, i, stage)
  <2>1. Advance(r, i, "resolve") \/ Advance(r, i, "declined") \/ Advance(r, i, "idle")
    <3> HIDE DEF key
    <3> QED BY Zenon DEF ReconcileApply
  <2> QED BY <2>1
<1>4. /\ recWork' \in [Reconcilers -> [Intents -> RecStage]]
      /\ exception' \in [Intents -> SUBSET Reason]
  BY <1>2, <1>3, AdvanceWork DEF IInv, TypeOK
<1>5. WorkTruthful'
  BY <1>2, <1>3, AdvanceWork DEF IInv, WorkTruthful
<1>6. CASE AlreadyFinal(i, key) \/ CloseFailed(i, key) \/ Capture(i, key)
  <2> HIDE DEF key
  <2>1. TypeOK' /\ EffectKept
    BY <1>1, <1>2, <1>4, <1>6, AlreadyFinalKeeps, CloseFailedKeeps, CaptureKeeps
  <2> QED BY <1>5, <2>1 DEF IInv, EffectKept
<1>7. CASE UNCHANGED <<orderVars, intent, delivered, paidEvents>>
  BY <1>2, <1>4, <1>5, <1>7, RowsStay DEF intentVars
<1> QED BY <1>6, <1>7 DEF ReconcileApply

LEMMA ReconcilerStepInv ==
    ASSUME IInv, NEW r \in Reconcilers, NEW i \in Intents, ReconcilerStep(r, i)
    PROVE  IInv'
BY PollInv, ReportInv, ReconcileApplyInv DEF ReconcilerStep

-----------------------------------------------------------------------------
(* The theorems                                                            *)

LEMMA StutterInv ==
    ASSUME IInv, UNCHANGED vars
    PROVE  IInv'
BY RowsStay DEF vars, orderVars, stockVars, intentVars, IInv, TypeOK, WorkTruthful

LEMMA NextInv == IInv /\ [Next]_vars => IInv'
<1> SUFFICES ASSUME IInv, [Next]_vars PROVE IInv'
  OBVIOUS
<1>1. ASSUME NEW o \in Orders, OrderStep(o) PROVE IInv'
  BY <1>1, OrderStepInv
<1>2. ASSUME NEW i \in Intents, IntentStep(i) PROVE IInv'
  BY <1>2, IntentStepInv
<1>3. ASSUME NEW r \in Reconcilers, FindStuck(r) \/ WorkerCrash(r) PROVE IInv'
  BY <1>3, BatchInv
<1>4. ASSUME NEW r \in Reconcilers, NEW i \in Intents, ReconcilerStep(r, i)
      PROVE IInv'
  BY <1>4, ReconcilerStepInv
<1>5. CASE UNCHANGED vars
  BY <1>5, StutterInv
<1> QED BY <1>1, <1>2, <1>3, <1>4, <1>5 DEF Next

\* The inductive invariant holds in every reachable state.
THEOREM InductiveInvariant == Spec => []IInv
<1>1. Init => IInv
  BY InitInv
<1>2. IInv /\ [Next]_vars => IInv'
  BY NextInv
<1> QED BY <1>1, <1>2, PTL DEF Spec

\* Every variable keeps its type; in particular no bucket of stock is
\* overdrawn.
THEOREM TypeCorrect == Spec => []TypeOK
<1>1. IInv => TypeOK
  BY DEF IInv
<1> QED BY <1>1, InductiveInvariant, PTL

\* A shopper is charged at most once for an order, however many intents were
\* opened for it.
THEOREM OneChargePerOrder == Spec => []ChargedOnce
<1>1. IInv => ChargedOnce
  BY DEF IInv
<1> QED BY <1>1, InductiveInvariant, PTL

\* order.paid is published exactly once for an intent that took money, with
\* any number of webhook deliveries and reconcilers.
THEOREM OnePaidEvent == Spec => []PaidEventOnce
<1>1. IInv => PaidEventOnce
  BY DEF IInv
<1> QED BY <1>1, InductiveInvariant, PTL

\* Money that was taken is captured in the books or belongs to an order that
\* was cancelled, and nothing else is captured.
THEOREM CapturesAccounted == Spec => []CaptureAccounted
<1>1. IInv => CaptureAccounted
  BY DEF IInv
<1> QED BY <1>1, InductiveInvariant, PTL

\* The dedupe key and the effect of a delivery are recorded together, and the
\* status an intent ends in is the gateway's decision.
THEOREM DeliveriesTruthful ==
    Spec => [](DeliveryApplied /\ TruthfulOutcome /\ RepairMatchesAmount)
<1>1. IInv => DeliveryApplied /\ TruthfulOutcome /\ RepairMatchesAmount
  BY DEF IInv
<1> QED BY <1>1, InductiveInvariant, PTL

\* What the books say of a payment is what happened to the money, for any
\* number of orders, intents and reconcilers.
THEOREM OutcomesAreTruthful == Spec => []OutcomesTruthful
<1>1. IInv => OutcomesTruthful
  BY DEF IInv, OutcomesTruthful
<1> QED BY <1>1, InductiveInvariant, PTL

\* The janitor finds every unpaid order by its reservation, and a
\* cash-on-delivery order is not confirmed before its advance is captured.
THEOREM OrdersGuarded ==
    Spec => [](ReservationGuardsOrder /\ AdvanceBeforeConfirm)
<1>1. IInv => ReservationGuardsOrder /\ AdvanceBeforeConfirm
  BY DEF IInv
<1> QED BY <1>1, InductiveInvariant, PTL

-----------------------------------------------------------------------------
(* The goods: every step of an order moves its units from one pile to      *)
(* another, or leaves them where they are.                                 *)

HeldOrders == {o \in Orders : Held(o)}
Shipped == {o \in Orders : order[o] = "fulfilled"}
PlacedOrders == {o \in Orders : order[o] # "none"}

\* At any time finitely many orders have been placed, so that their units can
\* be added up.
StockInv == StockAccounted /\ IsFiniteSet(PlacedOrders)

LEMMA UnitsType ==
    ASSUME IsFiniteSet(PlacedOrders)
    PROVE  /\ IsFiniteSet(HeldOrders) /\ IsFiniteSet(Shipped)
           /\ HeldOrders \in SUBSET Orders /\ Shipped \in SUBSET Orders
           /\ Units(HeldOrders) \in Nat /\ Units(Shipped) \in Nat
<1>1. HeldOrders \in SUBSET PlacedOrders /\ Shipped \in SUBSET PlacedOrders /\ PlacedOrders \in SUBSET Orders
  BY DEF HeldOrders, Shipped, PlacedOrders, Held
<1>2. IsFiniteSet(HeldOrders) /\ IsFiniteSet(Shipped)
  BY <1>1, FS_Subset
<1>3. \A o \in Orders : Qty[o] \in Nat
  OBVIOUS
<1>4. HeldOrders \in SUBSET Orders /\ Shipped \in SUBSET Orders
  BY <1>1
<1> HIDE DEF HeldOrders, Shipped
<1> QED BY <1>2, <1>3, <1>4, SumType DEF Units

\* A set of orders gets one more, or loses one.
LEMMA UnitsOneMore ==
    ASSUME NEW S \in SUBSET Orders, IsFiniteSet(S), NEW o \in Orders, o \notin S
    PROVE  Units(S \cup {o}) = Units(S) + Qty[o]
<1>1. \A p \in S \cup {o} : Qty[p] \in Nat
  OBVIOUS
<1> QED BY <1>1, SumAdd DEF Units

LEMMA UnitsOneLess ==
    ASSUME NEW S \in SUBSET Orders, IsFiniteSet(S), NEW o \in S
    PROVE  Units(S) = Units(S \ {o}) + Qty[o] /\ Units(S \ {o}) \in Nat
<1>1. \A p \in S : Qty[p] \in Nat
  OBVIOUS
<1> QED BY <1>1, SumRemove DEF Units

\* What a step does to the order o and to the two buckets.
GoodsTaken(o) ==
    /\ order[o] = "none" /\ order'[o] \in {"pending", "confirmed"}
    /\ onHand' = onHand - Qty[o] /\ reserved' = reserved + Qty[o]

GoodsFreed(o) ==
    /\ Held(o) /\ order'[o] = "cancelled"
    /\ onHand' = onHand + Qty[o] /\ reserved' = reserved - Qty[o]

GoodsShipped(o) ==
    /\ Held(o) /\ order'[o] = "fulfilled"
    /\ onHand' = onHand /\ reserved' = reserved - Qty[o]

GoodsStay(o) ==
    /\ \/ order'[o] = order[o]
       \/ order[o] = "pending" /\ order'[o] = "confirmed"
    /\ UNCHANGED stockVars

LEMMA StockMoves ==
    ASSUME TypeOK, StockInv, NEW o \in Orders,
           order' \in [Orders -> OrderStatus],
           \A p \in Orders \ {o} : order'[p] = order[p],
           GoodsTaken(o) \/ GoodsFreed(o) \/ GoodsShipped(o) \/ GoodsStay(o)
    PROVE  StockInv'
<1> DEFINE H == HeldOrders
           F == Shipped
<1>q. Qty[o] \in Nat /\ onHand \in Nat /\ reserved \in Nat /\ Stock \in Nat
  BY DEF TypeOK
<1>u. /\ IsFiniteSet(H) /\ IsFiniteSet(F) /\ H \in SUBSET Orders /\ F \in SUBSET Orders
      /\ Units(H) \in Nat /\ Units(F) \in Nat
  BY UnitsType DEF StockInv
<1>i. reserved = Units(H) /\ onHand + reserved + Units(F) = Stock
  BY DEF StockInv, StockAccounted, HeldOrders, Shipped
<1>g. ASSUME NEW h, HeldOrders' = h, NEW f, Shipped' = f,
             reserved' = Units(h), onHand' + reserved' + Units(f) = Stock
      PROVE  StockAccounted'
  BY <1>g DEF StockAccounted, HeldOrders, Shipped, Units
<1>p. IsFiniteSet(PlacedOrders')
  <2>1. PlacedOrders' \in SUBSET (PlacedOrders \cup {o})
    BY DEF PlacedOrders
  <2>2. IsFiniteSet(PlacedOrders \cup {o})
    BY FS_AddElement DEF StockInv
  <2> QED BY <2>1, <2>2, FS_Subset
<1>1. CASE GoodsTaken(o)
  <2>1. o \notin H /\ HeldOrders' = H \cup {o} /\ Shipped' = F
    BY <1>1 DEF GoodsTaken, HeldOrders, Shipped, Held
  <2> HIDE DEF H, F
  <2>2. Units(H \cup {o}) = Units(H) + Qty[o]
    BY <1>u, <2>1, UnitsOneMore
  <2>3. reserved' = Units(H \cup {o}) /\ onHand' + reserved' + Units(F) = Stock
    BY <1>1, <1>q, <1>u, <1>i, <2>2 DEF GoodsTaken
  <2> QED BY <1>g, <1>p, <2>1, <2>3 DEF StockInv
<1>2. CASE GoodsFreed(o)
  <2>1. o \in H /\ HeldOrders' = H \ {o} /\ Shipped' = F
    BY <1>2 DEF GoodsFreed, HeldOrders, Shipped, Held
  <2> HIDE DEF H, F
  <2>2. Units(H) = Units(H \ {o}) + Qty[o] /\ Units(H \ {o}) \in Nat
    BY <1>u, <2>1, UnitsOneLess
  <2>3. reserved' = Units(H \ {o}) /\ onHand' + reserved' + Units(F) = Stock
    BY <1>2, <1>q, <1>u, <1>i, <2>2 DEF GoodsFreed
  <2> QED BY <1>g, <1>p, <2>1, <2>3 DEF StockInv
<1>3. CASE GoodsShipped(o)
  <2>1. o \in H /\ HeldOrders' = H \ {o} /\ o \notin F /\ Shipped' = F \cup {o}
    BY <1>3 DEF GoodsShipped, HeldOrders, Shipped, Held
  <2> HIDE DEF H, F
  <2>2. Units(H) = Units(H \ {o}) + Qty[o] /\ Units(H \ {o}) \in Nat
    BY <1>u, <2>1, UnitsOneLess
  <2>3. Units(F \cup {o}) = Units(F) + Qty[o]
    BY <1>u, <2>1, UnitsOneMore
  <2>4. reserved' = Units(H \ {o}) /\ onHand' + reserved' + Units(F \cup {o}) = Stock
    BY <1>3, <1>q, <1>u, <1>i, <2>2, <2>3 DEF GoodsShipped
  <2> QED BY <1>g, <1>p, <2>1, <2>4 DEF StockInv
<1>4. CASE GoodsStay(o)
  <2>1. HeldOrders' = H /\ Shipped' = F /\ UNCHANGED stockVars
    BY <1>4 DEF GoodsStay, HeldOrders, Shipped, Held
  <2> HIDE DEF H, F
  <2>2. reserved' = Units(H) /\ onHand' + reserved' + Units(F) = Stock
    BY <1>i, <2>1 DEF stockVars
  <2> QED BY <1>g, <1>p, <2>1, <2>2 DEF StockInv
<1> QED BY <1>1, <1>2, <1>3, <1>4

LEMMA StockStays ==
    ASSUME StockInv, UNCHANGED <<order, stockVars>>
    PROVE  StockInv'
BY DEF StockInv, StockAccounted, PlacedOrders, Held, Units, stockVars

LEMMA OrderStepStock ==
    ASSUME IInv, StockInv, NEW o \in Orders, OrderStep(o)
    PROVE  StockInv'
<1>t. TypeOK /\ order \in [Orders -> OrderStatus]
  BY DEF IInv, TypeOK
<1>1. ASSUME NEW t \in Tender \ {"none"}, CreateOrder(o, t)
      PROVE  StockInv'
  <2>1. /\ GoodsTaken(o) /\ order' \in [Orders -> OrderStatus]
        /\ \A p \in Orders \ {o} : order'[p] = order[p]
    BY <1>1, <1>t DEF CreateOrder, GoodsTaken
  <2> QED BY <1>t, <2>1, StockMoves
<1>2. CASE ExpireOrder(o) \/ Cancel(o)
  <2>1. /\ GoodsFreed(o) /\ order' \in [Orders -> OrderStatus]
        /\ \A p \in Orders \ {o} : order'[p] = order[p]
    BY <1>2, <1>t DEF ExpireOrder, Cancel, BeforeFulfilment, GoodsFreed, Held
  <2> QED BY <1>t, <2>1, StockMoves
<1>3. CASE Fulfill(o)
  <2>1. /\ GoodsShipped(o) /\ order' \in [Orders -> OrderStatus]
        /\ \A p \in Orders \ {o} : order'[p] = order[p]
    BY <1>3, <1>t DEF Fulfill, BeforeFulfilment, GoodsShipped, Held
  <2> QED BY <1>t, <2>1, StockMoves
<1>4. CASE Lapse(o) \/ RetireReservation(o)
  BY <1>4, StockStays DEF Lapse, RetireReservation
<1> QED BY <1>1, <1>2, <1>3, <1>4 DEF OrderStep

\* A capture may confirm the order of its intent and moves no goods.
LEMMA CaptureStock ==
    ASSUME IInv, StockInv, NEW i \in Intents, NEW key, Capture(i, key),
           UNCHANGED stockVars
    PROVE  StockInv'
<1> DEFINE o == intentOrder[i]
<1>1. intent[i] = "created" /\ order' = [order EXCEPT ![o] = ConfirmPending(o)]
  BY DEF Capture, NotFinal
<1>2. o \in Orders /\ TypeOK /\ order \in [Orders -> OrderStatus]
  BY <1>1 DEF IInv, IntentShape, TypeOK
<1> HIDE DEF o
<1>3. /\ order' \in [Orders -> OrderStatus]
      /\ \/ order'[o] = order[o]
         \/ order[o] = "pending" /\ order'[o] = "confirmed"
      /\ \A p \in Orders \ {o} : order'[p] = order[p]
  BY <1>1, <1>2 DEF ConfirmPending
<1>4. GoodsStay(o)
  BY <1>3 DEF GoodsStay
<1> QED BY <1>2, <1>3, <1>4, StockMoves

LEMMA NextStock == IInv /\ StockInv /\ [Next]_vars => StockInv'
<1> SUFFICES ASSUME IInv, StockInv, [Next]_vars PROVE StockInv'
  OBVIOUS
<1>1. ASSUME NEW o \in Orders, OrderStep(o)
      PROVE  StockInv'
  BY <1>1, OrderStepStock
<1>2. ASSUME NEW i \in Intents, IntentStep(i)
      PROVE  StockInv'
  <2>1. CASE ApplyWebhook(i)
    BY <2>1, CaptureStock, StockStays DEF ApplyWebhook, AlreadyFinal, CloseFailed, orderVars
  <2>2. CASE ~ApplyWebhook(i)
    BY <1>2, <2>2, StockStays DEF IntentStep, CreateIntent, InsertIntent, RollbackIntent,
           GatewaySettles, orderVars
  <2> QED BY <2>1, <2>2
<1>3. ASSUME NEW r \in Reconcilers, FindStuck(r) \/ WorkerCrash(r)
      PROVE  StockInv'
  BY <1>3, StockStays DEF FindStuck, WorkerCrash, orderVars
<1>4. ASSUME NEW r \in Reconcilers, NEW i \in Intents, ReconcilerStep(r, i)
      PROVE  StockInv'
  <2>1. CASE ReconcileApply(r, i)
    BY <2>1, CaptureStock, StockStays DEF ReconcileApply, AlreadyFinal, CloseFailed, orderVars
  <2>2. CASE ~ReconcileApply(r, i)
    BY <1>4, <2>2, StockStays DEF ReconcilerStep, PollAnswered, PollUnknown, PollLeftAlone,
           ReconcileThrows, Report, ReportFails, orderVars
  <2> QED BY <2>1, <2>2
<1>5. CASE UNCHANGED vars
  BY <1>5, StockStays DEF vars, stockVars
<1> QED BY <1>1, <1>2, <1>3, <1>4, <1>5 DEF Next

\* Whoever wins, a release, an expiry, a fulfilment or a late capture: the
\* reserved bucket holds the goods of the orders that are pending or confirmed
\* and no others, and no unit is lost or made up.
THEOREM GoodsAccounted == Spec => []StockAccounted
<1>1. Init => StockInv
  <2> SUFFICES ASSUME Init PROVE StockInv
    OBVIOUS
  <2>1. HeldOrders = {} /\ Shipped = {} /\ PlacedOrders = {}
    BY DEF Init, HeldOrders, Shipped, PlacedOrders, Held
  <2>2. Units({}) = 0 /\ IsFiniteSet({})
    BY SumEmpty, FS_EmptySet DEF Units
  <2>3. onHand = Stock /\ reserved = 0 /\ Stock \in Nat
    BY DEF Init
  <2> QED BY <2>1, <2>2, <2>3 DEF StockInv, StockAccounted, HeldOrders, Shipped
<1>2. StockInv => StockAccounted
  BY DEF StockInv
<1> QED BY <1>1, <1>2, NextStock, InductiveInvariant, PTL DEF Spec

-----------------------------------------------------------------------------
(* What no step does, and the contract with shopper and stock keeper       *)

\* The effects of applyWebhook on the rows it touches.
LEMMA BranchEffect ==
    ASSUME IInv, NEW i \in Intents, NEW key,
           AlreadyFinal(i, key) \/ CloseFailed(i, key) \/ Capture(i, key)
    PROVE  /\ order' \in [Orders -> OrderStatus]
           /\ intent' \in [Intents -> IntentStatus]
           /\ \A o \in Orders :
                order'[o] # order[o] => order[o] = "pending" /\ order'[o] = "confirmed"
           /\ \A j \in Intents : intent'[j] # intent[j] =>
                j = i /\ intent[i] = "created" /\ intent'[i] \in {"succeeded", "failed"}
           /\ intent'[i] = "succeeded" /\ intent[i] # "succeeded" => Capture(i, key)
<1>1. CASE AlreadyFinal(i, key)
  BY <1>1 DEF AlreadyFinal, orderVars, IInv, TypeOK
<1>2. CASE CloseFailed(i, key)
  BY <1>2 DEF CloseFailed, NotFinal, orderVars, IInv, TypeOK
<1>3. CASE Capture(i, key)
  <2>1. /\ order' \in [Orders -> OrderStatus]
        /\ \A o \in Orders :
             order'[o] # order[o] => order[o] = "pending" /\ order'[o] = "confirmed"
    <3> DEFINE due == intentOrder[i]
    <3>1. /\ order' = [order EXCEPT ![due] = ConfirmPending(due)]
          /\ order \in [Orders -> OrderStatus]
      BY <1>3 DEF Capture, IInv, TypeOK
    <3> HIDE DEF due
    <3> QED BY <3>1 DEF ConfirmPending, OrderStatus
  <2>2. /\ intent' \in [Intents -> IntentStatus]
        /\ intent[i] = "created"
        /\ \A j \in Intents : intent'[j] # intent[j] => j = i /\ intent'[j] = "succeeded"
    BY <1>3 DEF Capture, NotFinal, IInv, TypeOK
  <2> QED BY <1>3, <2>1, <2>2
<1> QED BY <1>1, <1>2, <1>3

NoWayBackStep ==
    /\ \A o \in Orders :
         /\ order[o] \in {"fulfilled", "cancelled"} => order'[o] = order[o]
         /\ order[o] = "confirmed" => order'[o] # "pending"
    /\ \A i \in Intents :
         intent[i] \in {"succeeded", "failed"} => intent'[i] = intent[i]

LEMMA BranchNoWayBack ==
    ASSUME IInv, NEW i \in Intents, NEW key,
           AlreadyFinal(i, key) \/ CloseFailed(i, key) \/ Capture(i, key)
    PROVE  NoWayBackStep
BY BranchEffect DEF NoWayBackStep

LEMMA NextNoWayBack == IInv /\ [Next]_vars => NoWayBackStep
<1> SUFFICES ASSUME IInv, [Next]_vars PROVE NoWayBackStep
  OBVIOUS
<1>1. ASSUME NEW o \in Orders, OrderStep(o) PROVE NoWayBackStep
  <2>1. UNCHANGED intent
    BY <1>1 DEF OrderStep, CreateOrder, Lapse, RetireReservation, ExpireOrder,
                Fulfill, Cancel, intentVars
  <2>2. ASSUME NEW q \in Orders
        PROVE  /\ order[q] \in {"fulfilled", "cancelled"} => order'[q] = order[q]
               /\ order[q] = "confirmed" => order'[q] # "pending"
    <3>1. CASE order' = order
      BY <3>1
    <3>2. CASE \E t \in Tender \ {"none"} : CreateOrder(o, t)
      <4>1. PICK t \in Tender \ {"none"} : CreateOrder(o, t)
        BY <3>2
      <4>2. order[o] = "none" /\ order' = [order EXCEPT ![o] = order'[o]]
        BY <4>1 DEF CreateOrder, IInv, TypeOK
      <4> QED BY <4>2 DEF IInv, TypeOK
    <3>3. CASE ExpireOrder(o) \/ Fulfill(o) \/ Cancel(o)
      BY <3>3 DEF ExpireOrder, Fulfill, Cancel, BeforeFulfilment, IInv, TypeOK
    <3> QED
      BY <1>1, <3>1, <3>2, <3>3 DEF OrderStep, Lapse, RetireReservation
  <2> QED BY <2>1, <2>2 DEF NoWayBackStep
<1>2. ASSUME NEW i \in Intents, IntentStep(i) PROVE NoWayBackStep
  <2>1. ASSUME NEW o \in Orders, CreateIntent(i, o) PROVE NoWayBackStep
    BY <2>1 DEF CreateIntent, NoWayBackStep, orderVars, IInv, TypeOK
  <2>2. CASE InsertIntent(i) \/ RollbackIntent(i)
    BY <2>2 DEF InsertIntent, RollbackIntent, NoWayBackStep, orderVars, IInv, TypeOK
  <2>3. ASSUME NEW result, GatewaySettles(i, result) PROVE NoWayBackStep
    BY <2>3 DEF GatewaySettles, NoWayBackStep, orderVars, intentVars
  <2>4. CASE ApplyWebhook(i)
    BY <2>4, BranchNoWayBack DEF ApplyWebhook
  <2> QED BY <1>2, <2>1, <2>2, <2>3, <2>4 DEF IntentStep
<1>3. ASSUME NEW r \in Reconcilers, FindStuck(r) \/ WorkerCrash(r)
      PROVE NoWayBackStep
  BY <1>3 DEF FindStuck, WorkerCrash, NoWayBackStep, orderVars, intentVars
<1>4. ASSUME NEW r \in Reconcilers, NEW i \in Intents, ReconcilerStep(r, i)
      PROVE NoWayBackStep
  <2>1. CASE ReconcileApply(r, i)
    <3>1. CASE UNCHANGED <<orderVars, intent, delivered, paidEvents>>
      BY <3>1 DEF NoWayBackStep, orderVars
    <3> QED BY <2>1, <3>1, BranchNoWayBack DEF ReconcileApply
  <2>2. CASE UNCHANGED <<orderVars, intentVars>>
    BY <2>2 DEF NoWayBackStep, orderVars, intentVars
  <2> QED
    BY <1>4, <2>1, <2>2 DEF ReconcilerStep, PollAnswered, PollUnknown,
       PollLeftAlone, ReconcileThrows, Report, ReportFails
<1>5. CASE UNCHANGED vars
  BY <1>5 DEF vars, NoWayBackStep
<1> QED BY <1>1, <1>2, <1>3, <1>4, <1>5 DEF Next

\* An order that was handed over or cancelled, and an intent that was closed,
\* stay as they are.
THEOREM NothingReopens == Spec => NoWayBack
<1>1. IInv /\ [Next]_vars => NoWayBackStep
  BY NextNoWayBack
<1> QED
  BY <1>1, InductiveInvariant, PTL DEF Spec, NoWayBack, NoWayBackStep

\* The contract's state is a matter of order, onHand and the intents' status.
LEMMA ContractStutters ==
    ASSUME IInv, UNCHANGED <<order, onHand>>, Charged' = Charged
    PROVE  UNCHANGED Contract!vars
<1>1. GoodsMap' = GoodsMap
  BY DEF GoodsMap, Goods, Held
<1> QED BY <1>1 DEF Contract!vars

LEMMA ChargedStays ==
    ASSUME UNCHANGED <<intent, intentOrder>>
    PROVE  Charged' = Charged
BY DEF Charged

LEMMA CaptureIsCharge ==
    ASSUME IInv, NEW i \in Intents, NEW key, Capture(i, key),
           UNCHANGED <<onHand, intentOrder>>
    PROVE  Contract!Next
<1> DEFINE o == intentOrder[i]
<1> USE DEF Capture, NotFinal
<1>1. o \in Orders /\ order[o] # "none" /\ intent[i] = "created"
  BY DEF IInv, IntentShape, IntentHasPayment
<1>2. GoodsMap' = GoodsMap
  <2>1. ASSUME NEW q \in Orders PROVE Goods(q)' = Goods(q)
    <3>1. order'[q] = order[q] \/ (order[q] = "pending" /\ order'[q] = "confirmed")
      BY DEF ConfirmPending, IInv, TypeOK
    <3> QED BY <3>1 DEF Goods, Held
  <2> QED BY <2>1 DEF GoodsMap
<1>3. GoodsMap[o] # "none"
  BY <1>1 DEF GoodsMap, Goods, Held, IInv, TypeOK
<1>4. o \notin Charged
  BY <1>1 DEF Charged, IInv, ChargedOnce, TypeOK
<1>5. Charged' = Charged \cup {o}
  <2>1. intent' = [intent EXCEPT ![i] = "succeeded"]
    OBVIOUS
  <2> QED BY <1>1, <2>1 DEF Charged, IInv, TypeOK
<1> QED
  BY <1>1, <1>2, <1>3, <1>4, <1>5 DEF Contract!Next, Contract!Charge

\* The other branches charge nobody.
LEMMA ApplyContract ==
    ASSUME IInv, NEW i \in Intents, NEW key,
           AlreadyFinal(i, key) \/ CloseFailed(i, key) \/ Capture(i, key),
           UNCHANGED <<onHand, intentOrder>>
    PROVE  Contract!Next \/ UNCHANGED Contract!vars
<1>1. CASE Capture(i, key)
  BY <1>1, CaptureIsCharge
<1>2. CASE AlreadyFinal(i, key)
  BY <1>2, ContractStutters, ChargedStays DEF AlreadyFinal, orderVars
<1>3. CASE CloseFailed(i, key)
  <2>1. Charged' = Charged
    BY <1>3 DEF CloseFailed, NotFinal, Charged, IInv, TypeOK
  <2> QED BY <1>3, <2>1, ContractStutters DEF CloseFailed, orderVars
<1> QED BY <1>1, <1>2, <1>3

\* Only the goods of the order that changes its status move.
LEMMA GoodsMove ==
    ASSUME IInv, NEW o \in Orders, NEW status \in OrderStatus,
           order' = [order EXCEPT ![o] = status]
    PROVE  /\ GoodsMap[o] = Goods(o)
           /\ GoodsMap' = [GoodsMap EXCEPT ![o] = Goods(o)']
           /\ order'[o] = status
<1>1. order'[o] = status /\ \A q \in Orders \ {o} : order'[q] = order[q]
  BY DEF IInv, TypeOK
<1>2. \A q \in Orders \ {o} : Goods(q)' = Goods(q)
  BY <1>1 DEF Goods, Held
<1> QED BY <1>1, <1>2 DEF GoodsMap

LEMMA OrderStepContract ==
    ASSUME IInv, NEW o \in Orders, OrderStep(o)
    PROVE  Contract!Next \/ UNCHANGED Contract!vars
<1>1. Charged' = Charged
  BY ChargedStays DEF OrderStep, CreateOrder, Lapse, RetireReservation,
                      ExpireOrder, Fulfill, Cancel, intentVars
<1>2. CASE Lapse(o) \/ RetireReservation(o)
  BY <1>1, <1>2, ContractStutters DEF Lapse, RetireReservation, stockVars
<1>3. ASSUME NEW t \in Tender \ {"none"}, CreateOrder(o, t) PROVE Contract!Place(o)
  <2>1. GoodsMap[o] = "none" /\ GoodsMap' = [GoodsMap EXCEPT ![o] = "held"]
    <3>1. PICK status \in {"pending", "confirmed"} :
            order[o] = "none" /\ order' = [order EXCEPT ![o] = status]
      BY <1>3 DEF CreateOrder
    <3> QED BY <3>1, GoodsMove DEF Goods, Held
  <2>2. Qty[o] <= onHand /\ onHand' = onHand - Qty[o]
    BY <1>3 DEF CreateOrder, Covered
  <2> QED BY <1>1, <2>1, <2>2 DEF Contract!Place
<1>4. ASSUME ExpireOrder(o) \/ Cancel(o) PROVE Contract!GiveBack(o)
  <2>1. GoodsMap[o] = "held" /\ GoodsMap' = [GoodsMap EXCEPT ![o] = "back"]
    <3>1. Held(o) /\ order' = [order EXCEPT ![o] = "cancelled"]
      BY <1>4 DEF ExpireOrder, Cancel, BeforeFulfilment, Held
    <3> QED BY <3>1, GoodsMove DEF Goods, Held
  <2>2. onHand' = onHand + Qty[o]
    BY <1>4 DEF ExpireOrder, Cancel
  <2> QED BY <1>1, <2>1, <2>2 DEF Contract!GiveBack
<1>5. ASSUME Fulfill(o) PROVE Contract!HandOver(o)
  <2>1. GoodsMap[o] = "held" /\ GoodsMap' = [GoodsMap EXCEPT ![o] = "gone"]
    <3>1. Held(o) /\ order' = [order EXCEPT ![o] = "fulfilled"]
      BY <1>5 DEF Fulfill, BeforeFulfilment, Held
    <3> QED BY <3>1, GoodsMove DEF Goods, Held
  <2> QED BY <1>1, <1>5, <2>1 DEF Fulfill, Contract!HandOver
<1> QED BY <1>2, <1>3, <1>4, <1>5 DEF OrderStep, Contract!Next

LEMMA IntentStepContract ==
    ASSUME IInv, NEW i \in Intents, IntentStep(i)
    PROVE  Contract!Next \/ UNCHANGED Contract!vars
<1>1. ASSUME NEW o \in Orders, CreateIntent(i, o) PROVE UNCHANGED Contract!vars
  <2>1. Charged' = Charged
    BY <1>1 DEF CreateIntent, Charged, IInv, TypeOK
  <2> QED BY <1>1, <2>1, ContractStutters DEF CreateIntent, orderVars, stockVars
<1>2. CASE InsertIntent(i) \/ RollbackIntent(i)
  <2>1. Charged' = Charged
    BY <1>2 DEF InsertIntent, RollbackIntent, Charged, IInv, TypeOK
  <2> QED
    BY <1>2, <2>1, ContractStutters
       DEF InsertIntent, RollbackIntent, orderVars, stockVars
<1>3. ASSUME NEW result, GatewaySettles(i, result)
      PROVE UNCHANGED Contract!vars
  BY <1>3, ContractStutters, ChargedStays
     DEF GatewaySettles, orderVars, stockVars, intentVars
<1>4. CASE ApplyWebhook(i)
  BY <1>4, ApplyContract DEF ApplyWebhook, stockVars
<1> QED BY <1>1, <1>2, <1>3, <1>4 DEF IntentStep

LEMMA WorkerStepContract ==
    ASSUME IInv, NEW r \in Reconcilers,
           \/ FindStuck(r) \/ WorkerCrash(r)
           \/ \E i \in Intents : ReconcilerStep(r, i)
    PROVE  Contract!Next \/ UNCHANGED Contract!vars
<1>1. CASE UNCHANGED <<orderVars, stockVars, intentVars>>
  BY <1>1, ContractStutters, ChargedStays DEF orderVars, stockVars, intentVars
<1>2. ASSUME NEW i \in Intents, ReconcileApply(r, i)
      PROVE Contract!Next \/ UNCHANGED Contract!vars
  <2>1. CASE UNCHANGED <<orderVars, intent, delivered, paidEvents>>
    BY <1>2, <2>1, ContractStutters, ChargedStays
       DEF ReconcileApply, orderVars, stockVars
  <2> QED BY <1>2, <2>1, ApplyContract DEF ReconcileApply, stockVars
<1> QED
  BY <1>1, <1>2 DEF FindStuck, WorkerCrash, ReconcilerStep, PollAnswered,
     PollUnknown, PollLeftAlone, ReconcileThrows, Report, ReportFails

LEMMA InitContract == Init => Contract!Init
BY DEF Init, Contract!Init, GoodsMap, Goods, Held, Charged

LEMMA NextContract ==
    IInv /\ [Next]_vars => [Contract!Next]_(Contract!vars)
<1> SUFFICES ASSUME IInv, [Next]_vars
             PROVE  Contract!Next \/ UNCHANGED Contract!vars
  OBVIOUS
<1>1. CASE Next
  BY <1>1, OrderStepContract, IntentStepContract, WorkerStepContract DEF Next
<1>2. CASE UNCHANGED vars
  BY <1>2, ContractStutters, ChargedStays DEF vars
<1> QED BY <1>1, <1>2

\* Checkout implements the order contract: whatever webhooks, reconcilers,
\* janitor and staff do to each other, the goods of an order are held from
\* placing to hand-over or give-back, and it is charged at most once.
THEOREM CheckoutKeepsContract == Spec => KeepsContract
<1>1. Init => Contract!Init
  BY InitContract
<1>2. IInv /\ [Next]_vars => [Contract!Next]_(Contract!vars)
  BY NextContract
<1> QED
  BY <1>1, <1>2, InductiveInvariant, PTL DEF Spec, KeepsContract, Contract!Spec
=============================================================================
