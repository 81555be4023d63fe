----------------------------- MODULE AfterSale -----------------------------
(***************************************************************************)
(* What happens to a confirmed web order, or to a finished counter sale:   *)
(* staff fulfil it, hand it to a courier and poll the courier, a refund is *)
(* requested by one person and decided by another, a credit note reverses  *)
(* the tax, and the courier may bring the goods back (return to origin,    *)
(* RTO).                                                                   *)
(*                                                                         *)
(* Each transaction is one action, except the refund request: its totals   *)
(* are read by the statement that then waits for the order row, so they    *)
(* may be old when the row is locked, and only the trigger on the refund   *)
(* table adds up again.                                                    *)
(*                                                                         *)
(* One order of one line; a serialized line is one scanned unit.           *)
(***************************************************************************)
EXTENDS Naturals, FiniteSets, Sums

CONSTANTS
    Refunds,       \* refund requests that may be made
    Qty,           \* units on the line, if it is not serialized
    Total,         \* order total
    Advance        \* what a cash-on-delivery order may have paid up front

ASSUME AfterSaleAssumption ==
    /\ IsFiniteSet(Refunds)
    /\ Qty \in Nat \ {0}
    /\ Total \in Nat \ {0}
    /\ Advance \in 1 .. Total

VARIABLES
    sale,        \* what was sold and paid: serialized, cod, captured (fixed)
    order,       \* sales_order.status
    held,        \* units of the order in the reserved bucket
    unit,        \* stock_unit.state of the scanned unit of a serialized line
    returned,    \* returned[p]: units credited by return_in through path p
    shipment,    \* shipment.status, "none" before createShipment
    courier,     \* the courier's own status of the parcel
    freight,     \* round trips added to rto_freight_cost_minor
    outcome,     \* cod_delivery_outcome.outcome, "none" without a row
    refund,      \* status, amount and restock of a refund and its approval
    seen,        \* seen[r]: claims on the order that request r read
    noteOf       \* noteOf[r]: credit notes that name refund r

vars == <<sale, order, held, unit, returned, shipment, courier, freight,
          outcome, refund, seen, noteOf>>

saleVars    == <<sale, held, unit, returned>>
parcelVars  == <<shipment, courier, freight, outcome>>
refundVars  == <<refund, seen, noteOf>>

OrderStatus == {"confirmed", "fulfilled", "completed", "cancelled",
                "returned_to_origin", "partially_refunded", "refunded"}
ShipmentStatus == {"created", "handed_over", "in_transit", "out_for_delivery",
                   "delivered", "failed", "returned"}
DoorOutcome == {"delivered", "refused", "undeliverable"}
RefundStatus == {"none", "reading", "pending", "processed", "rejected"}
Path == {"shipment", "refund"}

LineQty == IF sale.serialized THEN 1 ELSE Qty

NoRefund == [status |-> "none", amount |-> 0, restock |-> 0]

\* A web order when its payment is settled, a counter sale when it is done.
Init ==
    /\ \E s, c \in BOOLEAN, paid \in {0, Advance, Total} :
         /\ paid \in IF c THEN {0, Advance} ELSE {Total}
         /\ sale = [serialized |-> s, cod |-> c, captured |-> paid]
    /\ \/ /\ order = "confirmed"
          /\ held = LineQty
          /\ unit = "in_stock"
       \/ /\ ~sale.cod
          /\ order = "completed"
          /\ held = 0
          /\ unit = IF sale.serialized THEN "sold" ELSE "in_stock"
    /\ returned = [p \in Path |-> 0]
    /\ shipment = "none"
    /\ courier = "none"
    /\ freight = 0
    /\ outcome = "none"
    /\ refund = [r \in Refunds |-> NoRefund]
    /\ seen = [r \in Refunds |-> 0]
    /\ noteOf = [r \in Refunds |-> 0]

-----------------------------------------------------------------------------
(* Fulfilment (the full handlers are in module Checkout)                   *)

Fulfill ==
    /\ order = "confirmed"
    /\ order' = "fulfilled"
    /\ held' = 0
    /\ unit' = IF sale.serialized THEN "sold" ELSE unit
    /\ UNCHANGED <<sale, returned, parcelVars, refundVars>>

Cancel ==
    /\ order = "confirmed"
    /\ order' = "cancelled"
    /\ held' = 0
    /\ UNCHANGED <<sale, unit, returned, parcelVars, refundVars>>

-----------------------------------------------------------------------------
(* Shipping                                                                *)

\* One shipment per order, and only of goods that left the shelf.
CreateShipment ==
    /\ order = "fulfilled"
    /\ shipment = "none"
    /\ shipment' = "created"
    /\ courier' = "created"
    /\ UNCHANGED <<saleVars, order, freight, outcome, refundVars>>

\* The courier (external): scans may be skipped, a failed attempt is tried
\* again, a delivered parcel may be sent back, a returned one stays returned.
CourierMoves(status) ==
    /\ courier \notin {"none", "returned", status}
    /\ courier = "delivered" => status = "returned"
    /\ status \notin {"created", "handed_over"}
    /\ courier' = status
    /\ UNCHANGED <<saleVars, order, shipment, freight, outcome, refundVars>>

\* Mutant: every answer of the courier is taken for news.
AnyNews == courier # "none"

\* Only a status that is not the one on file has effects.
News == courier # shipment

\* The states of an order whose goods may come back.
ShippedStatus == {"confirmed", "fulfilled", "completed"}

\* Mutant: the state of the unit is not looked at.
LineAlways == TRUE

\* A serialized unit that is no longer sold was taken back already; other
\* goods leave no such trace.
StillSold == sale.serialized => unit = "sold"

\* Mutant: the latest report replaces the earlier one.
LastOutcome(o) == IF outcome = o THEN outcome ELSE o

\* Insert, or do nothing if the order has an outcome.
FirstOutcome(o) == IF outcome = "none" THEN o ELSE outcome

ReturnToOrigin ==
    /\ returned' = IF StillSold
                   THEN [returned EXCEPT !["shipment"] = @ + LineQty]
                   ELSE returned
    /\ unit' = IF unit = "sold" THEN "returned_pending" ELSE unit
    /\ order' = IF order \in ShippedStatus THEN "returned_to_origin" ELSE order
    /\ freight' = freight + 1
    /\ outcome' = IF sale.cod THEN FirstOutcome("refused") ELSE outcome

\* A poll, under the lock of the shipment row.
RefreshTracking ==
    /\ shipment # "none"
    /\ News
    /\ shipment' = courier
    /\ \/ courier = "returned" /\ ReturnToOrigin
       \/ /\ courier # "returned"
          /\ order' = IF courier = "delivered" /\ order = "fulfilled"
                      THEN "completed" ELSE order
          /\ UNCHANGED <<returned, unit, freight, outcome>>
    /\ UNCHANGED <<sale, held, courier, refundVars>>

\* Staff record what happened at the door.
RecordOutcome(o) ==
    /\ outcome' = FirstOutcome(o)
    /\ outcome' # outcome
    /\ UNCHANGED <<saleVars, order, shipment, courier, freight, refundVars>>

-----------------------------------------------------------------------------
(* Refunds                                                                 *)

Amounts(S) == SumOf([r \in Refunds |-> refund[r].amount], S)
Claims == {r \in Refunds : refund[r].status \in {"pending", "processed"}}
Processed == {r \in Refunds : refund[r].status = "processed"}

\* Mutant: the trigger is missing.
TriggerMissing(r, amount) == r \in Refunds /\ amount > 0

\* refund_within_capture, under the lock of the order row.
WithinCapture(r, amount) == Amounts(Claims \ {r}) + amount <= sale.captured

\* The statement of requestRefund takes its snapshot.
ReadClaims(r) ==
    /\ refund[r].status = "none"
    /\ refund' = [refund EXCEPT ![r].status = "reading"]
    /\ seen' = [seen EXCEPT ![r] = Amounts(Claims)]
    /\ UNCHANGED <<saleVars, order, parcelVars, noteOf>>

\* The order row is locked; the totals that were read decide, then the
\* trigger.  A request that is refused leaves no row.
RequestRefund(r, amount, restock) ==
    /\ refund[r].status = "reading"
    /\ seen[r] + amount <= sale.captured
    /\ WithinCapture(r, amount)
    /\ refund' = [refund EXCEPT ![r] = [status |-> "pending",
                                        amount |-> amount,
                                        restock |-> restock]]
    /\ UNCHANGED <<saleVars, order, parcelVars, seen, noteOf>>

\* What a request may ask to take back, wherever the goods are: one more than
\* was sold is refused only by ApproveRefund.
RestockQty == 0 .. LineQty + 1

\* ALREADY_DECIDED, under the lock of the approval row.
Undecided(r) == refund[r].status = "pending"

RejectRefund(r) ==
    /\ Undecided(r)
    /\ refund' = [refund EXCEPT ![r].status = "rejected"]
    /\ UNCHANGED <<saleVars, order, parcelVars, seen, noteOf>>

\* Mutant: the order gets the status of the refund.
StatusOfRow(r) == refund[r].status

\* The order's status reflects the refunds processed so far.
RefundedStatus(r) ==
    IF Amounts(Processed \cup {r}) >= Total
    THEN "refunded" ELSE "partially_refunded"

\* Money, goods, order status and credit note in one transaction.  The note
\* credits the goods taken back, or the whole invoice if there are none; more
\* than was invoiced rolls everything back.
ApproveRefund(r) ==
    /\ Undecided(r)
    /\ WithinCapture(r, refund[r].amount)
    /\ refund[r].restock <= LineQty
    /\ refund' = [refund EXCEPT ![r].status = "processed"]
    /\ returned' = [returned EXCEPT !["refund"] = @ + refund[r].restock]
    /\ unit' = IF refund[r].restock > 0 /\ unit = "sold"
               THEN "returned_pending" ELSE unit
    /\ order' = RefundedStatus(r)
    /\ noteOf' = [noteOf EXCEPT ![r] = @ + 1]
    /\ UNCHANGED <<sale, held, parcelVars, seen>>

-----------------------------------------------------------------------------

Next ==
    \/ Fulfill \/ Cancel
    \/ CreateShipment \/ RefreshTracking
    \/ \E status \in ShipmentStatus : CourierMoves(status)
    \/ \E o \in DoorOutcome : RecordOutcome(o)
    \/ \E r \in Refunds :
         \/ ReadClaims(r) \/ RejectRefund(r) \/ ApproveRefund(r)
         \/ \E amount \in 1 .. Total, restock \in RestockQty :
                RequestRefund(r, amount, restock)

Spec == Init /\ [][Next]_vars

-----------------------------------------------------------------------------
(* Properties                                                              *)

TypeOK ==
    /\ sale \in [serialized : BOOLEAN, cod : BOOLEAN, captured : 0 .. Total]
    /\ order \in OrderStatus
    /\ held \in 0 .. Qty
    /\ unit \in {"in_stock", "sold", "returned_pending"}
    /\ returned \in [Path -> Nat]
    /\ shipment \in ShipmentStatus \cup {"none"}
    /\ courier \in ShipmentStatus \cup {"none"}
    /\ freight \in Nat
    /\ outcome \in DoorOutcome \cup {"none"}
    /\ refund \in [Refunds -> [status : RefundStatus, amount : 0 .. Total,
                              restock : 0 .. Qty + 1]]
    /\ seen \in [Refunds -> Nat]
    /\ noteOf \in [Refunds -> Nat]

\* Money that is claimed or paid back never exceeds what was captured, even
\* when several requests read the same total before any of them is written.
RefundsWithinCapture == Amounts(Claims) <= sale.captured

\* A refund that was paid out has its one credit note, and no other refund
\* has any: the money and the tax legs are decided once and together.
OneNotePerRefund ==
    \A r \in Refunds :
        noteOf[r] = IF refund[r].status = "processed" THEN 1 ELSE 0

\* From the first refund on, the order says how much of its total went back,
\* and no delivery, return, fulfilment or cancellation overwrites that.
StatusFollowsMoney ==
    /\ order = "refunded" <=> Amounts(Processed) >= Total
    /\ order = "partially_refunded" <=>
           Processed # {} /\ Amounts(Processed) < Total

\* However often it is polled, a returned parcel is credited and its freight
\* is booked once; and nothing is booked for a parcel that did not return.
ReturnBookedOnce ==
    /\ freight = IF shipment = "returned" THEN 1 ELSE 0
    /\ returned["shipment"] <= LineQty * freight

\* An order whose goods came back is not reported as a success, and a refused
\* cash-on-delivery parcel is in the buyer's history.
ReturnsAreSeen ==
    shipment = "returned" =>
        /\ order \notin {"fulfilled", "completed"}
        /\ sale.cod => outcome # "none"

\* Money, goods and papers of one order agree after any refunds, deliveries
\* and returns.  (RefundService, CreditNoteService, CodService.)
OrderAccounted ==
    /\ RefundsWithinCapture /\ OneNotePerRefund /\ StatusFollowsMoney
    /\ ReturnBookedOnce /\ ReturnsAreSeen

\* A courier return does not credit a serialized unit that came back before,
\* over the counter or with an earlier poll; and what was recorded at the door
\* first is not rewritten by a later poll.  (recordReturnCredit, recordOutcome.)
HistoryStays ==
    [][ /\ sale.serialized /\ returned'["shipment"] > returned["shipment"]
               => returned["refund"] = 0 /\ returned["shipment"] = 0
        /\ outcome # "none" => outcome' = outcome ]_vars

\* What the comment on the unit lifecycle says: a phone never takes a path
\* the ledger would not record.  A unit that was sold is credited to the shop's
\* stock as returned once for the one time that it was sold.  (A request may
\* also name a unit that is still on the shelf; the run is about sold ones.)
UnitMatchesLedger ==
    sale.serialized /\ unit # "in_stock" =>
        returned["shipment"] + returned["refund"]
            = IF unit = "returned_pending" THEN 1 ELSE 0
=============================================================================
