----------------------------- MODULE StockRoom -----------------------------
(***************************************************************************)
(* Stock of a variant that is counted, not scanned: receipts, sales,       *)
(* transfers, blind cycle counts and adjustments, with the approvals that  *)
(* stand between a member of staff and the ledger.  shelf is what is       *)
(* really there; the code never reads it except when somebody counts.      *)
(***************************************************************************)
EXTENDS StockLedger, Integers, FiniteSetsExt

CONSTANTS
    Counts,        \* cycle counts that may be made
    Adjustments,   \* adjustments that may be requested
    MaxStock,      \* bound on the stock received
    Shop, Depot    \* the two locations; counts and sales are at the shop

ASSUME StockRoomAssumption ==
    /\ IsFiniteSet(Counts)
    /\ IsFiniteSet(Adjustments)
    /\ MaxStock \in Nat
    /\ Shop # Depot

VARIABLES
    level,         \* stock_level of the variant
    shelf,         \* what really is on the shop's shelf
    onWay,         \* quantity of the dispatched transfer, 0 without one
    count,         \* stock_count and its line
    entry,         \* entry[c]: a counted quantity on its way to the server
    adjustment,    \* an adjustment's approval and its movement
    received       \* stock received so far

roomVars == <<level, shelf, onWay, count, entry, adjustment, received>>

Staff == {"cashier", "keeper", "manager", "owner"}
Adjusters == {"keeper", "manager", "owner"}
Approvers == {"manager", "owner"}

\* What somebody counted, and (history) the ledger and its error at that time.
Tally(qty, booked, gap) == [qty |-> qty, booked |-> booked, gap |-> gap]
Uncounted == Tally(0 - 1, 0, 0)

NoCount == [status |-> "none", expected |-> 0, counted |-> Uncounted, delta |-> 0]
NoAdjustment == [status |-> "none", by |-> "none", approver |-> "none", qty |-> 0,
                 from |-> "on_hand", posts |-> 0]

\* How far the ledger is from the truth.
Gap == shelf - level[Shop]["on_hand"]

RoomInit ==
    /\ level = NoStock({Shop, Depot})
    /\ shelf = 0
    /\ onWay = 0
    /\ count = [c \in Counts |-> NoCount]
    /\ entry = [c \in Counts |-> Uncounted]
    /\ adjustment = [a \in Adjustments |-> NoAdjustment]
    /\ received = 0

PostRoom(m) ==
    /\ CanPost(level, m)
    /\ level' = Posted(level, m)

OnShelf == At(Shop, "on_hand")

-----------------------------------------------------------------------------
(* Receipts, sales, transfers and theft                                    *)

Receive ==
    /\ received < MaxStock
    /\ PostRoom(Movement("receipt", 1, Nowhere, OnShelf, FALSE))
    /\ shelf' = shelf + 1
    /\ received' = received + 1
    /\ UNCHANGED <<onWay, count, entry, adjustment>>

Sell ==
    /\ shelf > 0
    /\ PostRoom(Movement("sale", 1, OnShelf, Nowhere, FALSE))
    /\ shelf' = shelf - 1
    /\ UNCHANGED <<onWay, count, entry, adjustment, received>>

\* Nobody books a theft; only a count or an adjustment does.
Steal ==
    /\ shelf > 0
    /\ shelf' = shelf - 1
    /\ UNCHANGED <<level, onWay, count, entry, adjustment, received>>

DispatchBulk(qty) ==
    /\ onWay = 0
    /\ qty <= shelf
    /\ PostRoom(Movement("transfer_out", qty, OnShelf, At(Depot, "in_transit"), FALSE))
    /\ shelf' = shelf - qty
    /\ onWay' = qty
    /\ UNCHANGED <<count, entry, adjustment, received>>

ReceiveBulk ==
    /\ PostRoom(Movement("transfer_in", onWay, At(Depot, "in_transit"),
                         At(Depot, "on_hand"), FALSE))
    /\ onWay' = 0
    /\ UNCHANGED <<shelf, count, entry, adjustment, received>>

-----------------------------------------------------------------------------
(* Cycle counts                                                            *)

ExpectedNow == level[Shop]["on_hand"]

CreateCount(c) ==
    /\ count[c].status = "none"
    /\ count' = [count EXCEPT ![c] = [status |-> "open", expected |-> ExpectedNow,
                                    counted |-> Uncounted, delta |-> 0]]
    /\ UNCHANGED <<level, shelf, onWay, entry, adjustment, received>>

\* recordCounts reads the status of the count without a lock ...
RecordCheck(c) ==
    /\ count[c].status = "open"
    /\ entry[c] = Uncounted
    /\ entry' = [entry EXCEPT ![c] = Tally(shelf, level[Shop]["on_hand"], Gap)]
    /\ UNCHANGED <<level, shelf, onWay, count, adjustment, received>>

\* ... and writes the line later, whatever has become of the count.
RecordWrite(c) ==
    /\ entry[c] # Uncounted
    /\ count' = [count EXCEPT ![c].counted = entry[c]]
    /\ entry' = [entry EXCEPT ![c] = Uncounted]
    /\ UNCHANGED <<level, shelf, onWay, adjustment, received>>

\* A count without variance is posted at once, any other needs an approval.
SubmitCount(c) ==
    LET delta == count[c].counted.qty - count[c].expected
    IN  /\ count[c].status = "open"
        /\ count[c].counted # Uncounted
        /\ count' = [count EXCEPT ![c].delta = delta,
                                  ![c].status = IF delta = 0 THEN "posted" ELSE "review"]
        /\ UNCHANGED <<level, shelf, onWay, entry, adjustment, received>>

\* Mutant: a shortage is booked like an overage.
CorrectionUnsigned(delta) ==
    Movement("count_correction", IF delta > 0 THEN delta ELSE 0 - delta, Nowhere, OnShelf, TRUE)

Correction(delta) ==
    IF delta > 0 THEN Movement("count_correction", delta, Nowhere, OnShelf, TRUE)
                 ELSE Movement("count_correction", 0 - delta, OnShelf, Nowhere, TRUE)

\* An approval that the ledger refuses is rolled back and stays pending.
ApproveCount(c) ==
    /\ count[c].status = "review"
    /\ PostRoom(Correction(count[c].delta))
    /\ count' = [count EXCEPT ![c].status = "posted"]
    /\ UNCHANGED <<shelf, onWay, entry, adjustment, received>>

\* A rejected count stays in review for good.
RejectCount(c) ==
    /\ count[c].status = "review"
    /\ count' = [count EXCEPT ![c].status = "review_rejected"]
    /\ UNCHANGED <<level, shelf, onWay, entry, adjustment, received>>

-----------------------------------------------------------------------------
(* Adjustments: requested by one person, decided by another, then posted   *)

RequestAdjustment(a, who, qty, from) ==
    /\ who \in Adjusters
    /\ adjustment[a].status = "none"
    /\ adjustment' = [adjustment EXCEPT ![a] =
                        [status |-> "pending", by |-> who, approver |-> "none",
                         qty |-> qty, from |-> from, posts |-> 0]]
    /\ UNCHANGED <<level, shelf, onWay, count, entry, received>>

MayDecide(who, by) == who \in Approvers /\ who # by

DecideAdjustment(a, who, verdict) ==
    /\ adjustment[a].status = "pending"
    /\ MayDecide(who, adjustment[a].by)
    /\ adjustment' = [adjustment EXCEPT ![a].status = verdict, ![a].approver = who]
    /\ UNCHANGED <<level, shelf, onWay, count, entry, received>>

\* Mutant: the search for an earlier movement of the approval is missing.
SpendableTwice(a) == adjustment[a].status = "approved"

Spendable(a) ==
    /\ adjustment[a].status = "approved"
    /\ adjustment[a].approver # adjustment[a].by
    /\ adjustment[a].posts = 0

\* The approval is the whole instruction; booking it changes no real goods.
PostAdjustment(a, who) ==
    /\ who \in Adjusters
    /\ Spendable(a)
    /\ PostRoom(Movement("adjustment", adjustment[a].qty,
                         At(Shop, adjustment[a].from), Nowhere, TRUE))
    /\ adjustment' = [adjustment EXCEPT ![a].posts = @ + 1]
    /\ UNCHANGED <<shelf, onWay, count, entry, received>>

RoomNext ==
    \/ Receive \/ Sell \/ Steal \/ ReceiveBulk
    \/ \E qty \in 1 .. MaxStock : DispatchBulk(qty)
    \/ \E c \in Counts :
         \/ CreateCount(c) \/ RecordCheck(c) \/ RecordWrite(c)
         \/ SubmitCount(c) \/ ApproveCount(c) \/ RejectCount(c)
    \/ \E a \in Adjustments, who \in Staff :
         \/ \E qty \in 1 .. MaxStock, from \in {"on_hand", "damaged", "returned_pending"} :
              RequestAdjustment(a, who, qty, from)
         \/ \E verdict \in {"approved", "rejected"} : DecideAdjustment(a, who, verdict)
         \/ PostAdjustment(a, who)

RoomSpec == RoomInit /\ [][RoomNext]_roomVars

-----------------------------------------------------------------------------
(* Properties                                                              *)

RoomTypeOK ==
    /\ level \in [{Shop, Depot} -> [Bucket -> Nat]]
    /\ shelf \in 0 .. MaxStock
    /\ onWay \in 0 .. MaxStock
    /\ \A c \in Counts :
         /\ count[c].status \in {"none", "open", "review", "posted", "review_rejected"}
         /\ entry[c].qty \in 0 - 1 .. MaxStock
    /\ \A a \in Adjustments : adjustment[a].status \in {"none", "pending", "approved", "rejected"}
    /\ received \in 0 .. MaxStock

\* What a count found missing or extra is what its approval corrects, no more
\* and no less, as long as nothing was booked between the snapshot and the
\* count (opsService.ts:306, refundService.ts:229): the gap between ledger and
\* shelf shrinks by the gap there was when the shelf was counted.
CountClosesGap ==
    [][\A c \in Counts :
         /\ count[c].status = "review"
         /\ count'[c].status = "posted"
         /\ count[c].counted.booked = count[c].expected
         /\ count[c].delta = count[c].counted.qty - count[c].expected
         => Gap' = Gap - count[c].counted.gap]_roomVars

\* Stock that left the books as an adjustment was asked for by one person and
\* signed off by another with the rank to do it, once and in that quantity;
\* everything else that left was sold, moved or counted away
\* (opsService.ts:561, 029_adjustment_reasons.sql:74).
LossesSignedOff ==
    \A a \in Adjustments : adjustment[a].posts > 0 =>
        /\ adjustment[a].posts = 1
        /\ adjustment[a].status = "approved"
        /\ adjustment[a].by \in Adjusters
        /\ adjustment[a].approver \in Approvers \ {adjustment[a].by}
=============================================================================
