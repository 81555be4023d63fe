---------------------------- MODULE Purchasing ----------------------------
(***************************************************************************)
(* One purchase order received by several people at once.  A receipt is    *)
(* three transactions: check the order, take the goods into stock, book    *)
(* them on the order.  Nothing is locked from one to the next, and a crash *)
(* between the last two leaves goods in stock that the order does not know *)
(* (the seam that purchasingService.ts:213 describes).  A request may list *)
(* a line twice, and as serialized a line whose quantity is not the number *)
(* of its scanned units: each entry is checked alone, the order books the  *)
(* quantity of the last one, and stock takes in all of them.               *)
(***************************************************************************)
EXTENDS Naturals, FiniteSets, Sums

CONSTANTS
    Receivers,   \* requests that receive against the order
    Lines,       \* lines of the order
    Serialized,  \* the lines whose pieces are scanned one by one
    Ordered      \* Ordered[l]: ordered_qty

ASSUME PurchasingAssumption ==
    /\ IsFiniteSet(Receivers)
    /\ Lines # {}
    /\ Ordered \in [Lines -> Nat \ {0}]

VARIABLES
    poStatus,    \* purchase_order.status, "none" before it is placed
    booked,      \* booked[l]: received_qty of the line
    taken,       \* taken[l]: stock taken in under the order's number
    lost,        \* lost[l]: taken in by a request that died at the seam
    job,         \* job[r]: how far the request is, what it books and takes in
    overlap,     \* two receipts were under way at once
    crooked      \* lines that booked another number than was taken in

poVars == <<poStatus, booked, taken, lost, job, overlap, crooked>>

Nothing == [l \in Lines |-> 0]

\* What a request books and takes in.  A line may be listed more than once: the
\* last quantity is booked, all of them go into stock.  Of a serialized line the
\* quantity is booked, if one is given, and the scanned units go into stock.
Receipts ==
    {ask \in [take : [Lines -> 0 .. 2], goods : [Lines -> 0 .. 2]] :
        /\ ask.take # Nothing
        /\ \A l \in Lines :
             /\ ask.take[l] = 0 <=> ask.goods[l] = 0
             /\ l \in Serialized \/ ask.take[l] <= ask.goods[l]}

Idle == [pc |-> "idle", take |-> Nothing, goods |-> Nothing, done |-> FALSE]

PoInit ==
    /\ poStatus = "none"
    /\ booked = Nothing
    /\ taken = Nothing
    /\ lost = Nothing
    /\ job = [r \in Receivers |-> Idle]
    /\ overlap = FALSE
    /\ crooked = {}

Plus(f, g) == [l \in Lines |-> f[l] + g[l]]

\* Every purchase order is created placed; the draft stage is skipped.
CreatePurchaseOrder ==
    /\ poStatus = "none"
    /\ poStatus' = "placed"
    /\ UNCHANGED <<booked, taken, lost, job, overlap, crooked>>

\* Mutant: a receipt is compared with the order alone.
FitsAlone(take) == \A l \in Lines : take[l] > 0 => take[l] <= Ordered[l]

\* Every entry of a line is checked against the order as it was read, so a line
\* fits if its last entry does.
Fits(take) == \A l \in Lines : take[l] > 0 => booked[l] + take[l] <= Ordered[l]

\* The first transaction reads the order and checks the quantities.
CheckReceipt(r, ask) ==
    /\ job[r].pc = "idle"
    /\ poStatus \in {"placed", "partially_received"}
    /\ Fits(ask.take)
    /\ job' = [job EXCEPT ![r] = [pc |-> "checked", take |-> ask.take,
                                  goods |-> ask.goods, done |-> FALSE]]
    /\ overlap' = (overlap \/ \E s \in Receivers \ {r} : job[s].pc # "idle")
    /\ UNCHANGED <<poStatus, booked, taken, lost, crooked>>

\* Mutant: the goods are booked before they are in stock.
IntakeSkipped(r) == UNCHANGED taken

Intake(r) == taken' = Plus(taken, job[r].goods)

\* The second one takes the goods into stock, or is refused and ends it.
TakeIn(r) ==
    /\ job[r].pc = "checked"
    /\ \/ /\ Intake(r)
          /\ job' = [job EXCEPT ![r].pc = "stocked"]
       \/ /\ job' = [job EXCEPT ![r] = Idle]
          /\ UNCHANGED taken
    /\ UNCHANGED <<poStatus, booked, lost, overlap, crooked>>

\* The third one updates the lines, whose rows it then holds ...
UpdateLines(r) ==
    /\ job[r].pc = "stocked"
    /\ \A s \in Receivers \ {r}, l \in Lines :
         job[s].pc \in {"lines", "read"} => job[r].take[l] = 0 \/ job[s].take[l] = 0
    /\ job' = [job EXCEPT ![r].pc = "lines"]
    /\ UNCHANGED <<poStatus, booked, taken, lost, overlap, crooked>>

\* Mutant: the order is complete with its first complete line.
AnyComplete(r) == \E l \in Lines : Plus(booked, job[r].take)[l] >= Ordered[l]

Complete(r) == \A l \in Lines : Plus(booked, job[r].take)[l] >= Ordered[l]

\* ... asks whether all lines are complete, seeing its own updates and the
\* committed ones ...
ReadComplete(r) ==
    /\ job[r].pc = "lines"
    /\ job' = [job EXCEPT ![r].pc = "read", ![r].done = Complete(r)]
    /\ UNCHANGED <<poStatus, booked, taken, lost, overlap, crooked>>

\* ... and writes the status it found.
CommitReceipt(r) ==
    /\ job[r].pc = "read"
    /\ booked' = Plus(booked, job[r].take)
    /\ poStatus' = IF job[r].done THEN "received" ELSE "partially_received"
    /\ crooked' = crooked \cup {l \in Lines : job[r].take[l] # job[r].goods[l]}
    /\ job' = [job EXCEPT ![r] = Idle]
    /\ UNCHANGED <<taken, lost, overlap>>

\* The process dies after the goods are in stock; nothing books them later.
ReceiverDies(r) ==
    /\ job[r].pc \in {"stocked", "lines", "read"}
    /\ lost' = Plus(lost, job[r].goods)
    /\ job' = [job EXCEPT ![r] = Idle]
    /\ UNCHANGED <<poStatus, booked, taken, overlap, crooked>>

\* Deaths are bounded by what the order could hold, or stock grows for ever.
MayDie(r) == \A l \in Lines : lost[l] + job[r].goods[l] <= 1

PoNext ==
    \/ CreatePurchaseOrder
    \/ \E r \in Receivers :
         \/ \E ask \in Receipts : CheckReceipt(r, ask)
         \/ TakeIn(r) \/ UpdateLines(r) \/ ReadComplete(r) \/ CommitReceipt(r)
         \/ MayDie(r) /\ ReceiverDies(r)

PoSpec == PoInit /\ [][PoNext]_poVars

-----------------------------------------------------------------------------
(* Properties                                                              *)

PoTypeOK ==
    /\ poStatus \in {"none", "placed", "partially_received", "received"}
    /\ {booked, taken, lost} \subseteq [Lines -> Nat]
    /\ job \in [Receivers -> [pc : {"idle", "checked", "stocked", "lines", "read"},
                              take : [Lines -> 0 .. 2], goods : [Lines -> 0 .. 2],
                              done : BOOLEAN]]
    /\ overlap \in BOOLEAN
    /\ crooked \subseteq Lines

\* Of the line l, what each request has taken in and not yet booked.
Carried(l) ==
    [r \in Receivers |->
        IF job[r].pc \in {"stocked", "lines", "read"} THEN job[r].goods[l] ELSE 0]

InHand(l) == SumOf(Carried(l), Receivers)

\* Of a line that was always booked as it was taken in, the order never claims
\* goods that are not in stock, and stock it does not know of is in the hands
\* of a request or was lost at the seam by one that died
\* (purchasingService.ts:213): the difference can be reconciled.  Of the others
\* it cannot: a line listed twice, or a quantity that is not the number of
\* scanned units, leaves no request and no death to explain it (:258, :265).
StockCoversOrder ==
    \A l \in Lines \ crooked : taken[l] = booked[l] + InHand(l) + lost[l]

\* If receipts are made one after the other, no line books more than was
\* ordered, and the order is closed exactly when its last line is complete.
\* Two at once can exceed the order, or each miss the other's line and leave
\* a complete order open (purchasingService.ts:247, 306).  In all cases the
\* order and the stock differ by what StockCoversOrder allows.
OrderlyReceipts ==
    /\ StockCoversOrder
    /\ ~overlap =>
        /\ \A l \in Lines : booked[l] <= Ordered[l]
        /\ poStatus = "received" <=> (\A l \in Lines : booked[l] >= Ordered[l])

\* What the checks of a receipt promise (OVER_RECEIPT): that an order, received
\* by one request at a time of which none dies, takes in no more than was
\* ordered.  The code does not keep it.
ReceivedWithinOrder ==
    ~overlap /\ lost = Nothing => \A l \in Lines : taken[l] <= Ordered[l]
=============================================================================
