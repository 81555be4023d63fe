----------------------------- MODULE Warehouse -----------------------------
(***************************************************************************)
(* Bins and pick lists over the stock of one variant at one location.  The *)
(* ledger (onHand, heldBack) is the truth; bin quantities are an overlay   *)
(* that putaway, bin moves and picks write and that sales, reservations    *)
(* and transfers ignore.                                                   *)
(***************************************************************************)
EXTENDS Integers, FiniteSets, FiniteSetsExt, Sums

CONSTANTS
    Bins,          \* bins, in walking order 1, 2, ...
    PickOrders,    \* orders that may be picked
    Workers,       \* putaways under way
    MaxReceived,   \* bound on the goods received
    Need           \* quantity of each order

ASSUME WarehouseAssumption ==
    /\ Bins \subseteq Nat \ {0} /\ IsFiniteSet(Bins)
    /\ IsFiniteSet(PickOrders)
    /\ Need \in Nat \ {0}

VARIABLES
    onHand,        \* stock_level on_hand
    heldBack,      \* stock_level reserved
    binQty,        \* bin_stock.quantity
    assigned,      \* bins of bin_assignment
    goods,         \* goods received so far
    putaway,       \* putaway[w]: bin and quantity found to fit
    pickOrder,     \* status of the order and of its reservation
    pick           \* pick_list and its line

whVars == <<onHand, heldBack, binQty, assigned, goods, putaway, pickOrder, pick>>

NoBin == 0
NoPutaway == [bin |-> NoBin, qty |-> 0]
NoPick == [status |-> "none", bin |-> NoBin, picked |-> 0]

Binned == SumOf(binQty, Bins)

WhInit ==
    /\ onHand = 0
    /\ heldBack = 0
    /\ binQty = [b \in Bins |-> 0]
    /\ assigned = {}
    /\ goods = 0
    /\ putaway = [w \in Workers |-> NoPutaway]
    /\ pickOrder = [o \in PickOrders |-> "none"]
    /\ pick = [o \in PickOrders |-> NoPick]

-----------------------------------------------------------------------------
(* The rest of the shop: it moves stock and knows nothing of bins          *)

GoodsIn ==
    /\ goods < MaxReceived
    /\ goods' = goods + 1
    /\ onHand' = onHand + 1
    /\ UNCHANGED <<heldBack, binQty, assigned, putaway, pickOrder, pick>>

SaleOverCounter ==
    /\ onHand > 0
    /\ onHand' = onHand - 1
    /\ UNCHANGED <<heldBack, binQty, assigned, goods, putaway, pickOrder, pick>>

PlacePickOrder(o) ==
    /\ pickOrder[o] = "none"
    /\ onHand >= Need
    /\ onHand' = onHand - Need
    /\ heldBack' = heldBack + Need
    /\ pickOrder' = [pickOrder EXCEPT ![o] = "reserved"]
    /\ UNCHANGED <<binQty, assigned, goods, putaway, pick>>

\* Fulfilled, or cancelled; both look at the order, never at the pick list.
ClosePickOrder(o, status) ==
    /\ pickOrder[o] \in {"reserved", "expired"}
    /\ heldBack' = heldBack - Need
    /\ onHand' = IF status = "cancelled" THEN onHand + Need ELSE onHand
    /\ pickOrder' = [pickOrder EXCEPT ![o] = status]
    /\ UNCHANGED <<binQty, assigned, goods, putaway, pick>>

\* The janitor retires the reservation of a confirmed order; goods stay held.
ReservationLapses(o) ==
    /\ pickOrder[o] = "reserved"
    /\ pickOrder' = [pickOrder EXCEPT ![o] = "expired"]
    /\ UNCHANGED <<onHand, heldBack, binQty, assigned, goods, putaway, pick>>

-----------------------------------------------------------------------------
(* Bins                                                                    *)

AssignBin(b) ==
    /\ assigned' = assigned \cup {b}
    /\ UNCHANGED <<onHand, heldBack, binQty, goods, putaway, pickOrder, pick>>

\* Mutant: putaways of one variant do not wait for each other.
TakesUnlocked(w) == TRUE

\* pg_advisory_xact_lock on tenant, location and variant.
TakesLock(w) == \A x \in Workers : putaway[x] = NoPutaway

\* putaway reads how much of the stock is not binned ...
PutawayRead(w, b, qty) ==
    /\ putaway[w] = NoPutaway
    /\ TakesLock(w)
    /\ qty + Binned <= onHand
    /\ putaway' = [putaway EXCEPT ![w] = [bin |-> b, qty |-> qty]]
    /\ UNCHANGED <<onHand, heldBack, binQty, assigned, goods, pickOrder, pick>>

\* ... and fills the bin, by which time the stock may have been sold.
PutawayWrite(w) ==
    /\ putaway[w] # NoPutaway
    /\ binQty' = [binQty EXCEPT ![putaway[w].bin] = @ + putaway[w].qty]
    /\ putaway' = [putaway EXCEPT ![w] = NoPutaway]
    /\ UNCHANGED <<onHand, heldBack, assigned, goods, pickOrder, pick>>

\* Debit the source or fail, then credit the destination.
MoveBin(from, to, qty) ==
    /\ from # to
    /\ binQty[from] >= qty
    /\ binQty' = [binQty EXCEPT ![from] = @ - qty, ![to] = @ + qty]
    /\ UNCHANGED <<onHand, heldBack, assigned, goods, putaway, pickOrder, pick>>

-----------------------------------------------------------------------------
(* Picking                                                                 *)

FirstOf(bins) == IF bins = {} THEN NoBin ELSE Min(bins)

\* A bin that holds the variant is better than one it is assigned to.
Suggested ==
    LET filled == {b \in Bins : binQty[b] > 0}
    IN  FirstOf(IF filled # {} THEN filled ELSE assigned)

CreatePickList(o) ==
    /\ pickOrder[o] = "reserved"
    /\ pick[o].status = "none"
    /\ pick' = [pick EXCEPT ![o] = [status |-> "open", bin |-> Suggested, picked |-> 0]]
    /\ UNCHANGED <<onHand, heldBack, binQty, assigned, goods, putaway, pickOrder>>

\* Mutant: what is picked is taken out of the bin whether it holds it or not.
LeftUnfloored(b, n) == binQty[b] - n

\* Physical reality wins: a pick is never blocked, the rest came off the floor.
Left(b, n) == IF binQty[b] > n THEN binQty[b] - n ELSE 0

\* Only what is picked beyond the last record leaves the bin.
RecordPick(o, n) ==
    LET b == pick[o].bin
        delta == IF n > pick[o].picked THEN n - pick[o].picked ELSE 0
    IN  /\ pick[o].status = "open"
        /\ pick' = [pick EXCEPT ![o].picked = n]
        /\ binQty' = IF b = NoBin THEN binQty ELSE [binQty EXCEPT ![b] = Left(b, delta)]
        /\ UNCHANGED <<onHand, heldBack, assigned, goods, putaway, pickOrder>>

CompletePickList(o) ==
    /\ pick[o].status = "open"
    /\ pick[o].picked = Need
    /\ pick' = [pick EXCEPT ![o].status = "completed"]
    /\ UNCHANGED <<onHand, heldBack, binQty, assigned, goods, putaway, pickOrder>>

WhNext ==
    \/ GoodsIn \/ SaleOverCounter
    \/ \E o \in PickOrders :
         \/ PlacePickOrder(o)
         \/ \E status \in {"fulfilled", "cancelled"} : ClosePickOrder(o, status)
         \/ ReservationLapses(o) \/ CreatePickList(o) \/ CompletePickList(o)
         \/ \E n \in 0 .. Need : RecordPick(o, n)
    \/ \E b \in Bins : AssignBin(b)
    \/ \E w \in Workers :
         \/ \E b \in Bins, qty \in 1 .. MaxReceived : PutawayRead(w, b, qty)
         \/ PutawayWrite(w)
    \/ \E from, to \in Bins, qty \in 1 .. MaxReceived : MoveBin(from, to, qty)

WhSpec == WhInit /\ [][WhNext]_whVars

-----------------------------------------------------------------------------
(* Properties                                                              *)

WhTypeOK ==
    /\ {onHand, heldBack, goods} \subseteq Nat
    /\ binQty \in [Bins -> Nat]
    /\ assigned \subseteq Bins
    /\ putaway \in [Workers -> [bin : Bins, qty : Nat] \cup {NoPutaway}]
    /\ pickOrder \in
         [PickOrders -> {"none", "reserved", "expired", "fulfilled", "cancelled"}]
    /\ pick \in [PickOrders -> [status : {"none", "open", "completed"},
                                bin : Bins \cup {NoBin}, picked : 0 .. Need]]

\* However many putaways, bin moves and picks run at once, the bins together
\* never claim more than came through the door; what they claim beyond the
\* ledger is stock that was sold or reserved since (wmsService.ts:60, 173).
BinsWithinGoods == Binned <= goods
=============================================================================
