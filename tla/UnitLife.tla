----------------------------- MODULE UnitLife -----------------------------
(***************************************************************************)
(* Serialized units of one variant: received under their IMEIs, reserved   *)
(* by quantity, sold or fulfilled by unit, taken back, transferred between *)
(* two locations and sent to repair.  Most operations change the unit and  *)
(* post a movement in one transaction; nothing but the code keeps the two  *)
(* records in step.  Three do not: the approval of a refund posts a return *)
(* whatever the unit's row says, a count corrects a quantity and no unit,  *)
(* and a repair takes a unit off the returns shelf but its piece off the   *)
(* sales floor.                                                            *)
(***************************************************************************)
EXTENDS StockLedger, Integers

CONSTANTS
    Units,       \* phones that exist
    Places,      \* locations
    Transfers,   \* transfer documents
    MaxDrift     \* bound: pieces a bucket is past its rows, or short of them

ASSUME UnitLifeAssumption ==
    /\ IsFiniteSet(Units)
    /\ MaxDrift \in Nat

VARIABLES
    unit,        \* unit[u]: stock_unit.state and location_id
    unitLevel,   \* stock_level of the variant
    transfer,    \* transfer[t]: status, destination, units of stock_transfer
    drift        \* history: drift[p][b], what movements put into bucket b at
                 \* p that no unit's row went through (less the converse)

unitVars == <<unit, unitLevel, transfer, drift>>

Absent == [state |-> "absent", loc |-> "nowhere"]
NoTransfer == [status |-> "none", to |-> "nowhere", moved |-> {}]

UnitInit ==
    /\ unit = [u \in Units |-> Absent]
    /\ unitLevel = NoStock(Places)
    /\ transfer = [t \in Transfers |-> NoTransfer]
    /\ drift = NoStock(Places)

Known(u) == unit[u] # Absent

\* A movement of one unit, or of n, and its effect on the levels.
Post(m) ==
    /\ CanPost(unitLevel, m)
    /\ unitLevel' = Posted(unitLevel, m)

\* The history after n more than the rows say at one bucket.
Drifted(d, place, bucket, n) == [d EXCEPT ![place][bucket] = @ + n]

Moves(u, state, place) == unit' = [unit EXCEPT ![u] = [state |-> state, loc |-> place]]

-----------------------------------------------------------------------------
(* Receiving                                                               *)

\* Under IMEIs of its own: a unique index per slot refuses a second unit.
ReceiveUnit(u, place) ==
    /\ ~Known(u)
    /\ Moves(u, "in_stock", place)
    /\ Post(Movement("receipt", 1, Nowhere, At(place, "on_hand"), FALSE))
    /\ UNCHANGED <<transfer, drift>>

-----------------------------------------------------------------------------
(* Orders: a web order reserves a quantity, and a unit is named when it is *)
(* fulfilled; a counter sale names its unit at once.                       *)

ReserveOne(place) ==
    /\ Post(Movement("reservation", 1, At(place, "on_hand"), At(place, "reserved"), FALSE))
    /\ UNCHANGED <<unit, transfer, drift>>

ReleaseOne(place) ==
    /\ Post(Movement("release", 1, At(place, "reserved"), At(place, "on_hand"), FALSE))
    /\ UNCHANGED <<unit, transfer, drift>>

SellUnit(u, bucket) ==
    /\ unit[u].state = "in_stock"
    /\ Moves(u, "sold", unit[u].loc)
    /\ Post(Movement("sale", 1, At(unit[u].loc, bucket), Nowhere, FALSE))
    /\ UNCHANGED <<transfer, drift>>

\* A parcel that comes back of a unit that is still sold: a unit that moved on
\* by some other path is left alone.
ReturnToOrigin(u) ==
    /\ unit[u].state = "sold"
    /\ Moves(u, "returned_pending", unit[u].loc)
    /\ Post(Movement("return_in", 1, Nowhere, At(unit[u].loc, "returned_pending"), FALSE))
    /\ UNCHANGED <<transfer, drift>>

\* Mutant: the returned unit's row stays sold.
LeavesSold(u) == unit[u]

\* The row of a unit that comes back: changed only if it is sold, and where it
\* was sold.
TakenBack(u) ==
    IF unit[u].state = "sold" THEN [unit[u] EXCEPT !.state = "returned_pending"] ELSE unit[u]

\* An approved refund of an order of a place lists any unit and any quantity:
\* the row is changed if it was sold, and the return is posted all the same.
RefundUnit(u, place, n) ==
    LET shelf == "returned_pending"
        more == Drifted(drift, place, shelf, n)
    IN  /\ Known(u)
        /\ drift[place][shelf] + n <= MaxDrift
        /\ unit' = [unit EXCEPT ![u] = TakenBack(u)]
        /\ Post(Movement("return_in", n, Nowhere, At(place, shelf), TRUE))
        /\ drift' = IF unit[u].state = "sold" THEN Drifted(more, unit[u].loc, shelf, -1)
                    ELSE more
        /\ UNCHANGED transfer

-----------------------------------------------------------------------------
(* Quantities without units                                                *)

\* A refund that lists the variant and no unit.
RefundQuantity(place, n) ==
    /\ drift[place]["on_hand"] + n <= MaxDrift
    /\ Post(Movement("return_in", n, Nowhere, At(place, "on_hand"), TRUE))
    /\ drift' = Drifted(drift, place, "on_hand", n)
    /\ UNCHANGED <<unit, transfer>>

\* An approved count of the variant: adjustments refuse serialized stock,
\* counts do not.
CountMore(place, n) ==
    /\ drift[place]["on_hand"] + n <= MaxDrift
    /\ Post(Movement("count_correction", n, Nowhere, At(place, "on_hand"), TRUE))
    /\ drift' = Drifted(drift, place, "on_hand", n)
    /\ UNCHANGED <<unit, transfer>>

CountLess(place, n) ==
    /\ drift[place]["on_hand"] - n >= -MaxDrift
    /\ Post(Movement("count_correction", n, At(place, "on_hand"), Nowhere, TRUE))
    /\ drift' = Drifted(drift, place, "on_hand", -n)
    /\ UNCHANGED <<unit, transfer>>

-----------------------------------------------------------------------------
(* Transfers                                                               *)

\* Mutant: the dispatched unit keeps its origin as location.
DispatchedUnitStays(u, to) == [state |-> "in_transit", loc |-> unit[u].loc]

\* Location follows the ledger.
DispatchedUnit(u, to) == [state |-> "in_transit", loc |-> to]

DispatchTransfer(t, from, to, us) ==
    LET m == Movement("transfer_out", Cardinality(us),
                      At(from, "on_hand"), At(to, "in_transit"), FALSE)
    IN  /\ transfer[t].status = "none"
        /\ from # to
        /\ us # {}
        /\ \A u \in us : unit[u] = [state |-> "in_stock", loc |-> from]
        /\ unit' = [u \in Units |-> IF u \in us THEN DispatchedUnit(u, to) ELSE unit[u]]
        /\ Post(m)
        /\ transfer' = [transfer EXCEPT ![t] = [status |-> "dispatched", to |-> to, moved |-> us]]
        /\ UNCHANGED drift

\* The units are read back from the dispatch movements.
ReceiveTransfer(t) ==
    LET to == transfer[t].to
        Lands(u) == u \in transfer[t].moved /\ unit[u].state = "in_transit"
    IN  /\ transfer[t].status = "dispatched"
        /\ unit' = [u \in Units |-> IF Lands(u) THEN [state |-> "in_stock", loc |-> to]
                                    ELSE unit[u]]
        /\ Post(Movement("transfer_in", Cardinality(transfer[t].moved),
                         At(to, "in_transit"), At(to, "on_hand"), FALSE))
        /\ transfer' = [transfer EXCEPT ![t].status = "received"]
        /\ UNCHANGED drift

-----------------------------------------------------------------------------
(* Repair                                                                  *)

\* Allowed wherever the transition map has an edge to in_repair, which
\* includes a unit on the returns shelf; the movement leaves on_hand anyway.
RepairOut(u) ==
    LET here == unit[u].loc
        shelf == unit[u].state
        less == Drifted(drift, here, "on_hand", -1)
    IN  /\ Known(u)
        /\ CanTransition(shelf, "in_repair")
        /\ Moves(u, "in_repair", here)
        /\ Post(Movement("repair_out", 1, At(here, "on_hand"), At(here, "damaged"), FALSE))
        /\ \/ shelf = "in_stock" /\ UNCHANGED drift
           \/ /\ shelf # "in_stock"
              /\ drift[here][shelf] < MaxDrift /\ drift[here]["on_hand"] > -MaxDrift
              /\ drift' = Drifted(less, here, shelf, 1)
        /\ UNCHANGED transfer

\* Mutant: any unit the map lets into stock is taken for a repaired one.
RepairedLoose(u) == Known(u) /\ CanTransition(unit[u].state, "in_stock")

Repaired(u) ==
    /\ Known(u)
    /\ CanTransition(unit[u].state, "in_stock")
    /\ unit[u].state = "in_repair"

RepairIn(u) ==
    LET here == unit[u].loc
    IN  /\ Repaired(u)
        /\ Moves(u, "in_stock", here)
        /\ Post(Movement("repair_in", 1, At(here, "damaged"), At(here, "on_hand"), FALSE))
        /\ UNCHANGED <<transfer, drift>>

UnitNext ==
    \/ \E u \in Units :
         \/ \E p \in Places : ReceiveUnit(u, p)
         \/ \E bucket \in {"on_hand", "reserved"} : SellUnit(u, bucket)
         \/ ReturnToOrigin(u)
         \/ \E p \in Places, n \in 1..MaxDrift : RefundUnit(u, p, n)
         \/ RepairOut(u)
         \/ RepairIn(u)
    \/ \E p \in Places : ReserveOne(p) \/ ReleaseOne(p)
    \/ \E p \in Places, n \in 1..MaxDrift :
         RefundQuantity(p, n) \/ CountMore(p, n) \/ CountLess(p, n)
    \/ \E t \in Transfers :
         \/ \E from, to \in Places, us \in SUBSET Units : DispatchTransfer(t, from, to, us)
         \/ ReceiveTransfer(t)

UnitSpec == UnitInit /\ [][UnitNext]_unitVars

-----------------------------------------------------------------------------
(* Properties                                                              *)

UnitTypeOK ==
    /\ unit \in [Units -> [state : UnitState, loc : Places] \cup {Absent}]
    /\ unitLevel \in [Places -> [Bucket -> Nat]]
    /\ transfer \in [Transfers -> [status : {"none", "dispatched", "received"},
                                   to : Places \cup {"nowhere"}, moved : SUBSET Units]]
    /\ drift \in [Places -> [Bucket -> Int]]

InState(place, states) ==
    Cardinality({u \in Units : unit[u].loc = place /\ unit[u].state \in states})

\* What the ledger holds at a place against the units there, bucket by bucket.
Agree(place) ==
    LET more == drift[place]
    IN  /\ unitLevel[place]["on_hand"] + unitLevel[place]["reserved"]
             = InState(place, {"in_stock"}) + more["on_hand"]
        /\ unitLevel[place]["in_transit"] = InState(place, {"in_transit"}) + more["in_transit"]
        /\ unitLevel[place]["damaged"]
             = InState(place, {"in_repair", "damaged"}) + more["damaged"]
        /\ unitLevel[place]["returned_pending"]
             = InState(place, {"returned_pending"}) + more["returned_pending"]

\* Nothing drifts but the shelves that refunds, counts and repairs touch.
DriftKnown == \A p \in Places : drift[p]["in_transit"] = 0 /\ drift[p]["damaged"] = 0

\* At every location each bucket holds the phones whose rows say so, plus what
\* exactly three operations put there past the rows: the approval of a refund
\* that lists a unit which is not sold, or not sold there, or a quantity; a
\* count; a repair straight from the returns shelf (refundService.ts:266-288
\* and :226, unitService.ts:46-68).  Transfers, sales, returns to origin and
\* repairs of stock keep the two records in step whatever those have left.
UnitsMatchLedger == DriftKnown /\ \A p \in Places : Agree(p)
=============================================================================
