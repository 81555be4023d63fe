---------------------------- MODULE StockLedger ----------------------------
(***************************************************************************)
(* The rules of the stock ledger, shared by everything that moves stock: a *)
(* movement takes a quantity out of one bucket, puts it into another, or   *)
(* both.  The domain class InventoryLedger, the tables stock_movement and  *)
(* stock_level and PgInventoryService.postMovementWith all apply the same  *)
(* arithmetic; they differ only in who refuses a movement first.           *)
(*                                                                         *)
(* Levels are functions [location -> [bucket -> quantity]] of one variant. *)
(***************************************************************************)
EXTENDS Naturals, FiniteSets

Bucket == {"on_hand", "reserved", "in_transit", "damaged", "returned_pending"}

Nowhere == [place |-> "nowhere", bucket |-> "none"]
At(place, bucket) == [place |-> place, bucket |-> bucket]

\* from, to: the buckets a movement of this type may name, {} if the side is
\* forbidden.  sites: whether both sides are one location.
Rule(from, to, sites) == [from |-> from, to |-> to, sites |-> sites]

MovementRules ==
    [receipt          |-> Rule({}, {"on_hand"}, "any"),
     sale             |-> Rule({"on_hand", "reserved"}, {}, "any"),
     return_in        |-> Rule({}, {"returned_pending", "on_hand"}, "any"),
     transfer_out     |-> Rule({"on_hand"}, {"in_transit"}, "different"),
     transfer_in      |-> Rule({"in_transit"}, {"on_hand"}, "same"),
     adjustment       |-> Rule(Bucket, {}, "any"),
     reservation      |-> Rule({"on_hand"}, {"reserved"}, "same"),
     release          |-> Rule({"reserved"}, {"on_hand"}, "same"),
     write_off        |-> Rule({"on_hand", "damaged", "returned_pending"}, {}, "any"),
     count_correction |-> Rule({"on_hand"}, {"on_hand"}, "one_side"),
     repair_out       |-> Rule({"on_hand"}, {"damaged"}, "same"),
     repair_in        |-> Rule({"damaged"}, {"on_hand"}, "same")]

NeedsApproval == {"adjustment", "write_off", "count_correction"}

\* A movement; approved says that it carries the id of an approval.
Movement(type, qty, from, to, approved) ==
    [type |-> type, qty |-> qty, from |-> from, to |-> to, approved |-> approved]

ValidShape(m) ==
    LET rule == MovementRules[m.type]
        Side(ref, allowed) ==
            IF allowed = {} THEN ref = Nowhere
            ELSE ref # Nowhere /\ ref.bucket \in allowed
    IN  /\ m.qty > 0
        /\ IF rule.sites = "one_side"
             THEN /\ (m.from = Nowhere) # (m.to = Nowhere)
                  /\ m.from = Nowhere \/ m.from.bucket \in rule.from
                  /\ m.to = Nowhere \/ m.to.bucket \in rule.to
             ELSE Side(m.from, rule.from) /\ Side(m.to, rule.to)
        /\ rule.sites = "same" => m.from.place = m.to.place
        /\ rule.sites = "different" => m.from.place # m.to.place
        /\ m.type \in NeedsApproval => m.approved

\* The debit must be covered: the CHECK on stock_level, or the ledger's own.
CanPost(level, m) ==
    /\ ValidShape(m)
    /\ m.from # Nowhere => level[m.from.place][m.from.bucket] >= m.qty

Debited(level, m) ==
    IF m.from = Nowhere THEN level
    ELSE [level EXCEPT ![m.from.place][m.from.bucket] = @ - m.qty]

Credited(level, m) ==
    IF m.to = Nowhere THEN level
    ELSE [level EXCEPT ![m.to.place][m.to.bucket] = @ + m.qty]

Posted(level, m) == Credited(Debited(level, m), m)

NoStock(places) == [p \in places |-> [b \in Bucket |-> 0]]

-----------------------------------------------------------------------------
(* The life of a serialized unit (a phone)                                 *)

UnitState == {"inbound", "in_stock", "reserved", "sold", "returned_pending",
              "in_transit", "in_repair", "damaged", "written_off"}

UnitTransitions ==
    [inbound          |-> {"in_stock", "damaged"},
     in_stock         |-> {"reserved", "sold", "in_transit", "in_repair", "damaged"},
     reserved         |-> {"sold", "in_stock"},
     sold             |-> {"returned_pending"},
     returned_pending |-> {"in_stock", "in_repair", "damaged", "written_off"},
     in_transit       |-> {"in_stock", "damaged"},
     in_repair        |-> {"in_stock", "damaged"},
     damaged          |-> {"in_repair", "written_off"},
     written_off      |-> {}]

CanTransition(from, to) == to \in UnitTransitions[from]
=============================================================================
