------------------------------ MODULE CodGate ------------------------------
(***************************************************************************)
(* The gate of cash on delivery (packages/domain/src/codGate.ts with       *)
(* sales/codService.ts): the shop's policy, the counted history of what    *)
(* happened at customers' doors, and the decision on each new order.       *)
(*                                                                         *)
(* An order is placed by the gate's decision of that moment.  Its outcome  *)
(* is recorded by staff or by a courier poll, once, and with or without    *)
(* the customer it belongs to; Checkout and AfterSale model what else an   *)
(* order goes through.                                                     *)
(***************************************************************************)
EXTENDS Integers, FiniteSets

CONSTANTS
    Deliveries,
    Customer,    \* [Deliveries -> customers]
    Value,       \* [Deliveries -> order totals]
    Policies,    \* the policies the shop may set
    Default      \* DEFAULT_COD_POLICY

BasisPoints == 0..10000

CodPolicy == [enabled : BOOLEAN, threshold : Nat, percent : BOOLEAN, percentBp : BasisPoints,
              fixed : Nat, ceiling : 0..100, maximum : Nat]

ASSUME GateAssumption ==
    /\ Value \in [Deliveries -> Nat] /\ IsFiniteSet(Deliveries)
    /\ Default \in CodPolicy /\ Policies \subseteq CodPolicy

VARIABLES
    policy,      \* cod_policy
    placed,      \* [Deliveries -> "no", "pending" or "confirmed"]
    door         \* cod_delivery_outcome: [Deliveries -> [outcome, known customer]]

gateVars == <<policy, placed, door>>

NoCap == 0       \* max_order_minor is NULL
Outcomes == {"delivered", "refused", "undeliverable"}
NoOutcome == [outcome |-> "none", known |-> FALSE]

GateInit ==
    /\ policy = Default
    /\ placed = [o \in Deliveries |-> "no"]
    /\ door = [o \in Deliveries |-> NoOutcome]
-----------------------------------------------------------------------------
(* The decision *)

\* A mistake to compare with: a parcel nobody could deliver is no failure.
RefusalsOnly == {"refused"}

\* What counts against a customer.
Failures == {"refused", "undeliverable"}

Count(c, S) ==
    Cardinality({o \in Deliveries : Customer[o] = c /\ door[o].known /\ door[o].outcome \in S})

\* Math.round of 100 * (failures + 4 * 0.3) / (total + 4), in tenths.
codRiskScore(c) ==
    LET failed == 1000 * Count(c, Failures) + 1200
        among == 10 * (Count(c, Outcomes) + 4)
    IN  (2 * failed + among) \div (2 * among)

\* A mistake to compare with: the advance is not capped.
Uncapped(raw, total) == raw

Capped(raw, total) == IF raw < total THEN raw ELSE total

codAdvanceRequired(total) ==
    IF total <= policy.threshold THEN 0
    ELSE Capped(IF policy.percent THEN (2 * total * policy.percentBp + 10000) \div 20000
                ELSE policy.fixed, total)

\* decideCod: the three grounds of refusal.
Allowed(score, total) ==
    /\ policy.enabled
    /\ policy.maximum = NoCap \/ total <= policy.maximum
    /\ score <= policy.ceiling
-----------------------------------------------------------------------------
(* Operations *)

\* updatePolicy: a patch of one field; several are several patches.
UpdatePolicy(patched) ==
    /\ Cardinality({field \in DOMAIN policy : patched[field] # policy[field]}) = 1
    /\ policy' = patched
    /\ UNCHANGED <<placed, door>>

\* createOrder with cash on delivery: confirmed at once if nothing is owed.
Place(o) ==
    /\ placed[o] = "no"
    /\ Allowed(codRiskScore(Customer[o]), Value[o])
    /\ placed' = [placed EXCEPT ![o] =
                     IF codAdvanceRequired(Value[o]) = 0 THEN "confirmed" ELSE "pending"]
    /\ UNCHANGED <<policy, door>>

\* recordOutcome: the first row of an order stays.
RecordDoor(o, outcome, known) ==
    /\ placed[o] # "no"
    /\ door[o] = NoOutcome
    /\ door' = [door EXCEPT ![o] = [outcome |-> outcome, known |-> known]]
    /\ UNCHANGED <<policy, placed>>

GateNext ==
    \/ \E patched \in Policies : UpdatePolicy(patched)
    \/ \E o \in Deliveries : Place(o) \/ \E x \in Outcomes, known \in BOOLEAN : RecordDoor(o, x, known)

GateSpec == GateInit /\ [][GateNext]_gateVars
-----------------------------------------------------------------------------
(* Properties *)

\* Under every policy that the shop can set: an advance never exceeds the
\* order, a smaller order is never refused where a larger one of the same
\* customer is accepted, and never owes more.  A customer with as many failed
\* deliveries and no more completed ones never scores better than another.
GateConsistent ==
    LET known == {Customer[o] : o \in Deliveries}
        score == [c \in known |-> codRiskScore(c)]
        failed == [c \in known |-> Count(c, {"refused", "undeliverable"})]
        completed == [c \in known |-> Count(c, {"delivered"})]
    IN
    /\ \A o, larger \in Deliveries : Value[o] < Value[larger] =>
          /\ \A c \in known : Allowed(score[c], Value[larger]) => Allowed(score[c], Value[o])
          /\ codAdvanceRequired(Value[o]) <= codAdvanceRequired(Value[larger])
    /\ \A o \in Deliveries : codAdvanceRequired(Value[o]) <= Value[o]
    /\ \A c, d \in known : failed[c] >= failed[d] /\ completed[c] <= completed[d]
          => score[c] \in score[d]..100
=============================================================================
