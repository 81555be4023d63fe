----------------------------- MODULE OpsProofs ------------------------------
(* What TLAPS proves of what stands beside the sales: the gate of cash on  *)
(* delivery, rate limits and budgets, the product events and their         *)
(* funnels, the audit trail, the reports of failures and the migrations.   *)
EXTENDS CodGate, Limits, EventLog, AuditTrail, ErrorReports, Migrations, SumLemmas

-----------------------------------------------------------------------------
(* The gate of cash on delivery                                            *)

\* The policy is one the settings accept, whoever updates it.
GateInv == policy \in CodPolicy

\* The numbers of a policy.
LEMMA PolicyNumbers ==
    ASSUME GateInv
    PROVE  /\ policy.percentBp \in Nat /\ policy.fixed \in Nat
           /\ policy.threshold \in Nat /\ policy.maximum \in Nat
<1>1. policy \in CodPolicy
  BY DEF GateInv
<1>2. BasisPoints \subseteq Nat
  BY DEF BasisPoints
<1>3. policy.percentBp \in BasisPoints
  BY ONLY <1>1 DEF CodPolicy
<1>4. policy.fixed \in Nat
  BY ONLY <1>1 DEF CodPolicy
<1>5. policy.threshold \in Nat
  BY ONLY <1>1 DEF CodPolicy
<1>6. policy.maximum \in Nat
  BY ONLY <1>1 DEF CodPolicy
<1> QED BY <1>2, <1>3, <1>4, <1>5, <1>6

\* The gate starts with the default policy.
LEMMA GateStarts == ASSUME GateInit PROVE GateInv
BY GateAssumption DEF GateInit, GateInv

\* No update, order or door makes the policy another kind of thing.
LEMMA GateKeeps == ASSUME GateInv, GateNext PROVE GateInv'
BY GateAssumption DEF GateInv, GateNext, UpdatePolicy, Place, RecordDoor

\* The part of the order that is asked for in advance is at most the order.
LEMMA AdvanceBounded ==
    ASSUME GateInv, NEW total \in Nat
    PROVE  codAdvanceRequired(total) \in Nat /\ codAdvanceRequired(total) <= total
<1>1. policy.percentBp \in Nat /\ policy.fixed \in Nat /\ policy.threshold \in Nat
  BY PolicyNumbers
<1>2. (2 * total * policy.percentBp + 10000) \div 20000 \in Nat
  <2>1. 2 * total * policy.percentBp + 10000 \in Nat
    BY <1>1
  <2> QED BY <2>1, Quotient
<1>3. ASSUME NEW raw \in Nat PROVE Capped(raw, total) \in Nat /\ Capped(raw, total) <= total
  BY DEF Capped
<1> QED BY <1>1, <1>2, <1>3 DEF codAdvanceRequired

\* A larger order is asked for no less.
LEMMA AdvanceInOrder ==
    ASSUME GateInv, NEW total \in Nat, NEW larger \in Nat, total <= larger
    PROVE  codAdvanceRequired(total) <= codAdvanceRequired(larger)
<1> DEFINE raw(t) == IF policy.percent THEN (2 * t * policy.percentBp + 10000) \div 20000
                     ELSE policy.fixed
<1>1. policy.percentBp \in Nat /\ policy.fixed \in Nat /\ policy.threshold \in Nat
  BY PolicyNumbers
<1>2. raw(total) \in Nat /\ raw(larger) \in Nat /\ raw(total) <= raw(larger)
  <2> DEFINE x == 2 * total * policy.percentBp + 10000
             y == 2 * larger * policy.percentBp + 10000
  <2>1. x \in Nat /\ y \in Nat
    BY <1>1
  <2>2. x <= y
    <3>1. (2 * total) * policy.percentBp <= (2 * larger) * policy.percentBp
      BY <1>1, ProductInOrder
    <3> QED BY <1>1, <3>1
  <2>3. x \div 20000 \in Nat /\ y \div 20000 \in Nat /\ x \div 20000 <= y \div 20000
    <3> HIDE DEF x, y
    <3> QED BY <2>1, <2>2
  <2> QED BY <1>1, <2>3
<1>3. \A t \in Nat : codAdvanceRequired(t) = IF t <= policy.threshold THEN 0 ELSE Capped(raw(t), t)
  BY DEF codAdvanceRequired
<1> HIDE DEF raw
<1> QED BY <1>1, <1>2, <1>3 DEF Capped

\* What went wrong and what went well make up what happened at the doors.
LEMMA OutcomesCounted ==
    ASSUME NEW c
    PROVE  /\ Count(c, Failures) \in Nat /\ Count(c, {"delivered"}) \in Nat
           /\ Count(c, Outcomes) = Count(c, Failures) + Count(c, {"delivered"})
<1> DEFINE of(S) == {o \in Deliveries : Customer[o] = c /\ door[o].known /\ door[o].outcome \in S}
<1>1. \A S : IsFiniteSet(of(S)) /\ Cardinality(of(S)) \in Nat
  BY GateAssumption, FS_Subset, FS_CardinalityType
<1>2. of(Outcomes) = of(Failures) \cup of({"delivered"})
  BY DEF Outcomes, Failures
<1>3. of(Failures) \cap of({"delivered"}) = {}
  BY DEF Failures
<1>4. Cardinality(of(Failures) \cap of({"delivered"})) = 0
  BY <1>3, FS_EmptySet
<1>5. Cardinality(of(Failures) \cup of({"delivered"}))
         = Cardinality(of(Failures)) + Cardinality(of({"delivered"}))
           - Cardinality(of(Failures) \cap of({"delivered"}))
  BY <1>1, FS_Union
<1>6. \A S : Count(c, S) = Cardinality(of(S))
  BY DEF Count
<1> DEFINE failed == Cardinality(of(Failures))
           completed == Cardinality(of({"delivered"}))
<1>7. failed \in Nat /\ completed \in Nat
  BY <1>1
<1>8. Count(c, Failures) = failed /\ Count(c, {"delivered"}) = completed
  BY <1>6
<1>9. Count(c, Outcomes) = failed + completed - 0
  BY <1>2, <1>4, <1>5, <1>6
<1> HIDE DEF failed, completed, of
<1> QED BY <1>7, <1>8, <1>9

\* More failures and no more completed deliveries never make a better score.
LEMMA ScoresInOrder ==
    ASSUME NEW c, NEW d, Count(c, Failures) >= Count(d, Failures),
           Count(c, {"delivered"}) <= Count(d, {"delivered"})
    PROVE  codRiskScore(c) \in codRiskScore(d) .. 100
<1> DEFINE failed(x) == 1000 * Count(x, Failures) + 1200
           among(x) == 10 * (Count(x, Outcomes) + 4)
<1>1. \A x \in {c, d} : failed(x) \in Nat /\ among(x) \in Nat \ {0}
  BY OutcomesCounted
<1>2. failed(d) * among(c) <= failed(c) * among(d)
  <2> DEFINE e == Count(c, Failures)
             f == Count(d, Failures)
             g == Count(c, {"delivered"})
             h == Count(d, {"delivered"})
  <2>1. e \in Nat /\ f \in Nat /\ g \in Nat /\ h \in Nat /\ f <= e /\ g <= h
    BY OutcomesCounted
  <2>2. failed(c) = 1000 * e + 1200 /\ failed(d) = 1000 * f + 1200
    OBVIOUS
  <2>3. among(c) = 10 * (e + g + 4) /\ among(d) = 10 * (f + h + 4)
    BY OutcomesCounted
  <2> HIDE DEF failed, among, e, f, g, h
  <2>4. (1000 * f + 1200) * (10 * (e + g + 4)) <= (1000 * e + 1200) * (10 * (f + h + 4))
    <3>1. f * g <= e * h
      <4>1. f * g <= e * g
        BY <2>1, ProductInOrder
      <4>2. g * e <= h * e
        BY <2>1, ProductInOrder
      <4> QED BY <2>1, <4>1, <4>2
    <3> QED BY <2>1, <3>1
  <2> QED BY <2>2, <2>3, <2>4
<1>3. failed(c) * 1 <= 100 * among(c)
  BY OutcomesCounted
<1>4. \A x \in {c, d} : codRiskScore(x) = (2 * failed(x) + among(x)) \div (2 * among(x))
  BY DEF codRiskScore
<1> HIDE DEF failed, among
<1>5. codRiskScore(d) <= codRiskScore(c)
  BY <1>1, <1>2, <1>4, RoundedInOrder
<1>6. codRiskScore(c) <= 100
  <2>1. (2 * failed(c) + among(c)) \div (2 * among(c)) <= (2 * 100 + 1) \div (2 * 1)
    BY ONLY <1>1, <1>3, RoundedInOrder
  <2> QED BY <1>4, <2>1
<1>7. codRiskScore(c) \in Nat /\ codRiskScore(d) \in Nat
  <2>1. \A x \in {c, d} : 2 * failed(x) + among(x) \in Nat /\ 2 * among(x) \in Nat \ {0}
    BY <1>1
  <2> QED BY <1>4, <2>1, Quotient
<1> QED BY <1>5, <1>6, <1>7

\* Under any accepted policy the gate is consistent.
LEMMA GateFollows == ASSUME GateInv PROVE GateConsistent
<1>1. \A o \in Deliveries : Value[o] \in Nat
  BY GateAssumption
<1>2. ASSUME NEW o \in Deliveries, NEW larger \in Deliveries, Value[o] < Value[larger], NEW n
      PROVE  Allowed(n, Value[larger]) => Allowed(n, Value[o])
  <2>1. policy.maximum \in Nat /\ Value[o] \in Nat /\ Value[larger] \in Nat
    BY <1>1, PolicyNumbers
  <2> QED BY <1>2, <2>1 DEF Allowed
<1>3. ASSUME NEW o \in Deliveries, NEW larger \in Deliveries, Value[o] < Value[larger]
      PROVE  codAdvanceRequired(Value[o]) <= codAdvanceRequired(Value[larger])
  BY <1>1, <1>3, AdvanceInOrder
<1>4. \A o \in Deliveries : codAdvanceRequired(Value[o]) <= Value[o]
  BY <1>1, AdvanceBounded
<1>5. \A c, d : Count(c, Failures) >= Count(d, Failures) /\ Count(c, {"delivered"}) <= Count(d, {"delivered"})
           => codRiskScore(c) \in codRiskScore(d) .. 100
  BY ScoresInOrder
<1>6. Failures = {"refused", "undeliverable"}
  BY DEF Failures
<1> QED BY <1>2, <1>3, <1>4, <1>5, <1>6 DEF GateConsistent

\* Whatever the policy, the orders and what happened at the doors: a larger
\* order is never allowed where a smaller one is refused nor asked for less in
\* advance, and the risk score follows the failures (codGate.ts).
THEOREM GateHolds == GateSpec => []GateConsistent
<1>1. GateInit => GateInv
  BY GateStarts
<1>2. GateInv /\ [GateNext]_gateVars => GateInv'
  BY GateKeeps DEF gateVars, GateInv
<1>3. GateInv => GateConsistent
  BY GateFollows
<1> QED BY <1>1, <1>2, <1>3, PTL DEF GateSpec

-----------------------------------------------------------------------------
(* Rate limits and the budget of the assistant                             *)

\* The callers that share bucket k, and their requests of a time.
Sharing(k) == {c \in Callers : bucketKey(c) = k}
Requests(k, from, to) == Sharing(k) \X (Clock \cap from .. to)

\* Requests that found bucket k, by the record f of what was served.
Between(f, k, from, to) == SumOf(f, Requests(k, from, to))

Counts == [Callers \X Clock -> Nat]

\* They are finitely many.
LEMMA AreaFinite ==
    ASSUME NEW k, NEW from \in Int, NEW to \in Int
    PROVE  IsFiniteSet(Requests(k, from, to)) /\ Requests(k, from, to) \subseteq Callers \X Clock
<1>1. IsFiniteSet(Callers)
  <2>1. IsFiniteSet(Staff \cup Webhooks)
    BY LimitsAssumption, FS_Union
  <2> QED BY <2>1, LimitsAssumption, FS_Union DEF Callers
<1>2. IsFiniteSet(Sharing(k)) /\ Sharing(k) \subseteq Callers
  BY <1>1, FS_Subset DEF Sharing
<1>3. IsFiniteSet(Clock)
  <2>1. 0 \in Int /\ MaxTime \in Int
    BY LimitsAssumption
  <2> QED BY <2>1, FS_Interval DEF Clock
<1>4. IsFiniteSet(Clock \cap from .. to)
  BY <1>3, FS_Subset
<1> QED BY <1>2, <1>4, FS_Product DEF Requests

\* How many they were is a number.
LEMMA BetweenType ==
    ASSUME NEW f \in Counts, NEW k, NEW from \in Int, NEW to \in Int
    PROVE  Between(f, k, from, to) \in Nat
<1>1. \A p \in Requests(k, from, to) : f[p] \in Nat
  BY AreaFinite DEF Counts
<1> QED BY <1>1, AreaFinite, SumType DEF Between

\* A longer time has seen no less.
LEMMA BetweenWider ==
    ASSUME NEW f \in Counts, NEW k, NEW from \in Int, NEW to \in Int,
           NEW earlier \in Int, NEW later \in Int, earlier <= from, to <= later
    PROVE  Between(f, k, from, to) <= Between(f, k, earlier, later)
<1>1. from .. to \subseteq earlier .. later
  OBVIOUS
<1>2. Requests(k, from, to) \in SUBSET Requests(k, earlier, later)
  BY <1>1 DEF Requests
<1>3. \A p \in Requests(k, earlier, later) : f[p] \in Nat
  BY AreaFinite DEF Counts
<1>4. IsFiniteSet(Requests(k, earlier, later))
  BY AreaFinite
<1> QED BY <1>2, <1>3, <1>4, SumSubset DEF Between

\* A time is made up of its parts.
LEMMA BetweenSplit ==
    ASSUME NEW f \in Counts, NEW k, NEW from \in Int, NEW mid \in Int, NEW to \in Int,
           from <= mid, mid <= to + 1
    PROVE  Between(f, k, from, to) = Between(f, k, from, mid - 1) + Between(f, k, mid, to)
<1> DEFINE A == Requests(k, from, mid - 1)
           B == Requests(k, mid, to)
<1>1. from .. to = (from .. mid - 1) \cup (mid .. to)
  OBVIOUS
<1>2. (from .. mid - 1) \cap (mid .. to) = {}
  OBVIOUS
<1>3. Requests(k, from, to) = A \cup B /\ A \cap B = {}
  BY <1>1, <1>2 DEF Requests
<1>4. IsFiniteSet(A) /\ IsFiniteSet(B)
  BY AreaFinite
<1>5. \A p \in A \cup B : f[p] \in Nat
  BY AreaFinite DEF Counts
<1> HIDE DEF A, B
<1>6. SumOf(f, A \cup B) = SumOf(f, A) + SumOf(f, B)
  BY <1>3, <1>4, <1>5, SumUnion
<1> QED BY <1>3, <1>6 DEF Between, A, B

\* Nothing served since is a sum of nothing.
LEMMA BetweenNothing ==
    ASSUME NEW f \in Counts, NEW k, NEW from \in Int, NEW to \in Int,
           \A c \in Sharing(k), t \in Clock : t >= from => f[<<c, t>>] = 0
    PROVE  Between(f, k, from, to) = 0
<1>1. \A p \in Requests(k, from, to) : f[p] \in Nat /\ f[p] = 0
  BY AreaFinite DEF Counts, Requests, Clock
<1> QED BY <1>1, AreaFinite, SumZero DEF Between

\* Record g has one request of caller c at time t more than record f.
Counted(f, g, c, t) ==
    \A k : \A from, to \in Int :
        /\ k = bucketKey(c) /\ from <= t /\ t <= to
             => Between(g, k, from, to) = Between(f, k, from, to) + 1
        /\ ~(k = bucketKey(c) /\ from <= t /\ t <= to)
             => Between(g, k, from, to) = Between(f, k, from, to)

\* One more request is one more in every time that holds it.
LEMMA RequestCounted ==
    ASSUME NEW f \in Counts, NEW c \in Callers, NEW t \in Clock,
           NEW g, g = [f EXCEPT ![<<c, t>>] = @ + 1]
    PROVE  g \in Counts /\ Counted(f, g, c, t)
<1>0. g \in Counts
  BY DEF Counts
<1> SUFFICES ASSUME NEW k, NEW from \in Int, NEW to \in Int
             PROVE  /\ k = bucketKey(c) /\ from <= t /\ t <= to
                         => Between(g, k, from, to) = Between(f, k, from, to) + 1
                    /\ ~(k = bucketKey(c) /\ from <= t /\ t <= to)
                         => Between(g, k, from, to) = Between(f, k, from, to)
  BY <1>0, Zenon DEF Counted
<1> DEFINE x == <<c, t>>
           A == Requests(k, from, to)
<1>1. x \in Callers \X Clock
  OBVIOUS
<1>2. /\ g \in Counts /\ g[x] = f[x] + 1
      /\ \A y \in Callers \X Clock : y # x => g[y] = f[y]
  BY <1>1 DEF Counts
<1>3. IsFiniteSet(A) /\ A \subseteq Callers \X Clock
  BY AreaFinite
<1>4. \A y \in A : f[y] \in Nat /\ g[y] \in Nat
  BY <1>2, <1>3 DEF Counts
<1>5. x \in A <=> k = bucketKey(c) /\ from <= t /\ t <= to
  BY DEF Requests, Sharing, Clock
<1> HIDE DEF x, A
<1>6. CASE x \in A
  <2>1. SumOf(g, A) + f[x] = SumOf(f, A) + g[x]
    <3>1. \A y \in A \ {x} : f[y] = g[y]
      BY <1>2, <1>3
    <3> QED BY ONLY <1>3, <1>4, <1>6, <3>1, SumChange
  <2>2. SumOf(f, A) \in Nat /\ SumOf(g, A) \in Nat /\ f[x] \in Nat
    BY ONLY <1>3, <1>4, <1>6, SumType
  <2>3. SumOf(g, A) = SumOf(f, A) + 1
    BY <1>2, <2>1, <2>2
  <2> QED BY <1>2, <1>5, <1>6, <2>3 DEF Between, A
<1>7. CASE x \notin A
  <2>1. \A y \in A : f[y] = g[y]
    BY <1>2, <1>3, <1>7
  <2>2. SumOf(f, A) = SumOf(g, A)
    BY <2>1, SumSame
  <2> QED BY <1>2, <1>5, <1>7, <2>2 DEF Between, A
<1> QED BY <1>6, <1>7

LimitsTypes ==
    /\ now \in Clock
    /\ bucket \in [Keys -> [tokens : Nat, resetAt : Nat]]
    /\ served \in Counts
    /\ denied \subseteq Callers \X Clock

\* What was served since the last renewal and what is left make up the limit;
\* and in the period that ends with that renewal no more than the limit was
\* served before it.
BucketSound(k) ==
    LET b == bucket[k]
        since == b.resetAt - Period
    IN  /\ b.tokens <= RequestLimit[k.kind]
        /\ b.resetAt <= now + Period
        /\ \A c \in Sharing(k), t \in Clock : t >= b.resetAt \/ t > now => served[<<c, t>>] = 0
        /\ b.resetAt > 0 =>
             /\ Between(served, k, since, b.resetAt - 1) + b.tokens = RequestLimit[k.kind]
             /\ Between(served, k, since - Period + 1, since - 1) <= RequestLimit[k.kind]

WindowsBounded(k) ==
    \A t \in Clock : Between(served, k, t, t + Period - 1) <= 2 * RequestLimit[k.kind]

DenialsJust ==
    \A r \in denied :
        Between(served, bucketKey(r[1]), r[2] - Period + 1, r[2]) >= RequestLimit[Kind(r[1])]

LimitsInv ==
    /\ LimitsTypes
    /\ \A k \in Keys : BucketSound(k) /\ WindowsBounded(k)
    /\ DenialsJust

\* Every caller has a bucket, of its kind.
LEMMA KeysAre ==
    ASSUME NEW c \in Callers
    PROVE  bucketKey(c) \in Keys /\ bucketKey(c).kind = Kind(c)
BY DEF Keys, bucketKey

\* And every bucket has a limit.
LEMMA LimitsAre == \A k \in Keys : RequestLimit[k.kind] \in Nat \ {0}
<1>1. \A c \in Callers : bucketKey(c).kind \in {"webhook", "auth", "ip"}
  BY DEF bucketKey, Kind
<1>2. \A n \in {"webhook", "auth", "ip"} : RequestLimit[n] \in Nat \ {0}
  BY LimitsAssumption DEF RequestLimit
<1> QED BY <1>1, <1>2 DEF Keys

\* At first nothing was served.
LEMMA LimitsStart == ASSUME LimitsInit PROVE LimitsInv
<1>1. 0 \in Clock
  BY LimitsAssumption DEF Clock
<1>2. LimitsTypes
  BY <1>1 DEF LimitsInit, LimitsTypes, Counts
<1>3. \A c \in Callers, t \in Clock : served[<<c, t>>] = 0
  BY DEF LimitsInit
<1>4. ASSUME NEW k \in Keys PROVE BucketSound(k) /\ WindowsBounded(k)
  <2>1. bucket[k] = [tokens |-> 0, resetAt |-> 0] /\ now = 0
    BY DEF LimitsInit
  <2>2. BucketSound(k)
    BY <1>3, <2>1, LimitsAre, LimitsAssumption DEF BucketSound, Sharing
  <2>3. ASSUME NEW t \in Clock PROVE Between(served, k, t, t + Period - 1) = 0
    <3>1. t \in Int /\ t + Period - 1 \in Int
      BY LimitsAssumption DEF Clock
    <3>2. \A c \in Sharing(k), u \in Clock : u >= t => served[<<c, u>>] = 0
      BY <1>3 DEF Sharing
    <3>3. served \in Counts
      BY <1>2 DEF LimitsTypes
    <3> QED BY ONLY <3>1, <3>2, <3>3, BetweenNothing
  <2>4. RequestLimit[k.kind] \in Nat
    BY LimitsAre
  <2> QED BY <2>2, <2>3, <2>4 DEF WindowsBounded
<1>5. DenialsJust
  BY DEF LimitsInit, DenialsJust
<1> QED BY <1>2, <1>4, <1>5 DEF LimitsInv

\* A period around a moment n that lies between one renewal and the next, at
\* r - Period and r, has seen at most the limit before the former and since.
LEMMA WindowBounded ==
    ASSUME NEW f \in Counts, NEW k, NEW r \in Int, NEW n \in Int, NEW limit \in Nat,
           NEW t \in Int, n < r, r - Period <= n, t <= n, n <= t + Period - 1,
           \A c \in Sharing(k), u \in Clock : u >= r => f[<<c, u>>] = 0,
           Between(f, k, r - Period, r - 1) <= limit,
           Between(f, k, r - Period - Period + 1, r - Period - 1) <= limit
    PROVE  Between(f, k, t, t + Period - 1) <= 2 * limit
<1> DEFINE since == r - Period
           to == t + Period - 1
<1>1. since \in Int /\ to \in Int /\ Period \in Nat \ {0}
  BY LimitsAssumption
<1>2. CASE t <= since
  <2>1. Between(f, k, t, to) = Between(f, k, t, since - 1) + Between(f, k, since, to)
    <3>1. since <= to + 1
      BY <1>1
    <3> HIDE DEF since, to
    <3> QED BY <1>1, <1>2, <3>1, BetweenSplit
  <2>2. Between(f, k, t, since - 1) <= limit
    <3>1. since - Period + 1 <= t
      BY <1>1
    <3>2. Between(f, k, t, since - 1) <= Between(f, k, since - Period + 1, since - 1)
      <4> HIDE DEF since, to
      <4> QED BY <1>1, <3>1, BetweenWider
    <3>3. /\ Between(f, k, t, since - 1) \in Nat
          /\ Between(f, k, since - Period + 1, since - 1) \in Nat
      <4> HIDE DEF since, to
      <4> QED BY <1>1, BetweenType
    <3> QED BY <3>2, <3>3
  <2>3. Between(f, k, since, to) <= limit
    <3>1. to <= r - 1
      BY <1>1, <1>2
    <3>2. Between(f, k, since, to) <= Between(f, k, since, r - 1)
      <4> HIDE DEF since, to
      <4> QED BY <1>1, <3>1, BetweenWider
    <3>3. Between(f, k, since, to) \in Nat /\ Between(f, k, since, r - 1) \in Nat
      <4> HIDE DEF since, to
      <4> QED BY <1>1, BetweenType
    <3> QED BY <3>2, <3>3
  <2>4. Between(f, k, t, since - 1) \in Nat /\ Between(f, k, since, to) \in Nat
    <3> HIDE DEF since, to
    <3> QED BY <1>1, BetweenType
  <2> QED BY <2>1, <2>2, <2>3, <2>4
<1>3. CASE since < t
  <2>1. Between(f, k, t, to) = Between(f, k, t, r - 1) + Between(f, k, r, to)
    <3>1. t <= r /\ r <= to + 1
      BY <1>1, <1>3
    <3> HIDE DEF since, to
    <3> QED BY <1>1, <3>1, BetweenSplit
  <2>2. Between(f, k, r, to) = 0
    <3> HIDE DEF to
    <3> QED BY <1>1, BetweenNothing
  <2>3. Between(f, k, t, r - 1) <= Between(f, k, since, r - 1)
    <3> HIDE DEF since, to
    <3> QED BY <1>1, <1>3, BetweenWider
  <2>4. Between(f, k, t, r - 1) \in Nat /\ Between(f, k, since, r - 1) \in Nat
    <3> HIDE DEF since, to
    <3> QED BY <1>1, BetweenType
  <2> QED BY <2>1, <2>2, <2>3, <2>4
<1> QED BY <1>1, <1>2, <1>3

\* The bucket a request finds: it was renewed less than a period ago, what was
\* served since is the rest of its limit, and nothing lies ahead.
FoundSound(k, b) ==
    LET since == b.resetAt - Period
        limit == RequestLimit[k.kind]
    IN  /\ b.tokens \in Nat /\ b.tokens <= limit
        /\ b.resetAt \in Nat /\ since <= now /\ now < b.resetAt
        /\ \A c \in Sharing(k), t \in Clock : t > now => served[<<c, t>>] = 0
        /\ Between(served, k, since, b.resetAt - 1) + b.tokens = limit
        /\ Between(served, k, since - Period + 1, since - 1) <= limit

\* What rateLimit finds is sound, whether it renews the bucket or not.
LEMMA RenewedFound ==
    ASSUME LimitsInv, NEW k \in Keys
    PROVE  FoundSound(k, Renewed(k))
<1> DEFINE r == bucket[k].resetAt
           limit == RequestLimit[k.kind]
<1>1. /\ now \in Int /\ now \in Nat /\ r \in Nat /\ bucket[k].tokens \in Nat
      /\ served \in Counts /\ Period \in Nat \ {0} /\ limit \in Nat \ {0}
  BY LimitsAre, LimitsAssumption DEF LimitsInv, LimitsTypes, Clock
<1>2. BucketSound(k)
  BY DEF LimitsInv
<1>3. CASE now < r
  <2>1. Renewed(k) = bucket[k]
    BY <1>1, <1>3 DEF Renewed
  <2> QED BY <1>1, <1>2, <1>3, <2>1 DEF FoundSound, BucketSound
<1>4. CASE r <= now
  <2>1. Renewed(k) = [tokens |-> limit, resetAt |-> now + Period]
    BY <1>4 DEF Renewed
  <2>2. \A c \in Sharing(k), t \in Clock : t >= r => served[<<c, t>>] = 0
    BY <1>2 DEF BucketSound
  <2>3. Between(served, k, now, now + Period - 1) = 0
    <3>1. \A c \in Sharing(k), t \in Clock : t >= now => served[<<c, t>>] = 0
      BY <1>1, <1>4, <2>2 DEF Clock
    <3>2. now \in Int /\ now + Period - 1 \in Int
      BY <1>1
    <3> QED BY ONLY <1>1, <3>1, <3>2, BetweenNothing
  <2>4. Between(served, k, now - Period + 1, now - 1) <= limit
    <3> DEFINE from == now - Period + 1
    <3>1. from \in Int /\ now - 1 \in Int
      BY <1>1
    <3>2. CASE r = 0
      <4>1. \A c \in Sharing(k), t \in Clock : t >= from => served[<<c, t>>] = 0
        BY <2>2, <3>2 DEF Clock
      <4>2. Between(served, k, from, now - 1) = 0
        <5> HIDE DEF from
        <5> QED BY ONLY <1>1, <3>1, <4>1, BetweenNothing
      <4> QED BY <1>1, <4>2
    <3>3. CASE r # 0
      <4> DEFINE since == r - Period
      <4>1. since \in Int /\ since <= from /\ since <= r /\ r <= now
        BY <1>1, <1>4
      <4>2. Between(served, k, from, now - 1) <= Between(served, k, since, now - 1)
        <5> HIDE DEF since, from
        <5> QED BY <1>1, <3>1, <4>1, BetweenWider
      <4>3. Between(served, k, since, now - 1)
               = Between(served, k, since, r - 1) + Between(served, k, r, now - 1)
        <5> HIDE DEF since
        <5> QED BY <1>1, <4>1, BetweenSplit
      <4>4. Between(served, k, r, now - 1) = 0
        BY <1>1, <2>2, <3>1, BetweenNothing
      <4>5. Between(served, k, since, r - 1) + bucket[k].tokens = limit
        BY <1>1, <1>2, <3>3 DEF BucketSound
      <4>6. /\ Between(served, k, since, r - 1) \in Nat
            /\ Between(served, k, from, now - 1) \in Nat
            /\ Between(served, k, since, now - 1) \in Nat
        <5> HIDE DEF since, from
        <5> QED BY <1>1, <3>1, <4>1, BetweenType
      <4> HIDE DEF since, from, limit
      <4> QED BY <1>1, <4>2, <4>3, <4>4, <4>5, <4>6 DEF from
    <3> QED BY <3>2, <3>3
  <2>5. \A c \in Sharing(k), t \in Clock : t > now => served[<<c, t>>] = 0
    BY <1>2 DEF BucketSound
  <2>6. now + Period - Period = now
    BY <1>1
  <2> HIDE DEF limit
  <2> QED BY <1>1, <2>1, <2>3, <2>4, <2>5, <2>6 DEF FoundSound, limit
<1> QED BY <1>1, <1>3, <1>4

\* A request that is served takes one token.
LEMMA RequestKeeps ==
    ASSUME LimitsInv, NEW c \in Callers, Request(c)
    PROVE  LimitsInv'
<1> DEFINE key == bucketKey(c)
           b == Renewed(key)
           left == b.tokens - 1
           r == b.resetAt
           since == r - Period
           limit == RequestLimit[key.kind]
<1>1. /\ b.tokens > 0
      /\ bucket' = [bucket EXCEPT ![key] = [b EXCEPT !.tokens = @ - 1]]
      /\ served' = [served EXCEPT ![<<c, now>>] = @ + 1]
      /\ now' = now /\ denied' = denied
  BY Zenon DEF Request
<1>2. /\ key \in Keys /\ key.kind = Kind(c) /\ limit \in Nat \ {0}
      /\ now \in Clock /\ now \in Nat /\ served \in Counts /\ Period \in Nat \ {0}
  BY KeysAre, LimitsAre, LimitsAssumption DEF LimitsInv, LimitsTypes, Clock
<1>3. FoundSound(key, b)
  BY <1>2, RenewedFound
<1>4. b = [tokens |-> b.tokens, resetAt |-> r]
  BY <1>2 DEF Renewed, LimitsInv, LimitsTypes
<1>5. /\ bucket' = [bucket EXCEPT ![key] = [tokens |-> left, resetAt |-> r]]
      /\ left \in Nat /\ left <= limit /\ r \in Nat
  <2>1. [b EXCEPT !.tokens = @ - 1] = [tokens |-> left, resetAt |-> r]
    BY <1>4
  <2>2. left \in Nat /\ left <= limit /\ r \in Nat
    BY <1>1, <1>2, <1>3 DEF FoundSound
  <2> HIDE DEF b, left, r, key, limit
  <2> QED BY <1>1, <2>1, <2>2
<1> HIDE DEF b, left, r, key, limit
<1>6. served' \in Counts /\ Counted(served, served', c, now)
  <2>1. served' = [served EXCEPT ![<<c, now>>] = @ + 1] /\ served \in Counts /\ now \in Clock
    BY <1>1, <1>2
  <2> QED BY ONLY c \in Callers, <2>1, RequestCounted
<1>7. \A k : \A from, to \in Int :
        /\ k = key /\ from <= now /\ now <= to
             => Between(served', k, from, to) = Between(served, k, from, to) + 1
        /\ ~(k = key /\ from <= now /\ now <= to)
             => Between(served', k, from, to) = Between(served, k, from, to)
  BY <1>6, Zenon DEF Counted, key
<1>8. LimitsTypes'
  <2>1. [tokens |-> left, resetAt |-> r] \in [tokens : Nat, resetAt : Nat]
    BY <1>5
  <2>2. bucket' \in [Keys -> [tokens : Nat, resetAt : Nat]]
    BY <1>2, <1>5, <2>1 DEF LimitsInv, LimitsTypes
  <2> QED BY <1>1, <1>2, <1>6, <2>2 DEF LimitsInv, LimitsTypes
<1>9. \A k \in Keys : \A d \in Sharing(k), t \in Clock :
        k # key \/ t # now => served'[<<d, t>>] = served[<<d, t>>]
  BY <1>1, <1>2 DEF Sharing, key, Counts
<1>10. ASSUME NEW k \in Keys, k # key PROVE BucketSound(k)' /\ WindowsBounded(k)'
  <2>1. bucket'[k] = bucket[k]
    BY <1>5, <1>10 DEF LimitsInv, LimitsTypes
  <2>5. bucket[k].resetAt \in Nat
    BY DEF LimitsInv, LimitsTypes
  <2>2. \A from \in Int, to \in Int : Between(served', k, from, to) = Between(served, k, from, to)
    BY <1>7, <1>10
  <2>3. BucketSound(k)'
    <3>1. /\ bucket[k].tokens <= RequestLimit[k.kind] /\ bucket[k].resetAt <= now + Period
          /\ \A d \in Sharing(k), t \in Clock : t >= bucket[k].resetAt \/ t > now => served[<<d, t>>] = 0
          /\ bucket[k].resetAt > 0 =>
               /\ Between(served, k, bucket[k].resetAt - Period, bucket[k].resetAt - 1)
                     + bucket[k].tokens = RequestLimit[k.kind]
               /\ Between(served, k, bucket[k].resetAt - Period - Period + 1,
                                     bucket[k].resetAt - Period - 1) <= RequestLimit[k.kind]
      BY DEF LimitsInv, BucketSound
    <3>2. \A d \in Sharing(k), t \in Clock : served'[<<d, t>>] = served[<<d, t>>]
      BY <1>9, <1>10
    <3>3. /\ Between(served', k, bucket[k].resetAt - Period, bucket[k].resetAt - 1)
                 = Between(served, k, bucket[k].resetAt - Period, bucket[k].resetAt - 1)
          /\ Between(served', k, bucket[k].resetAt - Period - Period + 1,
                                 bucket[k].resetAt - Period - 1)
                 = Between(served, k, bucket[k].resetAt - Period - Period + 1,
                                      bucket[k].resetAt - Period - 1)
      BY <1>2, <2>2, <2>5
    <3> QED BY <1>1, <2>1, <3>1, <3>2, <3>3 DEF BucketSound
  <2>4. WindowsBounded(k)'
    BY <1>2, <2>2 DEF LimitsInv, WindowsBounded, Clock
  <2> QED BY <2>3, <2>4
<1>11. /\ bucket'[key] = [tokens |-> left, resetAt |-> r]
       /\ since \in Int /\ since <= now /\ now < r
  BY <1>2, <1>3, <1>5 DEF FoundSound, LimitsInv, LimitsTypes, r
<1>12. /\ Between(served', key, since, r - 1) + left = limit
       /\ Between(served', key, since - Period + 1, since - 1) <= limit
  <2>1. /\ Between(served, key, since, r - 1) + b.tokens = limit
        /\ Between(served, key, since - Period + 1, since - 1) <= limit
        /\ b.tokens \in Nat
    BY <1>3 DEF FoundSound, r, limit
  <2>2. Between(served', key, since, r - 1) = Between(served, key, since, r - 1) + 1
    BY <1>2, <1>5, <1>7, <1>11
  <2>3. Between(served', key, since - Period + 1, since - 1)
           = Between(served, key, since - Period + 1, since - 1)
    BY <1>2, <1>7, <1>11
  <2>4. Between(served, key, since, r - 1) \in Nat
    <3>1. r - 1 \in Int
      BY <1>5
    <3> HIDE DEF since
    <3> QED BY ONLY <1>2, <1>11, <3>1, BetweenType
  <2> HIDE DEF since
  <2> QED BY <1>1, <1>2, <2>1, <2>2, <2>3, <2>4 DEF left
<1>13. \A d \in Sharing(key), t \in Clock : t > now => served'[<<d, t>>] = 0
  <2>1. \A d \in Sharing(key), t \in Clock : t > now => served[<<d, t>>] = 0
    BY <1>3 DEF FoundSound
  <2> QED BY <1>2, <1>9, <2>1 DEF Clock
<1>14. BucketSound(key)'
  <2>1. \A d \in Sharing(key), t \in Clock : t >= r \/ t > now => served'[<<d, t>>] = 0
    BY <1>2, <1>5, <1>11, <1>13 DEF Clock
  <2>2. r <= now + Period
    BY <1>2, <1>5, <1>11
  <2> QED BY <1>1, <1>5, <1>11, <1>12, <2>1, <2>2 DEF BucketSound, limit
<1>15. WindowsBounded(key)'
  <2> SUFFICES ASSUME NEW t \in Clock
               PROVE  Between(served', key, t, t + Period - 1) <= 2 * limit
    BY DEF WindowsBounded, limit
  <2>1. t \in Int /\ t + Period - 1 \in Int /\ now \in Int /\ r \in Int
    BY <1>2, <1>5 DEF Clock
  <2>2. CASE t <= now /\ now <= t + Period - 1
    <3>1. \A d \in Sharing(key), u \in Clock : u >= r => served'[<<d, u>>] = 0
      BY <1>2, <1>5, <1>11, <1>13 DEF Clock
    <3>2. Between(served', key, since, r - 1) <= limit
      <4>1. Between(served', key, since, r - 1) \in Nat
        <5>1. r - 1 \in Int
          BY <1>5
        <5> HIDE DEF since
        <5> QED BY ONLY <1>6, <1>11, <5>1, BetweenType
      <4> QED BY <1>2, <1>5, <1>12, <4>1
    <3>3. Between(served', key, since - Period + 1, since - 1) <= limit
      BY <1>12
    <3>4. limit \in Nat /\ since <= now /\ now < r
      BY <1>2, <1>11
    <3> QED BY ONLY <1>6, <2>1, <2>2, <3>1, <3>2, <3>3, <3>4, WindowBounded DEF since
  <2>3. CASE ~(t <= now /\ now <= t + Period - 1)
    <3>1. Between(served', key, t, t + Period - 1) = Between(served, key, t, t + Period - 1)
      BY <1>7, <2>1, <2>3
    <3>2. WindowsBounded(key)
      BY <1>2 DEF LimitsInv
    <3> QED BY <3>1, <3>2 DEF WindowsBounded, limit
  <2> QED BY <2>2, <2>3
<1>16. DenialsJust'
  <2> SUFFICES ASSUME NEW d \in denied
               PROVE  Between(served', bucketKey(d[1]), d[2] - Period + 1, d[2])
                        >= RequestLimit[Kind(d[1])]
    BY <1>1 DEF DenialsJust
  <2>1. d[1] \in Callers /\ d[2] \in Int /\ d[2] - Period + 1 \in Int
    BY <1>2 DEF LimitsInv, LimitsTypes, Clock
  <2>2. Between(served, bucketKey(d[1]), d[2] - Period + 1, d[2]) >= RequestLimit[Kind(d[1])]
    BY DEF LimitsInv, DenialsJust
  <2>3. RequestLimit[Kind(d[1])] \in Nat
    BY <2>1, KeysAre, LimitsAre
  <2>4. Between(served, bucketKey(d[1]), d[2] - Period + 1, d[2]) \in Nat
    BY ONLY <1>2, <2>1, BetweenType
  <2>5. Between(served', bucketKey(d[1]), d[2] - Period + 1, d[2])
           \in {Between(served, bucketKey(d[1]), d[2] - Period + 1, d[2]),
                Between(served, bucketKey(d[1]), d[2] - Period + 1, d[2]) + 1}
    BY <1>7, <2>1
  <2> QED BY <2>2, <2>3, <2>4, <2>5
<1> QED BY <1>8, <1>10, <1>14, <1>15, <1>16 DEF LimitsInv

\* A request is turned away when its limit was served within a period.
LEMMA TooManyKeeps ==
    ASSUME LimitsInv, NEW c \in Callers, TooMany(c)
    PROVE  LimitsInv'
<1> DEFINE key == bucketKey(c)
           b == Renewed(key)
           since == b.resetAt - Period
           limit == RequestLimit[key.kind]
<1>1. /\ b.tokens = 0 /\ denied' = {<<c, now>>}
      /\ now' = now /\ bucket' = bucket /\ served' = served
  BY DEF TooMany
<1>2. /\ key \in Keys /\ key.kind = Kind(c) /\ limit \in Nat \ {0}
      /\ now \in Clock /\ now \in Nat /\ served \in Counts /\ Period \in Nat \ {0}
  BY KeysAre, LimitsAre, LimitsAssumption DEF LimitsInv, LimitsTypes, Clock
<1>3. FoundSound(key, b)
  BY <1>2, RenewedFound
<1>4. /\ since \in Int /\ since <= now /\ now < b.resetAt /\ b.resetAt \in Nat
      /\ Between(served, key, since, b.resetAt - 1) = limit
  <2>1. Between(served, key, since, b.resetAt - 1) \in Nat
    <3>1. since \in Int /\ b.resetAt - 1 \in Int
      BY <1>2, <1>3 DEF FoundSound
    <3> HIDE DEF since, b, key
    <3> QED BY ONLY <1>2, <3>1, BetweenType
  <2> QED BY <1>1, <1>2, <1>3, <2>1 DEF FoundSound
<1> HIDE DEF b, key, limit
<1>5. Between(served, key, since, b.resetAt - 1)
        = Between(served, key, since, now) + Between(served, key, now + 1, b.resetAt - 1)
  <2>1. now + 1 \in Int /\ b.resetAt - 1 \in Int /\ since <= now + 1
        /\ now + 1 <= (b.resetAt - 1) + 1 /\ now + 1 - 1 = now
    BY <1>2, <1>4
  <2>2. Between(served, key, since, b.resetAt - 1)
          = Between(served, key, since, now + 1 - 1) + Between(served, key, now + 1, b.resetAt - 1)
    <3> HIDE DEF since
    <3> QED BY ONLY <1>2, <1>4, <2>1, BetweenSplit
  <2> QED BY <2>1, <2>2
<1>6. Between(served, key, now + 1, b.resetAt - 1) = 0
  <2>1. \A d \in Sharing(key), t \in Clock : t >= now + 1 => served[<<d, t>>] = 0
    BY <1>2, <1>3 DEF FoundSound, Clock
  <2>2. now + 1 \in Int /\ b.resetAt - 1 \in Int
    BY <1>2, <1>4
  <2> QED BY ONLY <1>2, <2>1, <2>2, BetweenNothing
<1>7. Between(served, key, since, now) <= Between(served, key, now - Period + 1, now)
  <2>1. now - Period + 1 \in Int /\ now \in Int /\ now - Period + 1 <= since
    BY <1>2, <1>4
  <2> HIDE DEF since
  <2> QED BY ONLY <1>2, <1>4, <2>1, BetweenWider
<1>8. Between(served, key, now - Period + 1, now) >= limit
  <2>1. now - Period + 1 \in Int /\ now \in Int
    BY <1>2
  <2>2. /\ Between(served, key, since, now) \in Nat
        /\ Between(served, key, now - Period + 1, now) \in Nat
    <3> HIDE DEF since
    <3> QED BY ONLY <1>2, <1>4, <2>1, BetweenType
  <2> HIDE DEF since
  <2> QED BY <1>2, <1>4, <1>5, <1>6, <1>7, <2>2
<1>9. DenialsJust'
  <2>1. denied' = {<<c, now>>} /\ served' = served
    BY <1>1
  <2> QED BY <1>2, <1>8, <2>1 DEF DenialsJust, key, limit
<1>10. LimitsTypes'
  BY <1>1, <1>2 DEF LimitsInv, LimitsTypes
<1>11. \A k \in Keys : BucketSound(k)' /\ WindowsBounded(k)'
  BY <1>1 DEF LimitsInv, BucketSound, WindowsBounded
<1> QED BY <1>9, <1>10, <1>11 DEF LimitsInv

\* Time passes.
LEMMA TickKeeps ==
    ASSUME LimitsInv, Tick
    PROVE  LimitsInv'
<1>1. now < MaxTime /\ now' = now + 1 /\ UNCHANGED <<bucket, served, denied>>
  BY DEF Tick
<1>2. now \in Nat /\ now' \in Clock /\ Period \in Nat
  BY <1>1, LimitsAssumption DEF LimitsInv, LimitsTypes, Clock
<1>3. LimitsTypes'
  BY <1>1, <1>2 DEF LimitsInv, LimitsTypes
<1>4. ASSUME NEW k \in Keys PROVE BucketSound(k)'
  <2>1. BucketSound(k) /\ bucket[k].resetAt \in Nat
    BY DEF LimitsInv, LimitsTypes
  <2>2. bucket[k].resetAt <= now' + Period
    BY <1>1, <1>2, <2>1 DEF BucketSound
  <2>3. \A c \in Sharing(k), t \in Clock : t >= bucket[k].resetAt \/ t > now' => served[<<c, t>>] = 0
    BY <1>1, <1>2, <2>1 DEF BucketSound, Clock
  <2> QED BY <1>1, <2>1, <2>2, <2>3 DEF BucketSound
<1>5. \A k \in Keys : WindowsBounded(k)'
  BY <1>1 DEF LimitsInv, WindowsBounded
<1>6. DenialsJust'
  BY <1>1 DEF LimitsInv, DenialsJust
<1> QED BY <1>3, <1>4, <1>5, <1>6 DEF LimitsInv

\* What was called on a day is on its row, and no row is ahead of its day.
BudgetInv ==
    /\ today \in 1 .. 2
    /\ usage \in [Staff -> [day : 0 .. 2, calls : Nat]]
    /\ called \in [Staff -> [1 .. 2 -> Nat]]
    /\ \A t \in Staff :
         /\ usage[t].day <= today
         /\ \A d \in 1 .. 2 :
              /\ called[t][d] <= CallsPerDay
              /\ d = usage[t].day => called[t][d] = usage[t].calls
              /\ d > usage[t].day => called[t][d] = 0

\* At first nobody has called.
LEMMA BudgetStarts == ASSUME LimitsInit PROVE BudgetInv
<1>1. today = 1 /\ usage = [t \in Staff |-> [day |-> 0, calls |-> 0]]
      /\ called = [t \in Staff |-> [d \in 1 .. 2 |-> 0]]
  BY DEF LimitsInit
<1>2. [day |-> 0, calls |-> 0] \in [day : 0 .. 2, calls : Nat]
  OBVIOUS
<1>3. usage \in [Staff -> [day : 0 .. 2, calls : Nat]] /\ called \in [Staff -> [1 .. 2 -> Nat]]
  BY <1>1, <1>2
<1>4. ASSUME NEW t \in Staff
      PROVE  /\ usage[t].day <= today
             /\ \A d \in 1 .. 2 :
                  /\ called[t][d] <= CallsPerDay
                  /\ d = usage[t].day => called[t][d] = usage[t].calls
                  /\ d > usage[t].day => called[t][d] = 0
  <2>1. usage[t].day = 0 /\ \A d \in 1 .. 2 : called[t][d] = 0
    BY <1>1
  <2> QED BY <1>1, <2>1, LimitsAssumption
<1> QED BY <1>1, <1>3, <1>4 DEF BudgetInv

\* A call counts for its day, the first of a day from nothing.
LEMMA NarrateKeeps ==
    ASSUME BudgetInv, NEW t \in Staff, Narrate(t)
    PROVE  BudgetInv'
<1> DEFINE entry == IF usage[t].day = today THEN usage[t] ELSE [day |-> today, calls |-> 0]
           n == entry.calls
<1>1. /\ n < CallsPerDay /\ today' = today
      /\ usage' = [usage EXCEPT ![t] = [entry EXCEPT !.calls = @ + 1]]
      /\ called' = [called EXCEPT ![t][today] = @ + 1]
  BY Zenon DEF Narrate
<1>2. today \in 1 .. 2 /\ usage[t] \in [day : 0 .. 2, calls : Nat] /\ called[t] \in [1 .. 2 -> Nat]
  BY DEF BudgetInv
<1>3. /\ n \in Nat /\ called[t][today] = n
      /\ [entry EXCEPT !.calls = @ + 1] = [day |-> today, calls |-> n + 1]
  <2>1. /\ usage[t].day <= today
        /\ today = usage[t].day => called[t][today] = usage[t].calls
        /\ today > usage[t].day => called[t][today] = 0
    BY <1>2 DEF BudgetInv
  <2>2. CASE usage[t].day = today
    <3>1. usage[t] = [day |-> today, calls |-> usage[t].calls] /\ usage[t].calls \in Nat
      BY <1>2, <2>2
    <3>2. entry = usage[t]
      BY <2>2
    <3> QED BY <2>1, <2>2, <3>1, <3>2
  <2>3. CASE usage[t].day # today
    <3>1. entry = [day |-> today, calls |-> 0]
      BY <2>3
    <3>2. usage[t].day \in 0 .. 2
      BY <1>2
    <3> HIDE DEF entry
    <3> QED BY <1>2, <2>1, <2>3, <3>1, <3>2
  <2> QED BY <2>2, <2>3
<1> HIDE DEF entry, n
<1>4. /\ usage' = [usage EXCEPT ![t] = [day |-> today, calls |-> n + 1]]
      /\ called' = [called EXCEPT ![t] = [called[t] EXCEPT ![today] = n + 1]]
  BY <1>1, <1>3
<1>5. /\ usage' \in [Staff -> [day : 0 .. 2, calls : Nat]]
      /\ called' \in [Staff -> [1 .. 2 -> Nat]]
  <2>1. [day |-> today, calls |-> n + 1] \in [day : 0 .. 2, calls : Nat]
    BY <1>2, <1>3
  <2>2. [called[t] EXCEPT ![today] = n + 1] \in [1 .. 2 -> Nat]
    BY <1>2, <1>3
  <2> QED BY <1>4, <2>1, <2>2 DEF BudgetInv
<1>6. ASSUME NEW u \in Staff
      PROVE  /\ usage'[u].day <= today
             /\ \A d \in 1 .. 2 :
                  /\ called'[u][d] <= CallsPerDay
                  /\ d = usage'[u].day => called'[u][d] = usage'[u].calls
                  /\ d > usage'[u].day => called'[u][d] = 0
  <2>1. CASE u = t
    <3>1. usage'[u] = [day |-> today, calls |-> n + 1]
      BY <1>4, <2>1 DEF BudgetInv
    <3>2. called'[u] = [called[t] EXCEPT ![today] = n + 1]
      BY <1>4, <2>1 DEF BudgetInv
    <3>3. \A d \in 1 .. 2 : called'[u][d] = IF d = today THEN n + 1 ELSE called[t][d]
      BY <1>2, <3>2
    <3>4. \A d \in 1 .. 2 :
             /\ called[t][d] <= CallsPerDay
             /\ d > usage[t].day => called[t][d] = 0
      BY DEF BudgetInv
    <3>5. usage[t].day <= today /\ usage[t].day \in 0 .. 2
      BY <1>2 DEF BudgetInv
    <3>6. n + 1 <= CallsPerDay
      BY <1>1, <1>3, LimitsAssumption
    <3>7. usage'[u].day = today /\ usage'[u].calls = n + 1
      BY <3>1
    <3>8. ASSUME NEW d \in 1 .. 2
          PROVE  /\ called'[u][d] <= CallsPerDay
                 /\ d = today => called'[u][d] = n + 1
                 /\ d > today => called'[u][d] = 0
      <4>1. CASE d = today
        BY <1>2, <3>3, <3>6, <4>1
      <4>2. CASE d # today
        <5>1. called'[u][d] = called[t][d]
          BY <3>3, <4>2
        <5>2. d > today => d > usage[t].day
          BY <1>2, <3>5
        <5> QED BY <3>4, <4>2, <5>1, <5>2
      <4> QED BY <4>1, <4>2
    <3> QED BY <1>2, <3>7, <3>8
  <2>2. CASE u # t
    <3>1. usage'[u] = usage[u] /\ called'[u] = called[u]
      BY <1>4, <2>2 DEF BudgetInv
    <3> QED BY <3>1 DEF BudgetInv
  <2> QED BY <2>1, <2>2
<1> QED BY <1>1, <1>2, <1>5, <1>6 DEF BudgetInv

\* The next day starts.
LEMMA MidnightKeeps ==
    ASSUME BudgetInv, Midnight
    PROVE  BudgetInv'
<1>1. today = 1 /\ today' = 2 /\ UNCHANGED <<usage, called>>
  BY DEF Midnight
<1>2. \A t \in Staff : usage[t].day <= 2
  <2>1. \A t \in Staff : usage[t].day \in 0 .. 2
    BY DEF BudgetInv
  <2> QED BY <2>1
<1> QED BY <1>1, <1>2 DEF BudgetInv

\* Requests leave the budget alone.
LEMMA RequestsStep ==
    ASSUME LimitsInv, BudgetInv, RequestNext
    PROVE  LimitsInv' /\ BudgetInv'
<1>1. LimitsInv'
  BY RequestKeeps, TooManyKeeps, TickKeeps DEF RequestNext
<1>2. UNCHANGED <<today, usage, called>>
  BY DEF RequestNext, Request, TooMany, Tick
<1> QED BY <1>1, <1>2 DEF BudgetInv

\* Calls leave the buckets alone.
LEMMA CallsStep ==
    ASSUME LimitsInv, BudgetInv, BudgetNext
    PROVE  LimitsInv' /\ BudgetInv'
<1>1. BudgetInv'
  BY NarrateKeeps, MidnightKeeps DEF BudgetNext
<1>2. UNCHANGED <<now, bucket, served, denied>>
  BY DEF BudgetNext, Narrate, Midnight
<1>3. LimitsInv'
  BY <1>2 DEF LimitsInv, LimitsTypes, BucketSound, WindowsBounded, DenialsJust
<1> QED BY <1>1, <1>3

\* The limits hold wherever the invariants do.
LEMMA LimitsFollow ==
    ASSUME LimitsInv, BudgetInv
    PROVE  LimitsHold
<1>1. \A c \in Callers : \A from, to : ServedBetween(SameBucket(c), from, to)
                                     = Between(served, bucketKey(c), from, to)
  BY DEF ServedBetween, SameBucket, Between, Requests, Sharing
<1>2. ASSUME NEW c \in Callers, NEW t \in Clock
      PROVE  ServedBetween(SameBucket(c), t, t + Period - 1) <= 2 * RequestLimit[Kind(c)]
  BY <1>1, KeysAre DEF LimitsInv, WindowsBounded
<1>3. ASSUME NEW r \in denied
      PROVE  ServedBetween(SameBucket(r[1]), r[2] - Period + 1, r[2]) >= RequestLimit[Kind(r[1])]
  <2>1. r[1] \in Callers
    BY DEF LimitsInv, LimitsTypes
  <2> QED BY <1>1, <2>1 DEF LimitsInv, DenialsJust
<1>4. \A t \in Staff : \A d \in 1 .. 2 : called[t][d] <= CallsPerDay
  BY DEF BudgetInv
<1> QED BY <1>2, <1>3, <1>4 DEF LimitsHold

\* However requests and ticks fall, a caller is served at most twice its limit in
\* any period and turned away only when its bucket served the limit within one;
\* and a tenant's assistant is called at most so often a day (rateLimit.ts).
THEOREM LimitsAlwaysHold == LimitsSpec => []LimitsHold
<1>1. LimitsInit => LimitsInv /\ BudgetInv
  BY LimitsStart, BudgetStarts
<1>2. LimitsInv /\ BudgetInv /\ [LimitsNext]_limitVars => LimitsInv' /\ BudgetInv'
  <2>1. CASE LimitsNext
    BY <2>1, RequestsStep, CallsStep DEF LimitsNext
  <2>2. CASE UNCHANGED limitVars
    BY <2>2 DEF limitVars, LimitsInv, LimitsTypes, BucketSound, WindowsBounded, DenialsJust, BudgetInv
  <2> QED BY <2>1, <2>2
<1>3. LimitsInv /\ BudgetInv => LimitsHold
  BY LimitsFollow
<1> QED BY <1>1, <1>2, <1>3, PTL DEF LimitsSpec

-----------------------------------------------------------------------------
(* Events                                                                  *)

\* Tables that have every event once.
Tables == {t \in Seq(DOMAIN Event) : \A i, j \in 1 .. Len(t) : t[i] = t[j] => i = j}

\* An insert keeps every event once.
LEMMA InsertedKeeps ==
    ASSUME NEW t \in Tables, NEW e \in DOMAIN Event
    PROVE  InsertedOnce(t, e) \in Tables
<1>1. t \in Seq(DOMAIN Event) /\ Len(t) \in Nat
  BY DEF Tables
<1>2. CASE Contains(t, e)
  BY <1>2 DEF InsertedOnce
<1>3. CASE ~Contains(t, e)
  <2> DEFINE u == Append(t, e)
  <2>1. \A i \in 1 .. Len(t) : t[i] # e
    BY <1>3 DEF Contains
  <2>2. u \in Seq(DOMAIN Event) /\ Len(u) = Len(t) + 1 /\ u[Len(t) + 1] = e
        /\ \A i \in 1 .. Len(t) : u[i] = t[i]
    BY <1>1
  <2> HIDE DEF u
  <2>3. \A i \in 1 .. Len(u) : i \in 1 .. Len(t) \/ i = Len(t) + 1
    BY <1>1, <2>2
  <2>4. \A i, j \in 1 .. Len(u) : u[i] = u[j] => i = j
    BY <1>1, <2>1, <2>2, <2>3 DEF Tables
  <2>5. u \in Tables
    BY <2>2, <2>4 DEF Tables
  <2> QED BY <1>3, <2>5 DEF InsertedOnce, u
<1> QED BY <1>2, <1>3

\* So does a batch, insert after insert.
LEMMA RecordedKeeps ==
    ASSUME rows \in Tables, NEW batch \in Seq(DOMAIN Event)
    PROVE  Recorded(batch) \in Tables
<1> DEFINE n == Len(batch)
           Of(t) == [i \in 0 .. n |-> IF i = 0 THEN rows ELSE InsertedOnce(t[i - 1], batch[i])]
           table == CHOOSE t : t = Of(t)
           step == [x \in Nat \X Tables |-> IF x[1] \in 1 .. n THEN InsertedOnce(x[2], batch[x[1]])
                                            ELSE x[2]]
<1>1. Recorded(batch) = table[n]
  BY DEF Recorded
<1>2. n \in Nat /\ \A i \in 1 .. n : batch[i] \in DOMAIN Event
  OBVIOUS
<1>3. step \in [Nat \X Tables -> Tables]
  BY <1>2, InsertedKeeps
<1>4. \A i \in 1 .. n : \A t \in Tables : step[<<i, t>>] = InsertedOnce(t, batch[i])
  BY <1>2
<1> HIDE DEF step
<1>5. PICK f : LoopOf(f, n, Tables, rows, step)
  <2> HIDE DEF n
  <2> QED BY <1>2, <1>3, LoopExists
<1> USE DEF LoopOf
<1>6. \A i \in 1 .. n : f[i] = InsertedOnce(f[i - 1], batch[i])
  <2>1. \A i \in 1 .. n : f[i - 1] \in Tables
    BY <1>2, <1>5
  <2> QED BY <1>4, <1>5, <2>1
<1>7. f = Of(f)
  BY <1>2, <1>5, <1>6
<1>8. table = Of(table)
  <2> HIDE DEF Of
  <2> QED BY <1>7
<1> HIDE DEF table
<1> DEFINE S == {i \in 0 .. n : table[i] \in Tables}
<1>9. 0 \in S
  BY <1>2, <1>8
<1>10. ASSUME NEW i \in 1 .. n, i - 1 \in S PROVE i \in S
  <2>1. table[i] = InsertedOnce(table[i - 1], batch[i])
    <3>1. i \in 0 .. n /\ i # 0
      BY <1>2
    <3>2. table[i] = Of(table)[i]
      BY <1>8
    <3>3. Of(table)[i] = InsertedOnce(table[i - 1], batch[i])
      BY <3>1
    <3> QED BY <3>2, <3>3
  <2> QED BY <1>2, <1>10, <2>1, InsertedKeeps
<1> HIDE DEF S
<1>11. n \in S
  <2> HIDE DEF n
  <2>1. \A i \in 1 .. n : i - 1 \in S => i \in S
    BY <1>10
  <2>2. \A i \in 0 .. n : i \in S
    BY ONLY <1>2, <1>9, <2>1, UpTo
  <2> QED BY <1>2, <2>2
<1> QED BY <1>1, <1>11 DEF S

\* The table has every event once.
LEMMA EventsStep == rows \in Tables /\ [LogNext]_rows => (rows \in Tables)'
BY RecordedKeeps, FunnelAssumption DEF LogNext, recordMany

-----------------------------------------------------------------------------
(* Funnels                                                                 *)

\* What a step of the chain is: the row each visitor reached it with, if any.
Reaches == [Visitors -> SUBSET Nat]

\* What Min is.
LEMMA MinIs ==
    ASSUME NEW T, T \subseteq Nat, T # {}
    PROVE  Min(T) \in T /\ \A m \in T : Min(T) <= m
BY LeastExists DEF Min

\* Rows are numbered, and hold different events.
LEMMA RowNumbers ==
    ASSUME rows \in Tables
    PROVE  /\ DOMAIN rows \subseteq Nat \ {0}
           /\ \A s, t \in DOMAIN rows : s # t => rows[s] # rows[t]
           /\ \A k, i : Matching(k, i) \subseteq DOMAIN rows
BY DEF Tables, Matching

\* The rows a session may reach step i with.
Later(before, k, i) == {s \in Matching(k, i) : \E p \in before[k] : After(s, p)}

\* A step reaches the earliest of the later rows that match, where there is one.
LEMMA ReachedIs ==
    ASSUME rows \in Tables, NEW before \in Reaches, NEW i
    PROVE  /\ Reached(before, i) \in Reaches
           /\ \A k \in Visitors : \A m :
                m \in Reached(before, i)[k]
                  <=> m \in Later(before, k, i) /\ \A s \in Later(before, k, i) : m <= s
           /\ \A k \in Visitors : Later(before, k, i) # {} => Reached(before, i)[k] # {}
<1>1. \A k : Later(before, k, i) \subseteq Nat
  BY RowNumbers DEF Later
<1>2. \A k : Later(before, k, i) # {} =>
         /\ Min(Later(before, k, i)) \in Later(before, k, i)
         /\ \A s \in Later(before, k, i) : Min(Later(before, k, i)) <= s
  BY <1>1, MinIs
<1>3. Reached(before, i) = [k \in Visitors |->
          IF Later(before, k, i) = {} THEN {} ELSE {Min(Later(before, k, i))}]
  BY DEF Reached, Later
<1>4. Reached(before, i) \in Reaches
  BY <1>1, <1>2, <1>3 DEF Reaches
<1>5. ASSUME NEW k \in Visitors, NEW m
      PROVE  m \in Reached(before, i)[k]
               <=> m \in Later(before, k, i) /\ \A s \in Later(before, k, i) : m <= s
  <2> DEFINE L == Later(before, k, i)
  <2>1. Reached(before, i)[k] = IF L = {} THEN {} ELSE {Min(L)}
    BY <1>3
  <2>2. L # {} => Min(L) \in L /\ \A s \in L : Min(L) <= s
    BY <1>2
  <2>3. L \subseteq Nat
    BY <1>1
  <2> HIDE DEF L
  <2>4. ASSUME m \in L, \A s \in L : m <= s PROVE m = Min(L)
    <3>1. Min(L) \in L /\ m <= Min(L) /\ Min(L) <= m
      BY <2>2, <2>4
    <3>2. Min(L) \in Nat /\ m \in Nat
      BY <2>3, <2>4, <3>1
    <3> QED BY <3>1, <3>2
  <2>5. m \in Reached(before, i)[k] <=> m \in L /\ \A s \in L : m <= s
    BY <2>1, <2>2, <2>4
  <2> QED BY <2>5 DEF L
<1>6. \A k \in Visitors : Later(before, k, i) # {} => Reached(before, i)[k] # {}
  BY <1>3
<1> QED BY <1>4, <1>5, <1>6

\* Chain is what its equation says.
LEMMA ChainIs ==
    ASSUME rows \in Tables
    PROVE  /\ \A k \in Visitors : Chain[0][k] = {0}
           /\ \A i \in 0 .. Len(Steps) : Chain[i] \in Reaches
           /\ \A i \in 1 .. Len(Steps) : Chain[i] = Reached(Chain[i - 1], i)
<1> DEFINE n == Len(Steps)
           none == [k \in Visitors |-> {0}]
           Of(c) == [i \in 0 .. n |-> IF i = 0 THEN none ELSE Reached(c[i - 1], i)]
           step == [x \in Nat \X Reaches |-> Reached(x[2], x[1])]
<1>1. n \in Nat
  BY FunnelAssumption
<1>2. none \in Reaches
  BY DEF Reaches
<1>3. step \in [Nat \X Reaches -> Reaches]
  BY ReachedIs
<1>4. \A i \in 1 .. n : \A b \in Reaches : step[<<i, b>>] = Reached(b, i)
  BY <1>1
<1> HIDE DEF step
<1>5. PICK f : LoopOf(f, n, Reaches, none, step)
  <2> HIDE DEF n, none
  <2> QED BY <1>1, <1>2, <1>3, LoopExists
<1>6. \A i \in 1 .. n : f[i] = Reached(f[i - 1], i)
  <2>1. \A i \in 1 .. n : f[i - 1] \in Reaches
    BY <1>1, <1>5 DEF LoopOf
  <2> QED BY <1>4, <1>5, <2>1 DEF LoopOf
<1>7. f = Of(f)
  <2> HIDE DEF none
  <2> QED BY <1>1, <1>5, <1>6 DEF LoopOf
<1>8. Chain = Of(Chain)
  <2>1. Chain = CHOOSE c : c = Of(c)
    BY DEF Chain
  <2> HIDE DEF Of
  <2> QED BY <1>7, <2>1
<1>9. Chain[0] = none
  <2>1. 0 \in 0 .. n /\ Chain[0] = Of(Chain)[0]
    BY <1>1, <1>8
  <2> QED BY <2>1
<1>10. ASSUME NEW i \in 1 .. n PROVE Chain[i] = Reached(Chain[i - 1], i)
  <2>1. i \in 0 .. n /\ i # 0
    BY <1>1
  <2>2. Chain[i] = Of(Chain)[i]
    BY <1>8
  <2> QED BY <2>1, <2>2
<1> DEFINE S == {i \in 0 .. n : Chain[i] \in Reaches}
<1>11. 0 \in S
  BY <1>1, <1>2, <1>9
<1>12. \A i \in 1 .. n : i - 1 \in S => i \in S
  BY <1>1, <1>10, ReachedIs
<1>13. \A i \in 0 .. n : i \in S
  <2> HIDE DEF S, n
  <2> QED BY ONLY <1>1, <1>11, <1>12, UpTo
<1> QED BY <1>9, <1>10, <1>13

\* Rows of a session for the first i steps, each behind the one before.
Way(way, k, i) ==
    /\ way \in [1 .. i -> DOMAIN rows]
    /\ \A j \in 1 .. i : way[j] \in Matching(k, j)
    /\ \A j, l \in 1 .. i : j < l => way[j] < way[l]

\* To have walked is to have a way: different rows hold different events.
LEMMA WalkedIs ==
    ASSUME rows \in Tables, NEW k, NEW i
    PROVE  Walked(k, i) <=> \E way : Way(way, k, i)
<1>1. ASSUME NEW way \in [1 .. i -> DOMAIN rows], NEW j \in 1 .. i, NEW l \in 1 .. i,
             way[j] < way[l]
      PROVE  rows[way[j]] # rows[way[l]]
  <2>1. way[j] \in DOMAIN rows /\ way[l] \in DOMAIN rows
    OBVIOUS
  <2>2. way[j] # way[l]
    BY <1>1, <2>1, RowNumbers
  <2> QED BY <2>1, <2>2, RowNumbers
<1> QED BY <1>1, Zenon DEF Walked, Way

\* The greedy chain: what it reaches ends a way, and no way ends before it.
Greedy(k, i) ==
    /\ \A m \in Chain[i][k] : \E way : Way(way, k, i) /\ way[i] = m
    /\ \A way : Way(way, k, i) => \E m \in Chain[i][k] : m <= way[i]

\* A way goes on with a matching row behind it.
LEMMA WayGoesOn ==
    ASSUME rows \in Tables, NEW k, NEW i \in Nat \ {0},
           NEW m \in Matching(k, i), NEW before,
           i # 1 => Way(before, k, i - 1) /\ before[i - 1] < m
    PROVE  \E way : Way(way, k, i) /\ way[i] = m
<1> DEFINE way == [j \in 1 .. i |-> IF j < i THEN before[j] ELSE m]
<1>1. m \in DOMAIN rows /\ DOMAIN rows \subseteq Nat
  BY RowNumbers
<1>2. way[i] = m /\ \A j \in 1 .. i : j < i => way[j] = before[j]
  OBVIOUS
<1>3. ASSUME NEW j \in 1 .. i, j < i
      PROVE  before[j] \in DOMAIN rows /\ before[j] \in Matching(k, j) /\ before[j] < m
  <2>1. i # 1 /\ j \in 1 .. i - 1 /\ i - 1 \in 1 .. i - 1
    BY <1>3
  <2>2. before[j] \in DOMAIN rows /\ before[j] \in Matching(k, j) /\ before[i - 1] \in DOMAIN rows
    BY <2>1 DEF Way
  <2>3. j = i - 1 \/ before[j] < before[i - 1]
    <3>1. j = i - 1 \/ j < i - 1
      BY <2>1
    <3> QED BY <2>1, <3>1 DEF Way
  <2> QED BY <1>1, <2>1, <2>2, <2>3
<1>4. way \in [1 .. i -> DOMAIN rows]
  BY <1>1, <1>3
<1>5. \A j \in 1 .. i : j < i \/ j = i
  OBVIOUS
<1>6. \A j \in 1 .. i : way[j] \in Matching(k, j)
  BY <1>2, <1>3, <1>5
<1>7. ASSUME NEW j \in 1 .. i, NEW l \in 1 .. i, j < l PROVE way[j] < way[l]
  <2>1. j < i
    BY <1>7
  <2>2. CASE l = i
    BY <1>2, <1>3, <2>1, <2>2
  <2>3. CASE l < i
    <3>1. i # 1 /\ j \in 1 .. i - 1 /\ l \in 1 .. i - 1
      BY <1>7, <2>3
    <3>2. before[j] < before[l]
      BY <1>7, <3>1 DEF Way
    <3> QED BY <1>2, <2>1, <2>3, <3>2
  <2> QED BY <1>5, <2>2, <2>3
<1> HIDE DEF way
<1> QED BY <1>2, <1>4, <1>6, <1>7 DEF Way

\* One more step of the chain is greedy, too.
LEMMA GreedyGoesOn ==
    ASSUME rows \in Tables, NEW k \in Visitors, NEW i \in 1 .. Len(Steps),
           i # 1 => Greedy(k, i - 1)
    PROVE  Greedy(k, i)
<1> DEFINE before == Chain[i - 1]
<1>0. i \in Nat \ {0} /\ i - 1 \in 0 .. Len(Steps) /\ (i # 1 => i - 1 \in Nat \ {0})
  BY FunnelAssumption
<1>1. before \in Reaches /\ Chain[i] = Reached(before, i)
  BY <1>0, ChainIs
<1>2. DOMAIN rows \subseteq Nat \ {0} /\ Matching(k, i) \subseteq DOMAIN rows
  BY RowNumbers
<1>3. i = 1 => before[k] = {0}
  BY ChainIs
<1>4. before[k] \subseteq Nat
  BY <1>1 DEF Reaches
<1> HIDE DEF before
<1>5. /\ \A m \in Chain[i][k] : m \in Later(before, k, i) /\ \A s \in Later(before, k, i) : m <= s
      /\ Later(before, k, i) # {} => Chain[i][k] # {}
  BY <1>1, ReachedIs
<1>6. ASSUME NEW m \in Chain[i][k] PROVE \E way : Way(way, k, i) /\ way[i] = m
  <2>1. PICK p \in before[k] : After(m, p)
    BY <1>5 DEF Later
  <2>2. m \in Matching(k, i) /\ m > p
    BY <1>5, <2>1 DEF Later, After
  <2>3. PICK w : i # 1 => Way(w, k, i - 1) /\ w[i - 1] = p
    BY <2>1 DEF Greedy, before
  <2>4. i # 1 => w[i - 1] < m
    BY <1>2, <1>4, <2>1, <2>2, <2>3
  <2> QED BY <1>0, <2>2, <2>3, <2>4, WayGoesOn
<1>7. ASSUME NEW way, Way(way, k, i) PROVE \E m \in Chain[i][k] : m <= way[i]
  <2>0. way[i] \in Matching(k, i) /\ way[i] \in Nat \ {0}
    BY <1>0, <1>2, <1>7 DEF Way
  <2>1. \E p \in before[k] : way[i] > p
    <3>1. CASE i = 1
      <4>1. 0 \in before[k] /\ way[i] > 0
        BY <1>3, <2>0, <3>1
      <4> QED BY <4>1
    <3>2. CASE i # 1
      <4> DEFINE w == [j \in 1 .. i - 1 |-> way[j]]
      <4>1. \A j \in 1 .. i - 1 : j \in 1 .. i /\ w[j] = way[j]
        BY <1>0
      <4>2. Way(w, k, i - 1)
        <5>1. w \in [1 .. i - 1 -> DOMAIN rows]
          BY <1>7, <4>1 DEF Way
        <5> HIDE DEF w
        <5> QED BY <1>7, <4>1, <5>1 DEF Way
      <4> HIDE DEF w
      <4>3. PICK p \in before[k] : p <= w[i - 1]
        BY <3>2, <4>2 DEF Greedy, before
      <4>4. i - 1 \in 1 .. i - 1 /\ i - 1 \in 1 .. i /\ i \in 1 .. i /\ i - 1 < i
        BY <1>0, <3>2
      <4>5. w[i - 1] < way[i] /\ w[i - 1] \in Nat
        <5>1. way[i - 1] < way[i] /\ way[i - 1] \in DOMAIN rows
          BY <1>7, <4>4 DEF Way
        <5> QED BY <1>2, <4>1, <4>4, <5>1
      <4> QED BY <1>4, <2>0, <4>3, <4>5
    <3> QED BY <3>1, <3>2
  <2>2. way[i] \in Later(before, k, i)
    BY <2>0, <2>1 DEF Later, After
  <2> QED BY <1>5, <2>2
<1> QED BY <1>6, <1>7 DEF Greedy

\* So the chain reaches exactly those who walked.
LEMMA ChainGreedy ==
    ASSUME rows \in Tables, NEW k \in Visitors, NEW i \in 1 .. Len(Steps)
    PROVE  Chain[i][k] # {} <=> Walked(k, i)
<1> DEFINE S == {j \in Nat : j = 0 \/ Greedy(k, j)}
<1>1. Len(Steps) \in Nat
  BY FunnelAssumption
<1>2. 0 \in S
  OBVIOUS
<1>3. \A j \in 1 .. Len(Steps) : j - 1 \in S => j \in S
  <2> SUFFICES ASSUME NEW j \in 1 .. Len(Steps), j - 1 \in S PROVE Greedy(k, j)
    BY <1>1
  <2>1. j # 1 => Greedy(k, j - 1)
    BY <1>1
  <2> QED BY <2>1, GreedyGoesOn
<1>4. \A j \in 0 .. Len(Steps) : j \in S
  <2> HIDE DEF S
  <2> QED BY ONLY <1>1, <1>2, <1>3, UpTo
<1>5. Greedy(k, i)
  BY <1>1, <1>4
<1> QED BY <1>5, WalkedIs DEF Greedy

\* Who walked i steps walked those before.
LEMMA WalkedBefore ==
    ASSUME rows \in Tables, NEW k, NEW i \in Nat, i > 1, Walked(k, i)
    PROVE  Walked(k, i - 1)
<1>1. PICK way : Way(way, k, i)
  BY WalkedIs
<1> DEFINE w == [j \in 1 .. i - 1 |-> way[j]]
<1>2. \A j \in 1 .. i - 1 : j \in 1 .. i /\ w[j] = way[j]
  OBVIOUS
<1>3. w \in [1 .. i - 1 -> DOMAIN rows]
  BY <1>1, <1>2 DEF Way
<1> HIDE DEF w
<1>4. Way(w, k, i - 1)
  BY <1>1, <1>2, <1>3 DEF Way
<1> QED BY <1>4, WalkedIs

\* There are finitely many visitors.
LEMMA VisitorsFinite == IsFiniteSet(Visitors)
<1> DEFINE f == [e \in DOMAIN Event |-> Event[e].session]
<1>1. f \in Surjection(DOMAIN Event, Visitors)
  BY DEF Surjection, Visitors
<1> QED BY <1>1, FunnelAssumption, FS_Surjection

\* The funnel is truthful of every table that has its events once.
LEMMA FunnelFollows == ASSUME rows \in Tables PROVE FunnelTruthful
<1> DEFINE who(i) == {k \in Visitors : Walked(k, i)}
<1>1. DOMAIN Steps = 1 .. Len(Steps) /\ Len(Steps) \in Nat
  BY FunnelAssumption
<1>2. ASSUME NEW i \in 1 .. Len(Steps) PROVE funnel[i] = Cardinality(who(i))
  <2>1. {k \in Visitors : Chain[i][k] # {}} = who(i)
    BY ChainGreedy
  <2> QED BY <2>1 DEF funnel
<1>3. ASSUME NEW i \in (1 .. Len(Steps)) \ {1} PROVE funnel[i] <= funnel[i - 1]
  <2>1. i \in Nat /\ i > 1 /\ i - 1 \in 1 .. Len(Steps)
    BY <1>1
  <2>2. who(i) \in SUBSET who(i - 1)
    BY <2>1, WalkedBefore
  <2>3. IsFiniteSet(who(i - 1))
    BY VisitorsFinite, FS_Subset
  <2>4. Cardinality(who(i)) <= Cardinality(who(i - 1))
    <3> HIDE DEF who
    <3> QED BY <2>2, <2>3, FS_Subset
  <2> QED BY <1>2, <2>1, <2>4
<1> QED BY <1>1, <1>2, <1>3 DEF FunnelTruthful

\* However batches arrive, overlap and are repeated, a funnel counts exactly the
\* sessions that have different events for its steps, one behind the other
\* (eventService.ts).
THEOREM FunnelsAreTruthful == LogSpec => []FunnelTruthful
<1>1. LogInit => rows \in Tables
  BY DEF LogInit, Tables
<1> QED BY <1>1, EventsStep, FunnelFollows, PTL DEF LogSpec

-----------------------------------------------------------------------------
(* The audit trail                                                         *)

\* What entries say, and the rows that say it.
Said == {Content[a] : a \in Actions}
Hashes == Seq(Said)
TrailRows == [id : Nat, entry : Said, prev : Hashes, hash : Hashes]

\* Rows with numbers below n, each its own.
RowsBelow(table, n) ==
    /\ table \subseteq TrailRows
    /\ n \in Nat
    /\ \A r \in table : r.id < n
    /\ \A r, s \in table : r.id = s.id => r = s

\* A later row has the longer history.
Longer(table) == \A r, s \in table : r.id < s.id => Len(r.hash) < Len(s.hash)

Holding(a) == writing[a] \in {"locked", "read", "inserted"}
RecordedActions == {a \in Actions : writing[a] = "recorded"}

\* The latest row.
LEMMA LatestIs ==
    ASSUME NEW table, NEW n, RowsBelow(table, n), table # {}
    PROVE  Latest(table) \in table /\ \A s \in table : s.id <= Latest(table).id
<1> DEFINE left == {n - r.id : r \in table}
<1>1. left \subseteq Nat /\ left # {}
  BY DEF RowsBelow, TrailRows
<1>2. PICK m \in left : \A k \in left : m <= k
  <2> HIDE DEF left
  <2> QED BY <1>1, LeastExists
<1>3. PICK r \in table : m = n - r.id
  BY <1>2
<1>4. ASSUME NEW s \in table PROVE s.id <= r.id
  <2>1. m <= n - s.id
    BY <1>2
  <2>2. n \in Nat /\ s.id \in Nat /\ r.id \in Nat
    BY DEF RowsBelow, TrailRows
  <2> QED BY <1>3, <2>1, <2>2
<1> QED BY <1>3, <1>4 DEF Latest

\* A hash that is left behind is that of a row, or none.
LEMMA HashIs ==
    ASSUME NEW table, NEW n, RowsBelow(table, n)
    PROVE  /\ HashOf(table) \in Hashes
           /\ Len(HashOf(table)) \in Nat
           /\ table = {} => HashOf(table) = <<>>
           /\ table # {} => \E r \in table : HashOf(table) = r.hash /\ \A s \in table : s.id <= r.id
<1>1. CASE table = {}
  BY <1>1 DEF HashOf, Hashes
<1>2. CASE table # {}
  <2>1. Latest(table) \in table /\ \A s \in table : s.id <= Latest(table).id
    BY <1>2, LatestIs
  <2>2. HashOf(table) = Latest(table).hash
    BY <1>2 DEF HashOf
  <2>3. Latest(table).hash \in Hashes
    BY <2>1 DEF RowsBelow, TrailRows
  <2> QED BY <1>2, <2>1, <2>2, <2>3 DEF Hashes
<1> QED BY <1>1, <1>2

\* Some of the rows.
LEMMA PartBelow ==
    ASSUME NEW table, NEW n, RowsBelow(table, n), NEW part, part \subseteq table
    PROVE  RowsBelow(part, n)
BY DEF RowsBelow

\* A hash grows by what goes into it.
LEMMA AppendsGrow ==
    ASSUME NEW h \in Hashes, NEW e
    PROVE  Append(h, e) # <<>> /\ Len(Append(h, e)) = Len(h) + 1 /\ Append(h, e)[Len(h) + 1] = e
BY DEF Hashes

\* The variables of the trail, in their types.
TrailTypes ==
    /\ RowsBelow(audit_log, nextId)
    /\ DOMAIN writing = Actions
    /\ DOMAIN prevHash = Actions
    /\ DOMAIN row = Actions
    /\ applied \subseteq Actions

\* One transaction has the lock; what it read is still last, and what it
\* inserted goes behind it.
Serialized ==
    /\ \A a, b \in Actions : Holding(a) /\ Holding(b) => a = b
    /\ \A a \in Actions : writing[a] = "read" => prevHash[a] = LastHash
    /\ \A a \in Actions : writing[a] = "inserted" =>
         /\ row[a] = [id |-> row[a].id, entry |-> Content[a], prev |-> LastHash,
                      hash |-> Append(LastHash, Content[a])]
         /\ row[a].id \in Nat /\ row[a].id < nextId
         /\ \A r \in audit_log : r.id < row[a].id

\* As many rows as recorded actions, which happened.
Tallied ==
    /\ IsFiniteSet(RecordedActions) /\ IsFiniteSet(audit_log)
    /\ Cardinality(audit_log) = Cardinality(RecordedActions)
    /\ RecordedActions \subseteq applied
    /\ applied \ RecordedActions \subseteq Afterwards

TrailInv ==
    /\ TrailTypes /\ Serialized /\ Tallied
    /\ verifyChain(audit_log) /\ Longer(audit_log)

\* The trail starts empty.
LEMMA TrailStarts == ASSUME TrailInit PROVE TrailInv
<1>1. audit_log = {} /\ RecordedActions = {} /\ nextId = 1 /\ applied = {}
  BY DEF TrailInit, RecordedActions
<1>2. Tallied
  BY <1>1, FS_EmptySet DEF Tallied
<1> QED BY <1>1, <1>2 DEF TrailInit, TrailInv, TrailTypes, RowsBelow, Serialized, Holding,
                          verifyChain, Longer

\* Steps before the commit.
LEMMA WritersKeep ==
    ASSUME TrailInv, NEW a \in Actions,
           Apply(a) \/ TakeLock(a) \/ ReadLast(a) \/ InsertRow(a) \/ RollBackRow(a)
    PROVE  TrailInv'
<1>1. audit_log' = audit_log /\ LastHash' = LastHash
  BY DEF Apply, TakeLock, ReadLast, InsertRow, RollBackRow, LastHash
<1>2. verifyChain(audit_log)' /\ Longer(audit_log)'
  BY <1>1 DEF TrailInv, verifyChain, Before, Longer
<1>3. TrailTypes'
  <2>1. nextId \in Nat /\ \A r \in audit_log : r.id \in Nat /\ r.id < nextId
    BY DEF TrailInv, TrailTypes, RowsBelow, TrailRows
  <2>2. nextId' = nextId \/ nextId' = nextId + 1
    BY DEF Apply, TakeLock, ReadLast, InsertRow, RollBackRow
  <2>3. RowsBelow(audit_log, nextId')
    BY <2>1, <2>2 DEF TrailInv, TrailTypes, RowsBelow
  <2> QED BY <1>1, <2>3 DEF TrailInv, TrailTypes, Apply, TakeLock, ReadLast, InsertRow, RollBackRow
<1>4. Tallied'
  <2>1. RecordedActions' = RecordedActions
    BY DEF TrailInv, TrailTypes, RecordedActions, Apply, TakeLock, ReadLast, InsertRow, RollBackRow
  <2>2. applied' \ RecordedActions \subseteq Afterwards /\ applied \subseteq applied'
    BY DEF TrailInv, Tallied, Apply, TakeLock, ReadLast, InsertRow, RollBackRow
  <2> QED BY <1>1, <2>1, <2>2 DEF TrailInv, Tallied
<1>5. Serialized'
  <2>1. CASE Apply(a)
    BY <1>1, <2>1 DEF TrailInv, Serialized, Holding, Apply
  <2>2. CASE TakeLock(a)
    <3>1. \A b \in Actions : ~Holding(b)
      BY <2>2 DEF TakeLock, LockFree, Holding
    <3>2. \A b \in Actions : writing'[b] = IF b = a THEN "locked" ELSE writing[b]
      BY <2>2 DEF TakeLock, TrailInv, TrailTypes
    <3> QED BY <1>1, <2>2, <3>1, <3>2 DEF TrailInv, Serialized, Holding, TakeLock
  <2>3. CASE ReadLast(a)
    <3>1. \A b \in Actions : writing'[b] = IF b = a THEN "read" ELSE writing[b]
      BY <2>3 DEF ReadLast, TrailInv, TrailTypes
    <3>2. \A b \in Actions : prevHash'[b] = IF b = a THEN LastHash ELSE prevHash[b]
      BY <2>3 DEF ReadLast, TrailInv, TrailTypes
    <3> QED BY <1>1, <2>3, <3>1, <3>2 DEF TrailInv, Serialized, Holding, ReadLast
  <2>4. CASE InsertRow(a)
    <3> DEFINE new == [id |-> nextId, entry |-> Content[a], prev |-> prevHash[a],
                       hash |-> Append(prevHash[a], Content[a])]
    <3>1. \A b \in Actions : writing'[b] = IF b = a THEN "inserted" ELSE writing[b]
      BY <2>4 DEF InsertRow, TrailInv, TrailTypes
    <3>2. \A b \in Actions : row'[b] = IF b = a THEN new ELSE row[b]
      BY <2>4 DEF InsertRow, TrailInv, TrailTypes
    <3>3. prevHash[a] = LastHash /\ prevHash' = prevHash /\ nextId' = nextId + 1
      BY <2>4 DEF InsertRow, TrailInv, Serialized
    <3>4. nextId \in Nat /\ \A r \in audit_log : r.id < nextId
      BY DEF TrailInv, TrailTypes, RowsBelow
    <3>5. \A b \in Actions : Holding(b) => b = a
      BY <2>4 DEF InsertRow, Holding, TrailInv, Serialized
    <3>6. \A b \in Actions : Holding(b)' => b = a
      BY <3>1, <3>5 DEF Holding
    <3>7. \A b \in Actions : writing'[b] = "inserted" => b = a
      BY <3>6 DEF Holding
    <3>8. \A b \in Actions : writing'[b] # "read"
      BY <3>1, <3>6 DEF Holding
    <3>9. /\ row'[a] = [id |-> row'[a].id, entry |-> Content[a], prev |-> LastHash,
                        hash |-> Append(LastHash, Content[a])]
          /\ row'[a].id = nextId
      <4>1. row'[a] = [id |-> nextId, entry |-> Content[a], prev |-> LastHash,
                       hash |-> Append(LastHash, Content[a])]
        BY <3>2, <3>3
      <4>2. row'[a].id = nextId
        BY ONLY <4>1
      <4>3. \A x : x = nextId =>
               row'[a] = [id |-> x, entry |-> Content[a], prev |-> LastHash,
                          hash |-> Append(LastHash, Content[a])]
        BY ONLY <4>1
      <4> HIDE DEF new
      <4>4. row'[a] = [id |-> row'[a].id, entry |-> Content[a], prev |-> LastHash,
                       hash |-> Append(LastHash, Content[a])]
        BY ONLY <4>2, <4>3, Zenon
      <4> QED BY ONLY <4>2, <4>4
    <3>10. \A b, c \in Actions : Holding(b)' /\ Holding(c)' => b = c
      BY <3>6
    <3>11. ASSUME NEW b \in Actions, writing'[b] = "inserted"
           PROVE  /\ row'[b] = [id |-> row'[b].id, entry |-> Content[b], prev |-> LastHash',
                                hash |-> Append(LastHash', Content[b])]
                  /\ row'[b].id \in Nat /\ row'[b].id < nextId'
                  /\ \A r \in audit_log' : r.id < row'[b].id
      <4>1. b = a /\ LastHash' = LastHash /\ audit_log' = audit_log
        BY <1>1, <3>7, <3>11
      <4> HIDE DEF new
      <4>2. row'[b].id \in Nat /\ row'[b].id < nextId'
        BY <3>3, <3>4, <3>9, <4>1
      <4>3. \A r \in audit_log' : r.id < row'[b].id
        BY <3>4, <3>9, <4>1
      <4> QED BY <3>9, <4>1, <4>2, <4>3, Zenon
    <3> HIDE DEF new
    <3> QED BY <3>8, <3>10, <3>11 DEF Serialized
  <2>5. CASE RollBackRow(a)
    <3>1. \A b \in Actions : writing'[b] = IF b = a THEN "failed" ELSE writing[b]
      BY <2>5 DEF RollBackRow, TrailInv, TrailTypes
    <3> QED BY <1>1, <2>5, <3>1 DEF TrailInv, Serialized, Holding, RollBackRow
  <2> QED BY <2>1, <2>2, <2>3, <2>4, <2>5
<1> QED BY <1>2, <1>3, <1>4, <1>5 DEF TrailInv

\* The row is appended to the committed ones.
LEMMA CommitRowKeeps ==
    ASSUME TrailInv, NEW a \in Actions, CommitRow(a)
    PROVE  TrailInv'
<1> DEFINE n == row[a]
<1>1. /\ writing[a] = "inserted" /\ Holding(a)
      /\ writing' = [writing EXCEPT ![a] = "recorded"]
      /\ audit_log' = audit_log \cup {n} /\ applied' = applied \cup {a}
      /\ UNCHANGED <<nextId, prevHash, row>>
  BY DEF CommitRow, Holding
<1>2. RowsBelow(audit_log, nextId)
  BY DEF TrailInv, TrailTypes
<1>3. LastHash \in Hashes
  BY <1>2, HashIs DEF LastHash
<1>4. /\ n = [id |-> n.id, entry |-> Content[a], prev |-> LastHash,
              hash |-> Append(LastHash, Content[a])]
      /\ n.id \in Nat /\ n.id < nextId /\ \A r \in audit_log : r.id < n.id
  BY <1>1 DEF TrailInv, Serialized
<1>5. /\ n.entry = Content[a] /\ n.prev = LastHash /\ n.hash = Append(LastHash, Content[a])
      /\ n \in TrailRows
  <2>1. Append(LastHash, Content[a]) \in Hashes /\ Content[a] \in Said
    BY <1>3 DEF Hashes, Said
  <2> DEFINE i == n.id
             said == Content[a]
             full == Append(LastHash, Content[a])
  <2>2. n = [id |-> i, entry |-> said, prev |-> LastHash, hash |-> full] /\ i \in Nat
    BY <1>4
  <2> HIDE DEF n, i, said, full
  <2>3. n.entry = said /\ n.prev = LastHash /\ n.hash = full
    BY ONLY <2>2
  <2>4. n \in TrailRows
    BY ONLY <1>3, <2>1, <2>2 DEF TrailRows, said, full
  <2> QED BY <2>3, <2>4 DEF said, full
<1> HIDE DEF n
<1>6. \A r \in audit_log : r.id \in Nat
  BY <1>2 DEF RowsBelow, TrailRows
<1>7. RowsBelow(audit_log', nextId')
  BY <1>1, <1>2, <1>4, <1>5, <1>6 DEF RowsBelow
<1>8. TrailTypes'
  BY <1>1, <1>7 DEF TrailInv, TrailTypes
<1>9. \A b \in Actions : writing'[b] = IF b = a THEN "recorded" ELSE writing[b]
  BY <1>1 DEF TrailInv, TrailTypes
<1>10. Serialized'
  <2>1. \A b \in Actions : Holding(b) => b = a
    BY <1>1 DEF TrailInv, Serialized
  <2>2. \A b \in Actions : ~(writing'[b] \in {"locked", "read", "inserted"})
    BY <1>9, <2>1 DEF Holding
  <2> QED BY <2>2 DEF Serialized, Holding
<1>11. Tallied'
  <2>1. RecordedActions' = RecordedActions \cup {a} /\ a \notin RecordedActions
    BY <1>1, <1>9 DEF RecordedActions
  <2>2. n \notin audit_log
    BY <1>4, <1>6
  <2>3. /\ IsFiniteSet(RecordedActions) /\ IsFiniteSet(audit_log)
        /\ Cardinality(audit_log) = Cardinality(RecordedActions)
        /\ RecordedActions \subseteq applied /\ applied \ RecordedActions \subseteq Afterwards
    BY DEF TrailInv, Tallied
  <2>4. IsFiniteSet(RecordedActions') /\ Cardinality(RecordedActions') = Cardinality(RecordedActions) + 1
    BY <2>1, <2>3, FS_AddElement
  <2>5. IsFiniteSet(audit_log') /\ Cardinality(audit_log') = Cardinality(audit_log) + 1
    BY <1>1, <2>2, <2>3, FS_AddElement
  <2> QED BY <1>1, <2>1, <2>3, <2>4, <2>5 DEF Tallied
<1>12. \A r \in audit_log : Before(audit_log', r) = Before(audit_log, r)
  <2> SUFFICES ASSUME NEW r \in audit_log
               PROVE  {s \in audit_log' : s.id < r.id} = {s \in audit_log : s.id < r.id}
    BY DEF Before
  <2>1. ~(n.id < r.id)
    BY <1>4, <1>6
  <2> QED BY <1>1, <2>1
<1>13. Before(audit_log', n) = LastHash
  <2>1. {s \in audit_log' : s.id < n.id} = audit_log
    BY <1>1, <1>4
  <2> QED BY <2>1 DEF Before, LastHash
<1>14. verifyChain(audit_log')
  BY <1>1, <1>5, <1>12, <1>13 DEF TrailInv, verifyChain
<1>15. Longer(audit_log')
  <2>1. \A r \in audit_log : Len(r.hash) <= Len(LastHash) /\ Len(r.hash) \in Nat
    <3> SUFFICES ASSUME NEW r \in audit_log
                 PROVE  Len(r.hash) <= Len(LastHash) /\ Len(r.hash) \in Nat
      OBVIOUS
    <3>1. PICK last \in audit_log : LastHash = last.hash /\ \A s \in audit_log : s.id <= last.id
      BY <1>2, HashIs DEF LastHash
    <3>2. r.id < last.id \/ r = last
      BY <1>2, <1>6, <3>1 DEF RowsBelow
    <3>3. \A s \in audit_log : Len(s.hash) \in Nat
      BY <1>2 DEF RowsBelow, TrailRows, Hashes
    <3> QED BY <3>1, <3>2, <3>3 DEF TrailInv, Longer
  <2>2. Len(n.hash) = Len(LastHash) + 1 /\ Len(LastHash) \in Nat
    BY <1>3, <1>5, AppendsGrow DEF Hashes
  <2>3. \A r \in audit_log : ~(n.id < r.id)
    BY <1>4, <1>6
  <2>4. \A r \in audit_log : Len(r.hash) < Len(n.hash)
    BY <2>1, <2>2
  <2> QED BY <1>1, <1>4, <2>3, <2>4 DEF TrailInv, Longer
<1> QED BY <1>8, <1>10, <1>11, <1>14, <1>15 DEF TrailInv

\* Every step of a writer keeps the trail.
LEMMA TrailStep == TrailInv /\ [TrailNext]_trailVars => TrailInv'
<1> SUFFICES ASSUME TrailInv, [TrailNext]_trailVars PROVE TrailInv'
  OBVIOUS
<1>1. CASE TrailNext
  BY <1>1, WritersKeep, CommitRowKeeps DEF TrailNext
<1>2. CASE UNCHANGED trailVars
  BY <1>2 DEF trailVars, TrailInv, TrailTypes, Serialized, Tallied, RecordedActions, Holding,
              LastHash, Longer, verifyChain, Before
<1> QED BY <1>1, <1>2

\* In a chain that verifies, what is before a row is shorter than its hash.
LEMMA BeforeShorter ==
    ASSUME NEW table, NEW n, RowsBelow(table, n), verifyChain(table), NEW r \in table
    PROVE  /\ r.prev = Before(table, r) /\ r.hash = Append(Before(table, r), r.entry)
           /\ Before(table, r) \in Hashes
           /\ Len(r.hash) = Len(Before(table, r)) + 1
           /\ Len(Before(table, r)) \in Nat
<1>1. r.prev = Before(table, r) /\ r.hash = Append(Before(table, r), r.entry)
  BY DEF verifyChain
<1>2. RowsBelow({s \in table : s.id < r.id}, n)
  BY PartBelow
<1>3. Before(table, r) \in Hashes /\ Len(Before(table, r)) \in Nat
  BY <1>2, HashIs DEF Before
<1> QED BY <1>1, <1>3, AppendsGrow

\* An entry that says something else no longer has its hash.
LEMMA EditedShows ==
    ASSUME NEW table, NEW n, RowsBelow(table, n), verifyChain(table),
           NEW r \in table, NEW e, e # r.entry
    PROVE  ~verifyChain((table \ {r}) \cup {[r EXCEPT !.entry = e]})
<1> DEFINE x == [r EXCEPT !.entry = e]
           edited == (table \ {r}) \cup {x}
<1>1. r = [id |-> r.id, entry |-> r.entry, prev |-> r.prev, hash |-> r.hash] /\ r.id \in Nat
  BY DEF RowsBelow, TrailRows
<1>2. x.id = r.id /\ x.entry = e /\ x.hash = r.hash
  BY <1>1
<1> HIDE DEF x
<1>3. {s \in edited : s.id < x.id} = {s \in table : s.id < r.id}
  BY <1>1, <1>2
<1>4. Before(edited, x) = Before(table, r)
  BY <1>3 DEF Before
<1>5. SUFFICES ASSUME verifyChain(edited) PROVE FALSE
  BY DEF x
<1>6. r.hash = Append(Before(table, r), e)
  <2>1. x \in edited
    OBVIOUS
  <2>2. x.hash = Append(Before(edited, x), x.entry)
    BY <1>5, <2>1 DEF verifyChain
  <2> QED BY <1>2, <1>4, <2>2
<1> DEFINE b == Before(table, r)
<1>7. b \in Hashes /\ r.hash = Append(b, r.entry) /\ r.hash = Append(b, e)
  BY <1>6, BeforeShorter
<1> HIDE DEF b
<1> QED BY <1>7, AppendsGrow

\* A row that was taken out is missed by the row behind it.
LEMMA RemovedShows ==
    ASSUME NEW table, NEW n, RowsBelow(table, n), verifyChain(table), Longer(table),
           NEW r \in table, NEW later \in table, later.id > r.id
    PROVE  ~verifyChain(table \ {r})
<1> DEFINE behind == {s.id : s \in {t \in table : t.id > r.id}}
<1>0. \A s \in table : s.id \in Nat
  BY DEF RowsBelow, TrailRows
<1>1. behind \subseteq Nat /\ behind # {}
  BY <1>0
<1>2. PICK m \in behind : \A k \in behind : m <= k
  <2> HIDE DEF behind
  <2> QED BY <1>1, LeastExists
<1>3. PICK s \in table : s.id = m /\ s.id > r.id
  BY <1>2
<1>4. \A t \in table : t.id < s.id => t.id <= r.id
  BY <1>0, <1>2, <1>3
<1> DEFINE left == table \ {r}
<1>5. SUFFICES ASSUME verifyChain(left) PROVE FALSE
  OBVIOUS
<1>6. s \in left /\ RowsBelow(left, n)
  BY <1>0, <1>3, PartBelow
<1>7. Before(left, s) = s.prev /\ Before(table, s) = s.prev
  BY <1>5, <1>6 DEF verifyChain
<1>8. Before(table, s) = r.hash
  <2> DEFINE front == {t \in table : t.id < s.id}
  <2>1. RowsBelow(front, n) /\ r \in front
    BY <1>0, <1>3, PartBelow
  <2> HIDE DEF front
  <2>2. PICK last \in front : HashOf(front) = last.hash /\ \A t \in front : t.id <= last.id
    BY <2>1, HashIs
  <2>3. last.id <= r.id /\ last \in table
    BY <1>4, <2>2 DEF front
  <2>4. last.id = r.id
    BY <1>0, <2>1, <2>2, <2>3
  <2>5. last = r
    BY <2>3, <2>4 DEF RowsBelow
  <2> QED BY <2>2, <2>5 DEF Before, front
<1> DEFINE front == {t \in left : t.id < s.id}
<1>9. RowsBelow(front, n)
  BY <1>6, PartBelow
<1>10. HashOf(front) = r.hash
  BY <1>7, <1>8 DEF Before
<1>11. r.hash # <<>>
  BY BeforeShorter, AppendsGrow
<1>12. front # {}
  <2> HIDE DEF front
  <2> QED BY <1>9, <1>10, <1>11, HashIs
<1>13. PICK last \in front : HashOf(front) = last.hash
  <2> HIDE DEF front
  <2> QED BY <1>9, <1>12, HashIs
<1>14. last \in table /\ last # r /\ last.id < r.id
  <2>1. last \in table /\ last # r /\ last.id <= r.id
    BY <1>4
  <2>2. last.id # r.id
    BY <2>1 DEF RowsBelow
  <2> QED BY <1>0, <2>1, <2>2
<1>15. Len(last.hash) < Len(r.hash)
  BY <1>14 DEF Longer
<1>16. Len(r.hash) \in Nat
  BY DEF RowsBelow, TrailRows, Hashes
<1> QED BY <1>10, <1>13, <1>15, <1>16

\* Of two rows that changed places, the later has a history that is too long.
LEMMA SwapShows ==
    ASSUME NEW table, NEW n, RowsBelow(table, n), verifyChain(table), Longer(table),
           NEW lo \in table, NEW hi \in table, lo.id < hi.id,
           NEW x, x = [hi EXCEPT !.id = lo.id], NEW y, y.id = hi.id
    PROVE  ~verifyChain(((table \ {lo}) \ {hi}) \cup {x, y})
<1> DEFINE swapped == ((table \ {lo}) \ {hi}) \cup {x, y}
<1>0. \A s \in table : s.id \in Nat
  BY DEF RowsBelow, TrailRows
<1>1. hi = [id |-> hi.id, entry |-> hi.entry, prev |-> hi.prev, hash |-> hi.hash]
  BY DEF RowsBelow, TrailRows
<1>2. x.id = lo.id /\ x.prev = hi.prev
  BY <1>1
<1>3. {s \in swapped : s.id < x.id} = {s \in table : s.id < lo.id}
  <2>1. ~(lo.id < lo.id) /\ ~(hi.id < lo.id)
    BY <1>0
  <2>2. ~(x.id < x.id) /\ ~(y.id < x.id)
    BY <1>2, <2>1
  <2> QED BY <1>2, <2>1, <2>2
<1>4. Before(swapped, x) = Before(table, lo)
  BY <1>3 DEF Before
<1>5. SUFFICES ASSUME verifyChain(swapped) PROVE FALSE
  OBVIOUS
<1>6. hi.prev = Before(table, lo)
  <2>1. x \in swapped
    OBVIOUS
  <2> QED BY <1>2, <1>4, <1>5, <2>1 DEF verifyChain
<1>7. hi.prev = Before(table, hi)
  BY DEF verifyChain
<1> DEFINE front == {t \in table : t.id < hi.id}
<1>8. RowsBelow(front, n) /\ lo \in front
  BY PartBelow
<1>9. PICK last \in front : HashOf(front) = last.hash /\ \A t \in front : t.id <= last.id
  <2> HIDE DEF front
  <2> QED BY <1>8, HashIs
<1>10. Before(table, hi) = last.hash /\ last \in table /\ lo.id <= last.id
  BY <1>8, <1>9 DEF Before
<1>11. Len(lo.hash) <= Len(last.hash) /\ Len(lo.hash) \in Nat /\ Len(last.hash) \in Nat
  <2>1. lo.id < last.id \/ lo = last
    BY <1>0, <1>10 DEF RowsBelow
  <2>2. Len(lo.hash) \in Nat /\ Len(last.hash) \in Nat
    BY <1>10 DEF RowsBelow, TrailRows, Hashes
  <2> QED BY <1>10, <2>1, <2>2 DEF Longer
<1>12. Len(lo.hash) = Len(Before(table, lo)) + 1 /\ Len(Before(table, lo)) \in Nat
  BY BeforeShorter
<1>13. last.hash = Before(table, lo)
  BY <1>6, <1>7, <1>10
<1> QED BY <1>11, <1>12, <1>13

\* The trail tells wherever the invariant holds.
LEMMA TrailFollows == ASSUME TrailInv PROVE TrailTells
<1> DEFINE others(r) == audit_log \ {r}
           entries == {Content[a] : a \in Actions}
<1>1. RowsBelow(audit_log, nextId) /\ verifyChain(audit_log) /\ Longer(audit_log)
  BY DEF TrailInv, TrailTypes
<1>2. \A r \in audit_log : r.id \in Nat
  BY <1>1 DEF RowsBelow, TrailRows
<1>3. ASSUME NEW r \in audit_log, NEW e \in entries \ {r.entry}
      PROVE  ~verifyChain(others(r) \cup {[r EXCEPT !.entry = e]})
  BY <1>1, <1>3, EditedShows
<1>4. ASSUME NEW r \in audit_log, NEW s \in audit_log, s.id > r.id
      PROVE  ~verifyChain(others(r))
  BY <1>1, <1>4, RemovedShows
<1>5. ASSUME NEW r \in audit_log, NEW s \in others(r)
      PROVE  ~verifyChain((others(r) \ {s}) \cup {[r EXCEPT !.id = s.id], [s EXCEPT !.id = r.id]})
  <2> DEFINE x == [r EXCEPT !.id = s.id]
             y == [s EXCEPT !.id = r.id]
  <2>1. x.id = s.id /\ y.id = r.id
    BY <1>1 DEF RowsBelow, TrailRows
  <2>2. r.id < s.id \/ s.id < r.id
    <3>1. r.id # s.id
      BY <1>1 DEF RowsBelow
    <3> QED BY <1>2, <3>1
  <2>3. CASE r.id < s.id
    <3>1. ~verifyChain(((audit_log \ {r}) \ {s}) \cup {y, x})
      BY <1>1, <2>1, <2>3, SwapShows
    <3>2. {y, x} = {x, y}
      OBVIOUS
    <3> QED BY <3>1, <3>2
  <2>4. CASE s.id < r.id
    <3>1. ~verifyChain(((audit_log \ {s}) \ {r}) \cup {x, y})
      BY <1>1, <2>1, <2>4, SwapShows
    <3>2. (audit_log \ {s}) \ {r} = (audit_log \ {r}) \ {s}
      OBVIOUS
    <3> QED BY <3>1, <3>2
  <2> QED BY <2>2, <2>3, <2>4
<1>6. /\ Cardinality(audit_log) = Cardinality({a \in Actions : writing[a] = "recorded"})
      /\ \A a \in Actions : writing[a] = "recorded" => a \in applied
      /\ \A a \in applied : writing[a] # "recorded" => a \in Afterwards
  BY DEF TrailInv, TrailTypes, Tallied, RecordedActions
<1>7. \A r \in audit_log :
         /\ \A e \in entries \ {r.entry} : ~verifyChain(others(r) \cup {[r EXCEPT !.entry = e]})
         /\ (\E s \in audit_log : s.id > r.id) => ~verifyChain(others(r))
         /\ \A s \in others(r) :
              ~verifyChain((others(r) \ {s}) \cup {[r EXCEPT !.id = s.id], [s EXCEPT !.id = r.id]})
  BY <1>3, <1>4, <1>5, Zenon
<1>8. verifyChain(audit_log)
  BY <1>1
<1>9. \A a \in applied \ {b \in Actions : writing[b] = "recorded"} : a \in Afterwards
  BY <1>6 DEF TrailInv, TrailTypes
<1>10. \A a \in Actions : a \in {b \in Actions : writing[b] = "recorded"} => a \in applied
  BY <1>6
<1> QED BY <1>6, <1>7, <1>8, <1>9, <1>10, Zenon DEF TrailTells

\* However writers interleave, the trail verifies, and verifies no longer once a
\* row is edited, moved or taken out from before another (auditService.ts).
THEOREM TrailAlwaysTells == TrailSpec => []TrailTells
<1>1. TrailInit => TrailInv
  BY TrailStarts
<1> QED BY <1>1, TrailStep, TrailFollows, PTL DEF TrailSpec

-----------------------------------------------------------------------------
(* Migrations                                                              *)

\* Numbered from 1 without gaps, as files and rows are.
Numbered(files) ==
    /\ files \subseteq Nat \ {0}
    /\ \A f \in files : f = 1 \/ f - 1 \in files

\* No number is missing below one that is there.
LEMMA NothingBehind ==
    ASSUME NEW files, Numbered(files), NEW f \in Nat \ {0}, f \notin files
    PROVE  \A g \in files : g < f
<1> SUFFICES ASSUME NEW g \in files, ~(g < f) PROVE FALSE
  OBVIOUS
<1> DEFINE behind == {h \in files : h >= f}
<1>1. behind \subseteq Nat /\ g \in behind
  <2>1. g \in Nat \ {0} /\ g >= f
    BY DEF Numbered
  <2>2. files \subseteq Nat
    BY DEF Numbered
  <2> QED BY <2>1, <2>2
<1>2. PICK h \in behind : \A i \in behind : h <= i
  <2> HIDE DEF behind
  <2> QED BY <1>1, LeastExists
<1>3. h \in Nat /\ h > f
  BY <1>1, <1>2 DEF Numbered
<1>4. h - 1 \in files
  BY <1>2, <1>3 DEF Numbered
<1>5. h - 1 \in behind
  BY <1>3, <1>4
<1> QED BY <1>2, <1>3, <1>5

\* What Least is.
LEMMA LeastIs ==
    ASSUME NEW files, files \subseteq Nat, files # {}
    PROVE  Least(files) \in files /\ \A g \in files : Least(files) <= g
BY LeastExists DEF Least

\* The files of every release are numbered.
LEMMA ReleasesNumbered ==
    ASSUME NEW r \in Releases
    PROVE  Numbered(Numbers(DOMAIN r)) /\ DOMAIN r \subseteq Files
<1>1. PICK files \in SUBSET Files : verifyMigrationFiles(files) /\ r \in [files -> Contents]
  BY DEF Releases
<1>2. DOMAIN r = files /\ files \subseteq Files
  BY <1>1
<1>3. Numbers(files) \subseteq Nat
  BY <1>2, FilesAssumption DEF Numbers
<1>4. CASE files # {}
  <2> DEFINE numbers == Numbers(files)
  <2>1. numbers \subseteq Nat /\ numbers # {}
    BY <1>3, <1>4 DEF Numbers
  <2>2. /\ Least(numbers) = 1
        /\ \A n \in numbers : n = 1 \/ n - 1 \in numbers
    BY <1>1, <1>4 DEF verifyMigrationFiles
  <2> HIDE DEF numbers
  <2>3. \A n \in numbers : 1 <= n
    BY <2>1, <2>2, LeastIs
  <2>4. Numbered(numbers)
    BY <2>1, <2>2, <2>3 DEF Numbered
  <2> QED BY <1>2, <2>4 DEF numbers
<1>5. CASE files = {}
  <2>1. Numbers(files) = {}
    BY <1>5 DEF Numbers
  <2> QED BY <1>2, <2>1 DEF Numbered
<1> QED BY <1>4, <1>5

\* The variables of the runners, in their types.
MigrationTypes ==
    /\ release \in [Processes -> Releases]
    /\ lockedBy \subseteq Processes
    /\ DOMAIN boot = Processes
    /\ DOMAIN readRows = Processes
    /\ ran \in Seq(Files)

\* Whoever migrates has the lock, alone, and has read what is there.
Exclusive ==
    /\ \A p \in Processes : boot[p] = "migrating" => p \in lockedBy /\ readRows[p] = rowsOf
    /\ \A p \in lockedBy : boot[p] = "migrating"
    /\ \A p, q \in lockedBy : p = q

\* What ran before the j-th sorts before it, or its number was used.
Displaced(j) ==
    \A i \in 1 .. j - 1 :
        ran[i] > ran[j] => \E k \in 1 .. j - 1 : Number[ran[k]] = Number[ran[j]]

\* What ran is what has a row.
RanIsRecorded ==
    /\ DOMAIN rowsOf \subseteq Files
    /\ Numbered(Numbers(DOMAIN rowsOf))
    /\ \A i \in 1 .. Len(ran) : ran[i] \in DOMAIN rowsOf
    /\ \A f \in DOMAIN rowsOf : \E i \in 1 .. Len(ran) : ran[i] = f
    /\ \A i, j \in 1 .. Len(ran) : i < j => ran[i] # ran[j]
    /\ \A j \in 1 .. Len(ran) : Displaced(j)

\* The files of a process are all there.
UpToDate(p) == \A f \in DOMAIN release[p] : f \in DOMAIN rowsOf /\ rowsOf[f] = release[p][f]
Contradicted(p) == \E f \in DOMAIN release[p] \cap DOMAIN rowsOf : rowsOf[f] # release[p][f]

BootOutcome(p) ==
    /\ boot[p] = "up" => UpToDate(p)
    /\ boot[p] # "duplicate"
    /\ boot[p] = "mismatch" => Contradicted(p)

MigrationsInv ==
    /\ MigrationTypes /\ Exclusive /\ RanIsRecorded
    /\ \A p \in Processes : BootOutcome(p)

\* Nothing has run at first.
LEMMA MigrationsStart == ASSUME MigrationsInit PROVE MigrationsInv
<1>1. /\ DOMAIN rowsOf = {} /\ Len(ran) = 0 /\ ran \in Seq(Files)
      /\ Numbers(DOMAIN rowsOf) = {}
  BY DEF MigrationsInit, NoRows, Numbers
<1> QED BY <1>1 DEF MigrationsInit, MigrationsInv, MigrationTypes, Exclusive, RanIsRecorded,
                    BootOutcome, Numbered

\* A process that waited for the lock begins.
LEMMA BeginKeeps ==
    ASSUME MigrationsInv, NEW p \in Processes, Begin(p)
    PROVE  MigrationsInv'
<1>1. /\ lockedBy = {} /\ lockedBy' = {p}
      /\ readRows' = [readRows EXCEPT ![p] = rowsOf]
      /\ boot' = [boot EXCEPT ![p] = "migrating"]
      /\ UNCHANGED <<release, rowsOf, ran>>
  BY DEF Begin, LockOpen
<1>2. \A q \in Processes : /\ q # p => boot'[q] = boot[q]
                           /\ boot'[p] = "migrating" /\ readRows'[p] = rowsOf
  BY <1>1 DEF MigrationsInv, MigrationTypes
<1>3. MigrationTypes'
  BY <1>1 DEF MigrationsInv, MigrationTypes
<1>4. Exclusive'
  BY <1>1, <1>2 DEF MigrationsInv, Exclusive
<1>5. \A q \in Processes : BootOutcome(q)'
  BY <1>1, <1>2 DEF MigrationsInv, BootOutcome, UpToDate, Contradicted
<1>6. RanIsRecorded'
  BY <1>1 DEF MigrationsInv, RanIsRecorded, Displaced
<1> QED BY <1>3, <1>4, <1>5, <1>6 DEF MigrationsInv

\* A process that ends, up or not, leaves the lock to others.
LEMMA EndedKeeps ==
    ASSUME MigrationsInv, NEW p \in Processes, NEW how, Ended(p, how),
           UNCHANGED <<release, rowsOf, ran>>,
           how # "migrating", how # "duplicate",
           how = "up" => UpToDate(p),
           how = "mismatch" => Contradicted(p)
    PROVE  MigrationsInv'
<1>1. /\ lockedBy' = lockedBy \ {p}
      /\ readRows' = [readRows EXCEPT ![p] = NoRows]
      /\ boot' = [boot EXCEPT ![p] = how]
  BY DEF Ended
<1>2. /\ boot'[p] = how
      /\ \A q \in Processes : q # p => boot'[q] = boot[q] /\ readRows'[q] = readRows[q]
  BY <1>1 DEF MigrationsInv, MigrationTypes
<1>3. MigrationTypes'
  BY <1>1 DEF MigrationsInv, MigrationTypes
<1>4. Exclusive'
  BY <1>1, <1>2 DEF MigrationsInv, MigrationTypes, Exclusive
<1>5. \A q \in Processes : BootOutcome(q)'
  BY <1>1, <1>2 DEF MigrationsInv, BootOutcome, UpToDate, Contradicted
<1>6. RanIsRecorded'
  BY DEF MigrationsInv, RanIsRecorded, Displaced
<1> QED BY <1>3, <1>4, <1>5, <1>6 DEF MigrationsInv

\* The file whose turn it is follows those that have a row, or one of them has
\* its number.
LEMMA TurnIs ==
    ASSUME MigrationsInv, NEW p \in Processes, NEW f, Turn(p, f)
    PROVE  /\ p \in lockedBy /\ readRows[p] = rowsOf
           /\ f \in DOMAIN release[p] /\ f \in Files
           /\ f \in DOMAIN rowsOf => Contradicted(p)
           /\ Numbered(Numbers(DOMAIN rowsOf \cup {f}))
           /\ \A g \in DOMAIN rowsOf :
                g > f => \E h \in DOMAIN rowsOf : Number[h] = Number[f]
<1>1. /\ p \in lockedBy /\ readRows[p] = rowsOf /\ f \in Unsettled(p)
      /\ f = Least(Unsettled(p))
  BY DEF Turn, MigrationsInv, Exclusive
<1>2. /\ Numbered(Numbers(DOMAIN release[p])) /\ DOMAIN release[p] \subseteq Files
      /\ f \in DOMAIN release[p]
  BY <1>1, ReleasesNumbered DEF MigrationsInv, MigrationTypes, Unsettled
<1>3. Unsettled(p) \subseteq Nat
  BY <1>2, FilesAssumption DEF Unsettled
<1>4. f \in Nat /\ \A g \in Unsettled(p) : f <= g
  BY <1>1, <1>3, LeastIs
<1>5. f \in DOMAIN rowsOf => Contradicted(p)
  BY <1>1, <1>2 DEF Unsettled, Contradicted
<1>6. Number[f] \in Nat \ {0} /\ f \in Files
  BY <1>2 DEF Numbered, Numbers
<1>7. Number[f] = 1 \/ Number[f] - 1 \in Numbers(DOMAIN rowsOf)
  <2> SUFFICES ASSUME Number[f] # 1 PROVE Number[f] - 1 \in Numbers(DOMAIN rowsOf)
    OBVIOUS
  <2>1. PICK h \in DOMAIN release[p] : Number[h] = Number[f] - 1
    BY <1>2 DEF Numbered, Numbers
  <2>2. h \in Files /\ h \in Nat /\ ~(f <= h)
    <3>1. h \in Files /\ h \in Nat
      BY <1>2, FilesAssumption
    <3>2. ~(Number[f] <= Number[h])
      BY <1>6, <2>1
    <3> QED BY <1>6, <3>1, <3>2, FilesAssumption
  <2>3. h \notin Unsettled(p)
    BY <1>4, <2>2
  <2>4. h \in DOMAIN rowsOf
    BY <1>1, <2>3 DEF Unsettled
  <2> QED BY <2>1, <2>4 DEF Numbers
<1>8. DOMAIN rowsOf \subseteq Files /\ Numbered(Numbers(DOMAIN rowsOf))
  BY DEF MigrationsInv, RanIsRecorded
<1>9. Numbered(Numbers(DOMAIN rowsOf \cup {f}))
  <2>1. Numbers(DOMAIN rowsOf \cup {f}) = Numbers(DOMAIN rowsOf) \cup {Number[f]}
    BY DEF Numbers
  <2> DEFINE numbers == Numbers(DOMAIN rowsOf)
             n == Number[f]
  <2>2. Numbered(numbers) /\ n \in Nat \ {0} /\ (n = 1 \/ n - 1 \in numbers)
    BY <1>6, <1>7, <1>8
  <2> HIDE DEF numbers, n
  <2>3. Numbered(numbers \cup {n})
    BY <2>2 DEF Numbered
  <2> QED BY <2>1, <2>3 DEF numbers, n
<1>10. ASSUME NEW g \in DOMAIN rowsOf, g > f
       PROVE  \E h \in DOMAIN rowsOf : Number[h] = Number[f]
  <2> SUFFICES ASSUME \A h \in DOMAIN rowsOf : Number[h] # Number[f] PROVE FALSE
    OBVIOUS
  <2>1. Number[f] \notin Numbers(DOMAIN rowsOf)
    BY DEF Numbers
  <2>2. \A n \in Numbers(DOMAIN rowsOf) : n < Number[f]
    BY <1>6, <1>8, <2>1, NothingBehind
  <2>3. Number[g] < Number[f] /\ Number[g] \in Nat
    BY <1>8, <2>2, FilesAssumption DEF Numbers
  <2>4. g \in Files /\ f <= g
    <3>1. g \in Files /\ Files \subseteq Nat
      BY <1>8, FilesAssumption
    <3>2. g \in Nat /\ f \in Nat /\ g > f
      BY <1>4, <1>10, <3>1
    <3> QED BY ONLY <3>1, <3>2
  <2>5. Number[f] <= Number[g]
    BY <1>6, <2>4, FilesAssumption
  <2> QED BY <1>6, <2>3, <2>5
<1> QED BY <1>1, <1>2, <1>5, <1>6, <1>9, <1>10

\* A file is run, and its row is there with it.
LEMMA ApplyFileKeeps ==
    ASSUME MigrationsInv, NEW p \in Processes, NEW f, ApplyFile(p, f)
    PROVE  MigrationsInv'
<1> DEFINE with == [g \in DOMAIN rowsOf \cup {f} |-> IF g = f THEN release[p][f] ELSE rowsOf[g]]
<1>1. /\ p \in lockedBy /\ readRows[p] = rowsOf
      /\ f \in Files
      /\ Numbered(Numbers(DOMAIN rowsOf \cup {f}))
      /\ \A g \in DOMAIN rowsOf :
           g > f => \E h \in DOMAIN rowsOf : Number[h] = Number[f]
      /\ f \notin DOMAIN rowsOf
  BY TurnIs DEF ApplyFile
<1>2. /\ rowsOf' = with /\ readRows' = [readRows EXCEPT ![p] = with]
      /\ ran' = Append(ran, f)
      /\ UNCHANGED <<release, lockedBy, boot>>
  BY <1>1 DEF ApplyFile
<1>3. /\ DOMAIN rowsOf' = DOMAIN rowsOf \cup {f}
      /\ \A g \in DOMAIN rowsOf : rowsOf'[g] = rowsOf[g]
  BY <1>1, <1>2
<1>4. MigrationTypes'
  BY <1>1, <1>2 DEF MigrationsInv, MigrationTypes
<1>5. Exclusive'
  <2>1. \A q \in lockedBy : q = p
    BY <1>1 DEF MigrationsInv, Exclusive
  <2>2. readRows'[p] = rowsOf'
    BY <1>2 DEF MigrationsInv, MigrationTypes
  <2> QED BY <1>2, <2>1, <2>2 DEF MigrationsInv, Exclusive
<1>6. RanIsRecorded'
  <2>1. /\ Len(ran) \in Nat /\ Len(ran') = Len(ran) + 1
        /\ ran'[Len(ran) + 1] = f
        /\ \A i \in 1 .. Len(ran) : ran'[i] = ran[i] /\ i \in 1 .. Len(ran')
    BY <1>1, <1>2 DEF MigrationsInv, MigrationTypes
  <2>2. \A i \in 1 .. Len(ran') : i \in 1 .. Len(ran) \/ i = Len(ran) + 1
    BY <2>1
  <2>3. RanIsRecorded
    BY DEF MigrationsInv
  <2>4. DOMAIN rowsOf' \subseteq Files /\ Numbered(Numbers(DOMAIN rowsOf'))
    BY <1>1, <1>3, <2>3 DEF RanIsRecorded
  <2>5. \A i \in 1 .. Len(ran') : ran'[i] \in DOMAIN rowsOf'
    BY <1>3, <2>1, <2>2, <2>3 DEF RanIsRecorded
  <2>6. \A g \in DOMAIN rowsOf' : \E i \in 1 .. Len(ran') : ran'[i] = g
    <3>1. Len(ran) + 1 \in 1 .. Len(ran')
      BY <2>1
    <3> QED BY <1>3, <2>1, <2>3, <3>1 DEF RanIsRecorded
  <2>7. ASSUME NEW i \in 1 .. Len(ran'), NEW j \in 1 .. Len(ran'), i < j
        PROVE  ran'[i] # ran'[j]
    <3>1. i \in 1 .. Len(ran)
      BY <2>1, <2>2, <2>7
    <3>2. CASE j \in 1 .. Len(ran)
      BY <2>1, <2>3, <2>7, <3>1, <3>2 DEF RanIsRecorded
    <3>3. CASE j = Len(ran) + 1
      BY <1>1, <2>1, <2>3, <3>1, <3>3 DEF RanIsRecorded
    <3> QED BY <2>2, <3>2, <3>3
  <2>8. ASSUME NEW j \in 1 .. Len(ran') PROVE Displaced(j)'
    <3>1. CASE j \in 1 .. Len(ran)
      <4>1. \A i \in 1 .. j - 1 : ran'[i] = ran[i]
        BY <2>1, <3>1
      <4>2. ran'[j] = ran[j] /\ Displaced(j)
        BY <2>1, <2>3, <3>1 DEF RanIsRecorded
      <4> QED BY <4>1, <4>2 DEF Displaced
    <3>2. CASE j = Len(ran) + 1
      <4>1. 1 .. j - 1 = 1 .. Len(ran)
        BY <2>1, <3>2
      <4>2. \A i \in 1 .. Len(ran) : ran'[i] = ran[i] /\ ran[i] \in DOMAIN rowsOf
        BY <2>1, <2>3 DEF RanIsRecorded
      <4>3. \A h \in DOMAIN rowsOf : \E k \in 1 .. Len(ran) : ran[k] = h
        BY <2>3 DEF RanIsRecorded
      <4>4. ran'[j] = f
        BY <2>1, <3>2
      <4>5. ASSUME NEW i \in 1 .. j - 1, ran'[i] > ran'[j]
            PROVE  \E k \in 1 .. j - 1 : Number[ran'[k]] = Number[ran'[j]]
        <5>1. ran'[i] \in DOMAIN rowsOf /\ ran'[i] > f
          BY <4>1, <4>2, <4>4, <4>5
        <5>2. PICK h \in DOMAIN rowsOf : Number[h] = Number[f]
          BY <1>1, <5>1
        <5>3. PICK k \in 1 .. Len(ran) : ran[k] = h
          BY <4>3
        <5> QED BY <4>1, <4>2, <4>4, <5>2, <5>3
      <4> QED BY <4>5 DEF Displaced
    <3> QED BY <2>2, <3>1, <3>2
  <2> QED BY <2>4, <2>5, <2>6, <2>7, <2>8 DEF RanIsRecorded
<1>7. \A q \in Processes : BootOutcome(q)'
  BY <1>2, <1>3 DEF MigrationsInv, BootOutcome, UpToDate, Contradicted
<1> QED BY <1>4, <1>5, <1>6, <1>7 DEF MigrationsInv

\* Every step of a runner keeps the invariant.
LEMMA MigrationsStep == MigrationsInv /\ [MigrationsNext]_migrationVars => MigrationsInv'
<1> SUFFICES ASSUME MigrationsInv, [MigrationsNext]_migrationVars PROVE MigrationsInv'
  OBVIOUS
<1>1. ASSUME NEW p \in Processes, Begin(p) PROVE MigrationsInv'
  BY <1>1, BeginKeeps
<1>2. ASSUME NEW p \in Processes, Listen(p) PROVE MigrationsInv'
  <2>1. /\ boot[p] = "migrating" /\ Unsettled(p) = {} /\ Ended(p, "up")
        /\ UNCHANGED <<release, rowsOf, ran>>
    BY <1>2 DEF Listen
  <2>2. UpToDate(p)
    BY <2>1 DEF Unsettled, UpToDate, MigrationsInv, Exclusive
  <2> QED BY <2>1, <2>2, EndedKeeps
<1>3. ASSUME NEW p \in Processes, Restarted(p) PROVE MigrationsInv'
  BY <1>3, EndedKeeps DEF Restarted
<1>4. ASSUME NEW p \in Processes, NEW f \in Files, ApplyFile(p, f) PROVE MigrationsInv'
  BY <1>4, ApplyFileKeeps
<1>5. ASSUME NEW p \in Processes, NEW f \in Files, FileFails(p, f) PROVE MigrationsInv'
  <2>1. Turn(p, f) /\ f \notin DOMAIN rowsOf
    BY <1>5, TurnIs DEF FileFails
  <2> QED BY <1>5, <2>1, EndedKeeps DEF FileFails
<1>6. ASSUME NEW p \in Processes, NEW f \in Files, Mismatch(p, f) PROVE MigrationsInv'
  <2>1. Contradicted(p)
    BY <1>6, TurnIs DEF Mismatch
  <2> QED BY <1>6, <2>1, EndedKeeps DEF Mismatch
<1>7. CASE UNCHANGED migrationVars
  BY <1>7 DEF migrationVars, MigrationsInv, MigrationTypes, Exclusive, RanIsRecorded,
              Displaced, BootOutcome, UpToDate, Contradicted
<1> QED BY <1>1, <1>2, <1>3, <1>4, <1>5, <1>6, <1>7 DEF MigrationsNext

\* The migrations are sound wherever the invariant holds.
LEMMA MigrationsFollow == ASSUME MigrationsInv PROVE MigrationsSound
<1>1. DOMAIN ran = 1 .. Len(ran)
  BY DEF MigrationsInv, MigrationTypes
<1>2. ToSet(ran) = DOMAIN rowsOf
  BY <1>1 DEF ToSet, MigrationsInv, RanIsRecorded
<1>3. \A p \in Processes :
        /\ UpToDate(p) => Behind(p) = {} /\ ChecksumMismatches(p) = {}
        /\ Contradicted(p) => ChecksumMismatches(p) # {}
  BY DEF UpToDate, Contradicted, Behind, ChecksumMismatches
<1> QED BY <1>1, <1>2, <1>3
        DEF MigrationsSound, MigrationsInv, RanIsRecorded, Displaced, BootOutcome

\* However processes boot and die, a file takes effect once, out of order only
\* where its number was used before, and who is up has its files applied as it
\* has them (migrate.ts).
THEOREM MigrationsAlwaysSound == MigrationsSpec => []MigrationsSound
<1>1. MigrationsInit => MigrationsInv
  BY MigrationsStart
<1> QED BY <1>1, MigrationsStep, MigrationsFollow, PTL DEF MigrationsSpec

-----------------------------------------------------------------------------
(* Reports of failures                                                     *)

\* Every failure is in one place only, and in one of them.
OnePlace ==
    /\ inFlight \cap arrived = {} /\ inFlight \cap givenUp = {} /\ inFlight \cap thrown = {}
    /\ inFlight \cap lost = {} /\ arrived \cap givenUp = {} /\ arrived \cap thrown = {}
    /\ arrived \cap lost = {} /\ givenUp \cap thrown = {} /\ givenUp \cap lost = {}
    /\ thrown \cap lost = {}

AllPlaces == inFlight \cup arrived \cup givenUp \cup thrown \cup lost

\* A flush waits for something where there is a monitor, and nothing is under
\* way in a process that has ended.
ReportsInv ==
    /\ OnePlace
    /\ reporter \in {"sentry", "noop"}
    /\ reporter = "sentry" => happened = AllPlaces
    /\ reporter = "noop" => AllPlaces = {}
    /\ thrown \subseteq Unprintable
    /\ process = "up" => lost = {}
    /\ process # "up" => inFlight = {}
    /\ reporter = "sentry" => {} \notin flushes
    /\ process = "flushed" /\ reporter = "sentry" => \E reports \in flushes : reports \cap lost = {}

\* Nothing has failed at first.
LEMMA ReportsStart == ASSUME ReportsInit PROVE ReportsInv
BY DEF ReportsInit, ReportsInv, OnePlace, AllPlaces, reporterFromEnv

\* A failure is reported, or its report cannot be written.
LEMMA FailuresKeep ==
    ASSUME ReportsInv, NEW f, New(f), reporter' = reporter, UNCHANGED <<arrived, givenUp>>,
           \/ /\ Throws(f) /\ f \in Unprintable
              /\ thrown' = thrown \cup {f} /\ inFlight' = inFlight
           \/ ~Throws(f) /\ thrown' = thrown /\ inFlight' = Captured(f)
           \/ reporter = "sentry" /\ thrown' = thrown /\ inFlight' = Captured(f),
           UNCHANGED <<process, lost>>,
           flushes' = flushes \/ flushes' = flushes \cup {Awaited(f)}
    PROVE  ReportsInv'
<1>1. f \notin AllPlaces /\ happened' = happened \cup {f} /\ process = "up"
  BY DEF New, ReportsInv
<1>2. CASE reporter = "sentry"
  <2>1. Captured(f) = inFlight \cup {f} /\ Awaited(f) # {}
    BY <1>2 DEF Captured, Awaited
  <2> QED BY <1>1, <1>2, <2>1 DEF ReportsInv, OnePlace, AllPlaces
<1>3. CASE reporter = "noop"
  <2>1. Captured(f) = inFlight /\ ~Throws(f)
    BY <1>3 DEF Captured, Throws
  <2> QED BY <1>1, <1>3, <2>1 DEF ReportsInv, OnePlace, AllPlaces
<1> QED BY <1>2, <1>3 DEF ReportsInv

\* The process ends with what is in flight.
LEMMA EndsKeeps ==
    ASSUME ReportsInv, NEW why, Ends(why), why # "up",
           UNCHANGED <<reporter, happened, arrived, givenUp, thrown, flushes>>,
           why = "flushed" => \E reports \in flushes : reports \cap inFlight = {}
    PROVE  ReportsInv'
BY DEF Ends, ReportsInv, OnePlace, AllPlaces

\* A report that throws ends the process.
LEMMA CrashThrowsKeeps ==
    ASSUME ReportsInv, NEW f, CrashThrows(f)
    PROVE  ReportsInv'
<1>1. /\ process' = "aborted" /\ lost' = lost \cup inFlight /\ inFlight' = {}
      /\ thrown' = thrown \cup {f} /\ UNCHANGED <<reporter, arrived, givenUp, flushes>>
      /\ reporter = "sentry" /\ f \in Unprintable
      /\ happened' = happened \cup {f} /\ f \notin happened
  BY DEF CrashThrows, Throws, Ends, New
<1> QED BY <1>1 DEF ReportsInv, OnePlace, AllPlaces

\* A delivery ends.
LEMMA DeliveryKeeps ==
    ASSUME ReportsInv, NEW f \in inFlight, Delivered(f) \/ DeliveryFails(f)
    PROVE  ReportsInv'
<1>1. reporter = "sentry"
  BY DEF ReportsInv, AllPlaces
<1> QED BY <1>1 DEF Delivered, DeliveryFails, ReportsInv, OnePlace, AllPlaces

\* Every step keeps the reports in place.
LEMMA ReportsStep == ReportsInv /\ [ReportsNext]_reportVars => ReportsInv'
<1> SUFFICES ASSUME ReportsInv, [ReportsNext]_reportVars PROVE ReportsInv'
  OBVIOUS
<1>1. ASSUME NEW f \in Incidents, RouteFails(f) PROVE ReportsInv'
  BY <1>1, FailuresKeep DEF RouteFails, Throws
<1>2. ASSUME NEW f \in Incidents, Rejection(f) PROVE ReportsInv'
  BY <1>2, FailuresKeep DEF Rejection
<1>3. ASSUME NEW f \in Incidents, Crash(f) \/ RejectionThrows(f) PROVE ReportsInv'
  BY <1>3, FailuresKeep DEF Crash, RejectionThrows, CaptureAndFlush, Throws
<1>4. ASSUME NEW f \in Incidents, CrashThrows(f) PROVE ReportsInv'
  BY <1>4, CrashThrowsKeeps
<1>5. ASSUME NEW f \in inFlight, Delivered(f) \/ DeliveryFails(f) PROVE ReportsInv'
  BY <1>5, DeliveryKeeps
<1>6. ASSUME NEW reports \in flushes, FlushDone(reports) PROVE ReportsInv'
  BY <1>6, EndsKeeps DEF FlushDone
<1>7. CASE FlushTimesOut
  BY <1>7, EndsKeeps DEF FlushTimesOut
<1>8. CASE Terminated
  BY <1>8, EndsKeeps DEF Terminated
<1>9. CASE UNCHANGED reportVars
  BY <1>9 DEF reportVars, ReportsInv, OnePlace, AllPlaces
<1> QED BY <1>1, <1>2, <1>3, <1>4, <1>5, <1>6, <1>7, <1>8, <1>9 DEF ReportsNext

\* Every report is accounted for wherever the invariant holds.
LEMMA ReportsFollow == ASSUME ReportsInv PROVE ReportsAccounted
<1> DEFINE ends == <<inFlight, arrived, givenUp, thrown, lost>>
<1>1. /\ ends[1] = inFlight /\ ends[2] = arrived /\ ends[3] = givenUp
      /\ ends[4] = thrown /\ ends[5] = lost
  OBVIOUS
<1>2. \A i \in 1 .. 5 : i \in {1, 2, 3, 4, 5}
  OBVIOUS
<1> HIDE DEF ends
<1>3. UNION {ends[i] : i \in 1 .. 5} = AllPlaces
  BY <1>1, <1>2 DEF AllPlaces
<1>4. \A i, j \in 1 .. 5 : i # j => ends[i] \cap ends[j] = {}
  BY <1>1, <1>2 DEF ReportsInv, OnePlace
<1>5. reporter = "noop" => \A i \in 1 .. 5 : ends[i] = {}
  BY <1>3 DEF ReportsInv
<1>6. process = "flushed" /\ reporter = "sentry" =>
         \E reports \in flushes : reports # {} /\ reports \cap lost = {}
  BY DEF ReportsInv
<1> QED BY <1>3, <1>4, <1>5, <1>6 DEF ReportsInv, ReportsAccounted, ends

\* No report of a failure is lost without a reason (errorReporter.ts).
THEOREM ReportsAlwaysAccounted == ReportsSpec => []ReportsAccounted
<1>1. ReportsInit => ReportsInv
  BY ReportsStart
<1> QED BY <1>1, ReportsStep, ReportsFollow, PTL DEF ReportsSpec
=============================================================================
