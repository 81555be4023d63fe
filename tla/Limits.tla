------------------------------- MODULE Limits -------------------------------
(***************************************************************************)
(* Who is turned away: the rate limit on requests (rateLimit.ts) and the   *)
(* daily budget of calls to the language model (ai/gateway.ts).  Both keep *)
(* their counters in the memory of one process.                            *)
(***************************************************************************)
EXTENDS Integers, FiniteSets, Sums

CONSTANTS
    Staff,        \* tenants whose employees call with an access token
    Lettered,     \* those whose id begins with a letter
    Webhooks,     \* addresses that post webhooks
    Addresses,     \* addresses without a token
    StaffLimit, WebhookLimit, VisitorLimit,  \* requests in a period
    Period,       \* ticks of the clock
    MaxTime,      \* bound: ticks
    CallsPerDay

ASSUME LimitsAssumption ==
    /\ Lettered \subseteq Staff
    /\ IsFiniteSet(Staff) /\ IsFiniteSet(Webhooks) /\ IsFiniteSet(Addresses)
    /\ {StaffLimit, WebhookLimit, VisitorLimit} \subseteq Nat \ {0}
    /\ Period \in Nat \ {0} /\ MaxTime \in Nat /\ CallsPerDay \in Nat \ {0}

VARIABLES
    now,       \* the clock
    bucket,    \* [key -> tokens left, and when they are renewed]
    served,    \* history: [<<caller, time>> -> requests served]
    denied,   \* history: <<caller, time>> of the last refusal
    today,     \* the day, in UTC
    usage,     \* [tenant -> day and calls of that day]
    called     \* history: [tenant -> [day -> calls made]]

limitVars == <<now, bucket, served, denied, today, usage, called>>

Callers == Staff \cup Webhooks \cup Addresses
Clock == 0 .. MaxTime

Kind(c) == IF c \in Webhooks THEN "webhook" ELSE IF c \in Staff THEN "auth" ELSE "ip"
RequestLimit == [webhook |-> WebhookLimit, auth |-> StaffLimit, ip |-> VisitorLimit]

\* The first 32 characters of an access token are its header, the name of the
\* first claim and two bits of the tenant's id, which tell a digit from a letter.
\* (Shoppers with a session, each with a key of its own, are left out.)
bucketKey(c) ==
    [kind |-> Kind(c),
     of |-> IF Kind(c) # "auth" THEN c ELSE IF c \in Lettered THEN "letter" ELSE "digit"]

Keys == {bucketKey(c) : c \in Callers}

\* No bucket yet is an empty one whose time is over.
LimitsInit ==
    /\ now = 0
    /\ bucket = [k \in Keys |-> [tokens |-> 0, resetAt |-> 0]]
    /\ served = [p \in Callers \X Clock |-> 0]
    /\ denied = {}
    /\ today = 1
    /\ usage = [t \in Staff |-> [day |-> 0, calls |-> 0]]
    /\ called = [t \in Staff |-> [d \in 1 .. 2 |-> 0]]

\* Mutant: the tokens are renewed and the time is not.
RenewedTokens(k) ==
    IF bucket[k].resetAt <= now
    THEN [bucket[k] EXCEPT !.tokens = RequestLimit[k.kind]]
    ELSE bucket[k]

\* The bucket a request finds.
Renewed(k) ==
    IF bucket[k].resetAt <= now
    THEN [tokens |-> RequestLimit[k.kind], resetAt |-> now + Period]
    ELSE bucket[k]

Request(c) ==
    LET k == bucketKey(c)
        b == Renewed(k)
    IN  /\ b.tokens > 0
        /\ bucket' = [bucket EXCEPT ![k] = [b EXCEPT !.tokens = @ - 1]]
        /\ served' = [served EXCEPT ![<<c, now>>] = @ + 1]
        /\ UNCHANGED <<now, denied, today, usage, called>>

\* 429, with the time that is left as Retry-After.
TooMany(c) ==
    /\ Renewed(bucketKey(c)).tokens = 0
    /\ denied' = {<<c, now>>}
    /\ UNCHANGED <<now, bucket, served, today, usage, called>>

Tick ==
    /\ now < MaxTime
    /\ now' = now + 1
    /\ UNCHANGED <<bucket, served, denied, today, usage, called>>

\* narrate: the call is counted before it is made, and counts if it fails.
Narrate(t) ==
    LET entry == IF usage[t].day = today THEN usage[t] ELSE [day |-> today, calls |-> 0]
    IN  /\ entry.calls < CallsPerDay
        /\ usage' = [usage EXCEPT ![t] = [entry EXCEPT !.calls = @ + 1]]
        /\ called' = [called EXCEPT ![t][today] = @ + 1]
        /\ UNCHANGED <<now, bucket, served, denied, today>>

Midnight ==
    /\ today = 1
    /\ today' = 2
    /\ UNCHANGED <<now, bucket, served, denied, usage, called>>

\* The clock of the requests and the calendar of the calls have nothing in
\* common: a run may look at them apart.
RequestNext == Tick \/ \E c \in Callers : Request(c) \/ TooMany(c)
BudgetNext == Midnight \/ \E t \in Staff : Narrate(t)

LimitsNext == RequestNext \/ BudgetNext

LimitsSpec == LimitsInit /\ [][LimitsNext]_limitVars

-----------------------------------------------------------------------------
(* Properties                                                              *)

\* Requests of these callers that were served from one time to another.
ServedBetween(callers, from, to) == SumOf(served, callers \X (Clock \cap from .. to))

SameBucket(c) == {d \in Callers : bucketKey(d) = bucketKey(c)}

\* A bucket serves at most twice its limit in a period, however the requests
\* fall on its renewals, and turns away only when the limit was used up within
\* the last period; and no tenant makes more calls in a day than its budget.
LimitsHold ==
    /\ \A c \in Callers, t \in Clock :
         ServedBetween(SameBucket(c), t, t + Period - 1) <= 2 * RequestLimit[Kind(c)]
    /\ \A r \in denied :
         ServedBetween(SameBucket(r[1]), r[2] - Period + 1, r[2]) >= RequestLimit[Kind(r[1])]
    /\ \A t \in Staff : \A d \in 1 .. 2 : called[t][d] <= CallsPerDay

\* Violated.  "Keyed by: tenantId when the request carries a verified access
\* token" (rateLimit.ts:5): who is turned away has used up the limit itself.
TurnedAwayForOwn ==
    \A r \in denied :
        ServedBetween({r[1]}, r[2] - Period + 1, r[2]) >= RequestLimit[Kind(r[1])]
=============================================================================
