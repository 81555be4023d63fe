------------------------------ MODULE EventLog ------------------------------
(***************************************************************************)
(* The product events and the funnels counted over them                    *)
(* (analytics/eventService.ts).  Tills and browsers send batches of events,*)
(* also late and again when they got no answer; a batch is recorded as a   *)
(* whole or not at all, and an event that is there already is ignored.     *)
(***************************************************************************)
EXTENDS Naturals, FiniteSets, FiniteSetsExt, SequencesExt

CONSTANTS
    Event,       \* [ids of events -> [name, session, inWindow]]
    EventNames,  \* the names isEventName accepts
    Batches,     \* the batches that are sent: sequences of ids
    Steps        \* the steps of the funnel: a sequence of names

ASSUME FunnelAssumption ==
    /\ IsFiniteSet(DOMAIN Event)
    /\ Batches \subseteq Seq(DOMAIN Event)
    /\ Steps \in Seq(EventNames) /\ Len(Steps) >= 2     \* else BAD_FUNNEL

Visitors == {Event[e].session : e \in DOMAIN Event}

VARIABLES
    rows         \* product_event in the order of seq: a sequence of ids

LogInit == rows = <<>>

\* A mistake to compare with: a replayed event is a new row.
Inserted(table, id) == Append(table, id)

\* recordWith: ON CONFLICT (id) DO NOTHING.
InsertedOnce(table, id) == IF Contains(table, id) THEN table ELSE Append(table, id)

\* The table after the inserts of a batch, one after the other.
Recorded(batch) ==
    LET table[i \in 0..Len(batch)] ==
            IF i = 0 THEN rows ELSE InsertedOnce(table[i - 1], batch[i])
    IN table[Len(batch)]

recordMany(batch) ==
    /\ \A i \in DOMAIN batch : Event[batch[i]].name \in EventNames    \* else all roll back
    /\ rows' = Recorded(batch)

LogNext == \E batch \in Batches : recordMany(batch)

LogSpec == LogInit /\ [][LogNext]_rows
-----------------------------------------------------------------------------
(* The funnel *)

\* The rows of a session in the window that match step i.
Matching(session, i) ==
    {s \in DOMAIN rows : LET e == Event[rows[s]] IN
        e.session = session /\ e.inWindow /\ e.name = Steps[i]}

\* A mistake to compare with: one row satisfies two steps.
NotBefore(s, previous) == s >= previous

After(s, previous) == s > previous

\* The query's chain of tables: for step i the sessions that reached it, each
\* with the earliest row behind the row that satisfied the step before.
Reached(before, i) ==
    [session \in Visitors |->
        LET later == {s \in Matching(session, i) : \E p \in before[session] : After(s, p)}
        IN  IF later = {} THEN {} ELSE {Min(later)}]

Chain[i \in 0..Len(Steps)] ==
    IF i = 0 THEN [session \in Visitors |-> {0}] ELSE Reached(Chain[i - 1], i)

funnel == [i \in 1..Len(Steps) |-> Cardinality({k \in Visitors : Chain[i][k] # {}})]
-----------------------------------------------------------------------------
(* Properties *)

\* What a funnel claims to count: the sessions with different events for the
\* first i steps, each behind the one before.
Walked(session, i) ==
    \E way \in [1..i -> DOMAIN rows] :
        /\ \A j \in 1..i : way[j] \in Matching(session, j)
        /\ \A j, k \in 1..i : j < k => way[j] < way[k] /\ rows[way[j]] # rows[way[k]]

\* The greedy chain of earliest rows counts exactly the sessions that walked
\* the funnel, however batches arrive, overlap and are repeated; so no step
\* counts more than the step before.
FunnelTruthful ==
    /\ \A i \in DOMAIN Steps : funnel[i] = Cardinality({k \in Visitors : Walked(k, i)})
    /\ \A i \in DOMAIN Steps \ {1} : funnel[i] <= funnel[i - 1]
=============================================================================
