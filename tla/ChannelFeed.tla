---------------------------- MODULE ChannelFeed ----------------------------
(***************************************************************************)
(* From the ledger to a marketplace: movements with their outbox events,   *)
(* the relay, the queue, the consumer and the push of the quantity.        *)
(*                                                                         *)
(* A relay locks a batch of rows, publishes it and marks it in one         *)
(* transaction; whatever goes wrong rolls the mark back, not the           *)
(* publication.  The queue keeps one job per event and starts jobs in its  *)
(* order, several at a time.  A job reads the stock, pushes the quantity   *)
(* over the network and writes the outcome to the listing: three steps     *)
(* with nothing locked in between.  A job whose statement throws outside   *)
(* the try has failed for good: it has one attempt, and its id is kept.    *)
(*                                                                         *)
(* One variant at one location, listed on one channel.                     *)
(***************************************************************************)
EXTENDS Integers, FiniteSets, FiniteSetsExt, SequencesExt

CONSTANTS
    Relays,       \* relay instances
    Batch,        \* rows a relay claims at a time
    Jobs,         \* jobs the consumer runs at a time, as slots
    Buffer,       \* stock held back from the channel
    MaxOnHand,    \* bound: stock on hand
    MaxEvents     \* bound: movements that announce themselves

ASSUME FeedAssumption ==
    /\ Batch \in Nat \ {0} /\ Buffer \in Nat
    /\ MaxOnHand \in Nat /\ MaxEvents \in Nat

Free == 0    \* a slot with no job

VARIABLES
    stockLevel,  \* committed stock on hand
    events,      \* outbox rows: [seq, relayed]
    lastSeq,     \* number of the last movement with an event
    claim,       \* claim[r]: the rows relay r has locked
    sent,        \* sent[r]: the claim is on the queue
    queue,       \* waiting jobs, oldest first
    seen,        \* ids of the jobs the queue remembers
    handled,     \* jobs that ran to their end
    stalled,     \* jobs started a second time
    givenUp,     \* jobs that failed for good
    inHand,      \* inHand[s]: event in hand in slot s
    read,        \* read[s]: quantity to push, as computed
    pushed,      \* pushed[s]: "no", "ok" or "failed"
    channelQty,  \* what the marketplace shows
    listing,     \* channel_listing: [seq, error]
    alone,       \* slots whose job has run alone so far
    settled      \* the last job was one that ran alone and pushed its quantity

feedVars == <<stockLevel, events, lastSeq, claim, sent, queue, seen, handled, stalled, givenUp,
              inHand, read, pushed, channelQty, listing, alone, settled>>
relayVars == <<claim, sent>>
queueVars == <<queue, seen, handled, stalled, givenUp>>
slotVars == <<inHand, read, pushed, channelQty, listing, alone, settled>>

Available(stock) == IF stock > Buffer THEN stock - Buffer ELSE 0

FeedInit ==
    /\ stockLevel = MaxOnHand /\ events = {} /\ lastSeq = 0
    /\ claim = [r \in Relays |-> {}] /\ sent = [r \in Relays |-> FALSE]
    /\ queue = <<>> /\ seen = {} /\ handled = {} /\ stalled = {} /\ givenUp = {}
    /\ inHand = [s \in Jobs |-> Free] /\ read = [s \in Jobs |-> 0]
    /\ pushed = [s \in Jobs |-> "no"]
    /\ channelQty = Available(MaxOnHand)
    /\ listing = [seq |-> 0, error |-> FALSE]
    /\ alone = {} /\ settled = TRUE

-----------------------------------------------------------------------------
(* postMovementWith: the level and the event in one transaction            *)

Announced(stock) ==
    /\ stockLevel' = stock
    /\ events' = events \cup {[seq |-> lastSeq + 1, relayed |-> FALSE]}
    /\ lastSeq' = lastSeq + 1

PostMovement(stock) ==
    /\ lastSeq < MaxEvents
    /\ stock \in 0..MaxOnHand /\ stock # stockLevel
    /\ Announced(stock)
    /\ UNCHANGED <<relayVars, queueVars, slotVars>>

-----------------------------------------------------------------------------
(* OutboxRelay                                                             *)

Locked == UNION {claim[r] : r \in Relays}
Waiting == {e.seq : e \in {f \in events : ~f.relayed}} \ Locked

\* The oldest of the rows nobody has locked, at most a batch.
Oldest(rows) == {n \in rows : Cardinality({k \in rows : k <= n}) <= Batch}

Claim(r) ==
    /\ claim[r] = {} /\ Waiting # {}
    /\ claim' = [claim EXCEPT ![r] = Oldest(Waiting)]
    /\ UNCHANGED <<stockLevel, events, lastSeq, sent, queueVars, slotVars>>

\* The numbers of a set, lowest first.
InOrder(ids) ==
    {jobs \in [1 .. Cardinality(ids) -> ids] :
        /\ ids = {jobs[k] : k \in DOMAIN jobs}
        /\ \A k, l \in DOMAIN jobs : k < l => jobs[k] < jobs[l]}

\* Mutant: a retried batch is queued again.
AddAgain(ids) ==
    /\ \E jobs \in InOrder(ids) : queue' = queue \o jobs
    /\ seen' = seen \cup ids
    /\ UNCHANGED <<handled, stalled, givenUp>>

\* An event already queued is not queued again: its id is the job's id.
AddJobs(ids) ==
    /\ \E jobs \in InOrder(ids \ seen) : queue' = queue \o jobs
    /\ seen' = seen \cup ids
    /\ UNCHANGED <<handled, stalled, givenUp>>

Publish(r) ==
    /\ claim[r] # {} /\ ~sent[r]
    /\ AddJobs(claim[r])
    /\ sent' = [sent EXCEPT ![r] = TRUE]
    /\ UNCHANGED <<stockLevel, events, lastSeq, claim, slotVars>>

\* Mutant: the rows are marked whether or not they were published.
Publishable(r) == claim[r] # {}

Published(r) == claim[r] # {} /\ sent[r]

Mark(r) ==
    /\ Published(r)
    /\ events' = {IF e.seq \in claim[r] THEN [e EXCEPT !.relayed = TRUE] ELSE e : e \in events}
    /\ claim' = [claim EXCEPT ![r] = {}]
    /\ sent' = [sent EXCEPT ![r] = FALSE]
    /\ UNCHANGED <<stockLevel, lastSeq, queueVars, slotVars>>

\* The broker does not answer, the commit fails or the relay dies.
RollBackRelay(r) ==
    /\ claim[r] # {}
    /\ claim' = [claim EXCEPT ![r] = {}]
    /\ sent' = [sent EXCEPT ![r] = FALSE]
    /\ UNCHANGED <<stockLevel, events, lastSeq, queueVars, slotVars>>

Kept == {e \in events : ~e.relayed}

PruneRelayed ==
    /\ Kept # events
    /\ events' = Kept
    /\ UNCHANGED <<stockLevel, lastSeq, relayVars, queueVars, slotVars>>

-----------------------------------------------------------------------------
(* The consumer and ChannelSyncService                                     *)

Busy == {s \in Jobs : inHand[s] # Free}

\* The job reads the listing and the sum of the stock.
ReadStock(s) ==
    /\ inHand[s] = Free /\ queue # <<>>
    /\ inHand' = [inHand EXCEPT ![s] = Head(queue)]
    /\ read' = [read EXCEPT ![s] = Available(stockLevel)]
    /\ queue' = Tail(queue)
    /\ alone' = IF Busy = {} THEN {s} ELSE {}
    /\ UNCHANGED <<stockLevel, events, lastSeq, relayVars, seen, handled, stalled, givenUp,
                   pushed, channelQty, listing, settled>>

\* The statement throws: nothing is pushed and nothing recorded.
ReadFails ==
    /\ queue # <<>> /\ Busy # Jobs
    /\ queue' = Tail(queue)
    /\ givenUp' = givenUp \cup {Head(queue)}
    /\ alone' = {} /\ settled' = FALSE
    /\ UNCHANGED <<stockLevel, events, lastSeq, relayVars, seen, handled, stalled, inHand, read,
                   pushed, channelQty, listing>>

\* pushInventory of a connector: the marketplace takes what arrives.
Push(s) ==
    /\ inHand[s] # Free /\ pushed[s] = "no"
    /\ pushed' = [pushed EXCEPT ![s] = "ok"]
    /\ channelQty' = read[s]
    /\ settled' = (s \in alone)
    /\ UNCHANGED <<stockLevel, events, lastSeq, relayVars, queueVars, inHand, read, listing, alone>>

\* Any status but 2xx, a refused item or a network error; of the last, the
\* marketplace may have taken the quantity.
PushFails(s) ==
    /\ inHand[s] # Free /\ pushed[s] = "no"
    /\ pushed' = [pushed EXCEPT ![s] = "failed"]
    /\ channelQty' \in {channelQty, read[s]}
    /\ settled' = FALSE
    /\ UNCHANGED <<stockLevel, events, lastSeq, relayVars, queueVars, inHand, read, listing, alone>>

Outcome(s, failure) == [seq |-> inHand[s], error |-> failure]

\* The slot is free for the next job.
Leaves(s) ==
    /\ inHand' = [inHand EXCEPT ![s] = Free]
    /\ pushed' = [pushed EXCEPT ![s] = "no"]
    /\ read' = [read EXCEPT ![s] = 0]
    /\ alone' = alone \ {s}

\* The listing takes the number of the job, higher or lower; if the call threw,
\* or this statement does, the number stays and the error is noted.  The job is
\* done whatever came of it.
Record(s) ==
    /\ pushed[s] # "no"
    /\ \/ listing' = Outcome(s, pushed[s] = "failed")
       \/ listing' = [listing EXCEPT !.error = TRUE]
    /\ handled' = handled \cup {inHand[s]}
    /\ Leaves(s)
    /\ UNCHANGED <<stockLevel, events, lastSeq, relayVars, queue, seen, stalled, givenUp,
                   channelQty, settled>>

\* The statement that notes the error throws.
RecordFails(s) ==
    /\ pushed[s] # "no"
    /\ givenUp' = givenUp \cup {inHand[s]}
    /\ Leaves(s)
    /\ UNCHANGED <<stockLevel, events, lastSeq, relayVars, queue, seen, handled, stalled,
                   channelQty, listing, settled>>

\* The process dies: the queue finds its jobs stalled and starts them again,
\* once; a job that stalls a second time is given up.
ConsumerDies ==
    LET held == {inHand[s] : s \in Busy}
    IN
    /\ Busy # {}
    /\ stalled' = stalled \cup held
    /\ givenUp' = givenUp \cup (held \cap stalled)
    /\ \E jobs \in InOrder(held \ stalled) : queue' = jobs \o queue
    /\ inHand' = [s \in Jobs |-> Free]
    /\ read' = [s \in Jobs |-> 0]
    /\ pushed' = [s \in Jobs |-> "no"]
    /\ alone' = {} /\ settled' = FALSE
    /\ UNCHANGED <<stockLevel, events, lastSeq, relayVars, seen, handled, channelQty, listing>>

FeedNext ==
    \/ \E stock \in 0..MaxOnHand : PostMovement(stock)
    \/ \E r \in Relays : Claim(r) \/ Publish(r) \/ Mark(r) \/ RollBackRelay(r)
    \/ PruneRelayed
    \/ \E s \in Jobs : ReadStock(s) \/ Push(s) \/ PushFails(s) \/ Record(s) \/ RecordFails(s)
    \/ ReadFails \/ ConsumerDies

FeedSpec == FeedInit /\ [][FeedNext]_feedVars

-----------------------------------------------------------------------------
(* Properties                                                              *)

\* No two relays hold one row, no job waits or runs twice, and only published
\* rows are pruned.
FeedTypeOK ==
    /\ stockLevel \in 0..MaxOnHand
    /\ channelQty \in 0..MaxOnHand
    /\ \A r, q \in Relays : r # q => claim[r] \cap claim[q] = {}
    /\ \A r \in Relays : sent[r] => claim[r] \subseteq seen
    /\ IsInjective(queue)
    /\ \A s \in Jobs : inHand[s] # Free => ~Contains(queue, inHand[s])
    /\ \A s, t \in Busy : s # t => inHand[s] # inHand[t]
    /\ (handled \cup givenUp) \cap ToSet(queue) = {} /\ handled \cap givenUp = {}
    /\ listing.seq \in 0..lastSeq

\* An announced movement is in the outbox until it is on the queue, and on the
\* queue or in a slot until it is handled or given up for good; pruning, lost
\* answers and a second start included.  (OutboxRelay: "rows are retried - never
\* lost"; the queue's consumer does not say so of its jobs.)
NothingDropped ==
    \A n \in 1..lastSeq :
        \/ [seq |-> n, relayed |-> FALSE] \in events
        \/ n \in handled \cup givenUp \cup ToSet(queue) \cup {inHand[s] : s \in Jobs}

\* With nothing under way, and the last job one that had the consumer to itself
\* and pushed its quantity, the marketplace shows what is available: a job that
\* waited reads the stock late, and that is enough, whatever was given up before
\* it.  Without that premise two pushes may arrive in the wrong order, or the
\* last change is the one that was given up.
Quiet == queue = <<>> /\ Busy = {} /\ \A e \in events : e.relayed
SettledIsTrue == Quiet /\ settled => channelQty = Available(stockLevel)

\* What ChannelSyncService promises of a failure (channelSync.ts:20): it is
\* recorded on the listing, here until a later change is handled.  The code does
\* not keep it.
FailuresRecorded == \A n \in givenUp : listing.error \/ \E k \in handled : k > n
=============================================================================
