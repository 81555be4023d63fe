---------------------------- MODULE StockProofs -----------------------------
(* What TLAPS proves of the back of the shop: Purchasing, for any order and *)
(* any set of receivers; Warehouse, for any set of bins, workers and pick   *)
(* orders; ChannelFeed and OrderImport, for any set of relays, jobs and     *)
(* importers, any batch, page and buffer, and any orders; UnitLife, for any *)
(* set of units, transfers and places; StockRoom, for any set of counts and *)
(* adjustments and any amount of stock; Books, for any sales, lines, rates  *)
(* and refunds; and all of them together, as MCStock composes them.         *)
EXTENDS MCStock, SumLemmas

-----------------------------------------------------------------------------
(* Sequences of jobs                                                       *)

Ids == Nat \ {0}

\* Two sequences one after the other.
LEMMA Joined ==
    ASSUME NEW s \in Seq(Ids), NEW t \in Seq(Ids)
    PROVE  /\ s \o t \in Seq(Ids)
           /\ ToSet(s \o t) = ToSet(s) \cup ToSet(t)
           /\ IsInjective(s) /\ IsInjective(t) /\ ToSet(s) \cap ToSet(t) = {}
                => IsInjective(s \o t)
<1> DEFINE both == s \o t
           m == Len(s)
           n == Len(t)
<1>1. /\ m \in Nat /\ n \in Nat /\ both \in Seq(Ids)
      /\ DOMAIN s = 1 .. m /\ DOMAIN t = 1 .. n /\ DOMAIN both = 1 .. m + n
      /\ \A i \in 1 .. m + n : both[i] = IF i <= m THEN s[i] ELSE t[i - m]
  OBVIOUS
<1> HIDE DEF both, m, n
<1>2. ToSet(both) = ToSet(s) \cup ToSet(t)
  <2>1. ASSUME NEW x \in ToSet(both) PROVE x \in ToSet(s) \cup ToSet(t)
    <3>1. PICK i \in 1 .. m + n : x = both[i]
      BY <1>1 DEF ToSet
    <3>2. CASE i <= m
      BY <1>1, <3>1, <3>2 DEF ToSet
    <3>3. CASE i > m
      <4>1. i - m \in 1 .. n /\ x = t[i - m]
        BY <1>1, <3>1, <3>3
      <4> QED BY <1>1, <4>1 DEF ToSet
    <3> QED BY <1>1, <3>1, <3>2, <3>3
  <2>2. ASSUME NEW x \in ToSet(s) PROVE x \in ToSet(both)
    <3>1. PICK i \in 1 .. m : x = s[i]
      BY <1>1 DEF ToSet
    <3>2. i \in 1 .. m + n /\ both[i] = x
      BY <1>1, <3>1
    <3> QED BY <1>1, <3>2 DEF ToSet
  <2>3. ASSUME NEW x \in ToSet(t) PROVE x \in ToSet(both)
    <3>1. PICK i \in 1 .. n : x = t[i]
      BY <1>1 DEF ToSet
    <3>2. m + i \in 1 .. m + n /\ both[m + i] = x
      BY <1>1, <3>1
    <3> QED BY <1>1, <3>2 DEF ToSet
  <2> QED BY <2>1, <2>2, <2>3
<1>3. ASSUME IsInjective(s), IsInjective(t), ToSet(s) \cap ToSet(t) = {}
      PROVE  IsInjective(both)
  <2> SUFFICES ASSUME NEW i \in 1 .. m + n, NEW j \in 1 .. m + n, both[i] = both[j]
               PROVE  i = j
    BY <1>1 DEF IsInjective
  <2>1. \A k \in 1 .. m : s[k] \in ToSet(s)
    BY <1>1 DEF ToSet
  <2>2. \A k \in 1 .. n : t[k] \in ToSet(t)
    BY <1>1 DEF ToSet
  <2>3. CASE i <= m /\ j <= m
    <3>1. i \in 1 .. m /\ j \in 1 .. m /\ s[i] = s[j]
      BY <1>1, <2>3
    <3> QED BY ONLY <1>1, <1>3, <3>1 DEF IsInjective
  <2>4. CASE i > m /\ j > m
    <3>1. PICK a \in 1 .. n, b \in 1 .. n : i = a + m /\ j = b + m /\ t[a] = t[b]
      <4>1. i - m \in 1 .. n /\ j - m \in 1 .. n
        BY <1>1, <2>4
      <4>2. both[i] = t[i - m] /\ both[j] = t[j - m]
        BY <1>1, <2>4
      <4>3. i = (i - m) + m /\ j = (j - m) + m
        BY <1>1
      <4> QED BY <4>1, <4>2, <4>3
    <3>2. a = b
      BY ONLY <1>1, <1>3, <3>1 DEF IsInjective
    <3> QED BY <3>1, <3>2
  <2>5. CASE i <= m /\ j > m
    <3>1. both[i] \in ToSet(s) /\ both[j] \in ToSet(t)
      BY <1>1, <2>1, <2>2, <2>5
    <3> QED BY <1>3, <3>1
  <2>6. CASE i > m /\ j <= m
    <3>1. both[i] \in ToSet(t) /\ both[j] \in ToSet(s)
      BY <1>1, <2>1, <2>2, <2>6
    <3> QED BY <1>3, <3>1
  <2> QED BY <1>1, <2>3, <2>4, <2>5, <2>6
<1> QED BY <1>1, <1>2, <1>3 DEF both

\* What is left when the first is taken.
LEMMA Taken ==
    ASSUME NEW s \in Seq(Ids), s # <<>>
    PROVE  /\ Head(s) \in Ids /\ Tail(s) \in Seq(Ids)
           /\ ToSet(s) = ToSet(Tail(s)) \cup {Head(s)}
           /\ IsInjective(s) => IsInjective(Tail(s)) /\ Head(s) \notin ToSet(Tail(s))
<1> DEFINE rest == Tail(s)
           n == Len(rest)
<1>1. /\ n \in Nat /\ rest \in Seq(Ids) /\ Head(s) = s[1] /\ Head(s) \in Ids
      /\ DOMAIN s = 1 .. n + 1 /\ DOMAIN rest = 1 .. n
      /\ \A i \in 1 .. n : rest[i] = s[i + 1]
  OBVIOUS
<1> HIDE DEF rest, n
<1>2. ToSet(s) = ToSet(rest) \cup {Head(s)}
  <2>1. ASSUME NEW x \in ToSet(s), x # s[1] PROVE x \in ToSet(rest)
    <3>1. PICK i \in 1 .. n + 1 : x = s[i]
      BY <1>1 DEF ToSet
    <3>2. i - 1 \in 1 .. n /\ rest[i - 1] = x
      BY <1>1, <2>1, <3>1
    <3> QED BY <1>1, <3>2 DEF ToSet
  <2>2. ASSUME NEW x \in ToSet(rest) PROVE x \in ToSet(s)
    <3>1. PICK i \in 1 .. n : x = rest[i]
      BY <1>1 DEF ToSet
    <3>2. i + 1 \in 1 .. n + 1 /\ s[i + 1] = x
      BY <1>1, <3>1
    <3> QED BY <1>1, <3>2 DEF ToSet
  <2>3. s[1] \in ToSet(s)
    BY <1>1 DEF ToSet
  <2> QED BY <1>1, <2>1, <2>2, <2>3
<1>3. ASSUME IsInjective(s)
      PROVE  IsInjective(rest) /\ Head(s) \notin ToSet(rest)
  <2>1. IsInjective(rest)
    <3> SUFFICES ASSUME NEW i \in 1 .. n, NEW j \in 1 .. n, rest[i] = rest[j] PROVE i = j
      BY <1>1 DEF IsInjective
    <3>1. i + 1 \in 1 .. n + 1 /\ j + 1 \in 1 .. n + 1 /\ s[i + 1] = s[j + 1]
      BY <1>1
    <3>2. i + 1 = j + 1
      BY <1>1, <1>3, <3>1 DEF IsInjective
    <3> QED BY <3>2
  <2>2. ASSUME s[1] \in ToSet(rest) PROVE FALSE
    <3>1. PICK i \in 1 .. n : s[1] = rest[i]
      BY <1>1, <2>2 DEF ToSet
    <3>2. 1 \in 1 .. n + 1 /\ i + 1 \in 1 .. n + 1 /\ s[1] = s[i + 1]
      BY <1>1, <3>1
    <3>3. 1 = i + 1
      BY <1>1, <1>3, <3>2 DEF IsInjective
    <3> QED BY <3>3
  <2> QED BY <1>1, <2>1, <2>2
<1> QED BY <1>1, <1>2, <1>3 DEF rest

\* The jobs of a set of ids, in their order.
LEMMA JobsInOrder ==
    ASSUME NEW m \in Nat, NEW ids \in SUBSET (1 .. m), NEW jobs \in InOrder(ids)
    PROVE  jobs \in Seq(Ids) /\ ToSet(jobs) = ids /\ IsInjective(jobs)
<1> DEFINE n == Cardinality(ids)
<1>1. n \in Nat
  <2>1. 1 \in Int /\ m \in Int
    OBVIOUS
  <2>2. IsFiniteSet(1 .. m)
    BY <2>1, FS_Interval
  <2>3. IsFiniteSet(ids)
    BY <2>2, FS_Subset
  <2> QED BY <2>3, FS_CardinalityType
<1>2. /\ jobs \in [1 .. n -> ids] /\ DOMAIN jobs = 1 .. n
      /\ ids = {jobs[k] : k \in 1 .. n}
      /\ \A k, l \in 1 .. n : k < l => jobs[k] < jobs[l]
  BY DEF InOrder
<1> HIDE DEF n
<1>3. jobs \in Seq(Ids)
  <2>1. ids \subseteq Ids
    BY DEF Ids
  <2>2. jobs \in [1 .. n -> Ids]
    BY <1>2, <2>1
  <2> QED BY <1>1, <2>2
<1>4. ToSet(jobs) = ids
  BY <1>2 DEF ToSet
<1>5. IsInjective(jobs)
  <2> SUFFICES ASSUME NEW k \in 1 .. n, NEW l \in 1 .. n, jobs[k] = jobs[l] PROVE k = l
    BY <1>2 DEF IsInjective
  <2>1. jobs[k] \in 1 .. m /\ jobs[l] \in 1 .. m
    BY <1>2
  <2>2. ~ (k < l) /\ ~ (l < k)
    BY <1>2, <2>1
  <2> QED BY <1>1, <2>2
<1> QED BY <1>3, <1>4, <1>5

-----------------------------------------------------------------------------
(* The feed: the inductive invariant                                       *)

\* The jobs that are being run.
Running == {inHand[s] : s \in Busy}

FeedShape ==
    /\ stockLevel \in 0 .. MaxOnHand /\ channelQty \in 0 .. MaxOnHand
    /\ lastSeq \in Nat
    /\ events \subseteq [seq : 1 .. lastSeq, relayed : BOOLEAN]
    /\ claim \in [Relays -> SUBSET (1 .. lastSeq)]
    /\ sent \in [Relays -> BOOLEAN]
    /\ queue \in Seq(Ids)
    /\ seen \subseteq 1 .. lastSeq
    /\ inHand \in [Jobs -> Nat]
    /\ read \in [Jobs -> 0 .. MaxOnHand]
    /\ pushed \in [Jobs -> {"no", "ok", "failed"}]
    /\ listing \in [seq : 0 .. lastSeq, error : BOOLEAN]

\* The jobs that are over, one way or the other.
Finished == handled \cup givenUp

\* A job is in one place: waiting once, in one slot, handled, or given up.
JobsOnce ==
    /\ seen = Finished \cup ToSet(queue) \cup Running
    /\ IsInjective(queue)
    /\ handled \cap givenUp = {}
    /\ Finished \cap ToSet(queue) = {}
    /\ Running \cap (Finished \cup ToSet(queue)) = {}
    /\ \A s, t \in Busy : s # t => inHand[s] # inHand[t]

\* A row that is not on the queue yet is in the outbox, unmarked; the rows of a
\* relay are its own, and on the queue once it has sent them.
RowsKept ==
    /\ \A n \in 1 .. lastSeq : n \in seen \/ [seq |-> n, relayed |-> FALSE] \in events
    /\ \A r \in Relays : sent[r] => claim[r] # {} /\ claim[r] \subseteq seen
    /\ \A r, q \in Relays : r # q => claim[r] \cap claim[q] = {}

\* A free slot has pushed nothing; a job that runs alone has its slot.
SlotsClean ==
    /\ \A s \in Jobs : inHand[s] = Free => pushed[s] = "no"
    /\ alone \subseteq Busy

FeedCore == FeedShape /\ JobsOnce /\ RowsKept /\ SlotsClean

\* There is a job that has not read the stock yet.
Fresh == queue # <<>> \/ \E n \in 1 .. lastSeq : n \notin seen

\* What the marketplace shows is right or about to be written again, and so is
\* what a job carries that has run alone so far.
Settles ==
    /\ settled => \/ channelQty = Available(stockLevel)
                  \/ Fresh
                  \/ \E s \in Busy : pushed[s] = "no"
    /\ \A s \in alone : pushed[s] = "no" => read[s] = Available(stockLevel) \/ Fresh

LEMMA AvailableFits ==
    ASSUME NEW stock \in 0 .. MaxOnHand
    PROVE  Available(stock) \in 0 .. MaxOnHand
BY FeedAssumption DEF Available

\* The core gives the type invariant of the feed, and that nothing is dropped.
LEMMA CoreImplies == FeedCore => FeedTypeOK /\ NothingDropped
<1> SUFFICES ASSUME FeedCore PROVE FeedTypeOK /\ NothingDropped
  OBVIOUS
<1>1. FeedShape /\ JobsOnce /\ RowsKept
  BY DEF FeedCore
<1>2. ASSUME NEW s \in Jobs, inHand[s] # Free PROVE ~ Contains(queue, inHand[s])
  <2>1. inHand[s] \notin ToSet(queue)
    BY <1>1, <1>2 DEF JobsOnce, Running, Busy
  <2>2. DOMAIN queue = 1 .. Len(queue)
    BY <1>1 DEF FeedShape
  <2> QED BY <2>1, <2>2 DEF ToSet, Contains
<1>3. listing.seq \in 0 .. lastSeq
  BY <1>1 DEF FeedShape
<1>4. FeedTypeOK
  BY <1>1, <1>2, <1>3 DEF FeedShape, JobsOnce, Finished, RowsKept, FeedTypeOK
<1>5. \A n \in seen : n \in handled \cup givenUp \cup ToSet(queue) \cup {inHand[s] : s \in Jobs}
  BY <1>1 DEF JobsOnce, Finished, Running, Busy
<1> QED BY <1>1, <1>4, <1>5 DEF RowsKept, NothingDropped

\* With nothing under way there is no fresh job.
LEMMA SettlesImplies == FeedCore /\ Settles => SettledIsTrue
<1> SUFFICES ASSUME FeedCore, Settles, Quiet, settled PROVE channelQty = Available(stockLevel)
  BY DEF SettledIsTrue
<1>1. \A n \in 1 .. lastSeq : n \in seen
  <2> SUFFICES ASSUME NEW n \in 1 .. lastSeq, [seq |-> n, relayed |-> FALSE] \in events
               PROVE  FALSE
    BY DEF FeedCore, RowsKept
  <2>1. [seq |-> n, relayed |-> FALSE].relayed
    BY DEF Quiet
  <2> QED BY <2>1
<1>2. ~ Fresh /\ Busy = {}
  BY <1>1 DEF Quiet, Fresh
<1> QED BY <1>2 DEF Settles

LEMMA FeedInitOK == FeedInit => FeedCore /\ Settles
<1> SUFFICES ASSUME FeedInit PROVE FeedCore /\ Settles
  OBVIOUS
<1>1. Busy = {} /\ Running = {} /\ ToSet(queue) = {} /\ IsInjective(queue) /\ 1 .. lastSeq = {}
  BY DEF FeedInit, Busy, Running, ToSet, IsInjective
<1>2. queue \in Seq(Ids) /\ MaxOnHand \in 0 .. MaxOnHand /\ 0 \in 0 .. MaxOnHand
  BY FeedAssumption DEF FeedInit
<1>3. FeedShape
  <2>1. channelQty \in 0 .. MaxOnHand
    BY <1>2, AvailableFits DEF FeedInit
  <2> QED BY <1>2, <2>1 DEF FeedInit, FeedShape, Free
<1>4. JobsOnce
  BY <1>1 DEF FeedInit, JobsOnce, Finished
<1>5. RowsKept /\ SlotsClean
  BY <1>1 DEF FeedInit, RowsKept, SlotsClean
<1>6. Settles
  BY DEF FeedInit, Settles
<1> QED BY <1>3, <1>4, <1>5, <1>6 DEF FeedCore

\* A movement that announces itself: there is a fresh row.
LEMMA PostMovementKeeps ==
    ASSUME FeedCore, NEW stock \in 0 .. MaxOnHand, PostMovement(stock)
    PROVE  FeedCore' /\ Settles'
<1>1. /\ stockLevel' = stock /\ lastSeq' = lastSeq + 1
      /\ events' = events \cup {[seq |-> lastSeq + 1, relayed |-> FALSE]}
      /\ UNCHANGED <<relayVars, queueVars, slotVars>>
  BY DEF PostMovement, Announced
<1>2. FeedShape /\ JobsOnce /\ RowsKept /\ SlotsClean
  BY DEF FeedCore
<1>3. /\ lastSeq \in Nat /\ 1 .. lastSeq \subseteq 1 .. lastSeq' /\ lastSeq' \in 1 .. lastSeq'
      /\ 0 .. lastSeq \subseteq 0 .. lastSeq' /\ lastSeq' \in Nat
      /\ \A n \in 1 .. lastSeq' : n \in 1 .. lastSeq \/ n = lastSeq + 1
      /\ lastSeq + 1 \notin 1 .. lastSeq
  BY <1>1, <1>2 DEF FeedShape
<1>4. FeedShape'
  <2>1. events' \subseteq [seq : 1 .. lastSeq', relayed : BOOLEAN]
    <3>1. [seq |-> lastSeq + 1, relayed |-> FALSE] \in [seq : 1 .. lastSeq', relayed : BOOLEAN]
      BY <1>1, <1>3
    <3>2. \A e \in events : e \in [seq : 1 .. lastSeq', relayed : BOOLEAN]
      <4>1. \A e \in [seq : 1 .. lastSeq, relayed : BOOLEAN] :
               e \in [seq : 1 .. lastSeq', relayed : BOOLEAN]
        BY <1>3
      <4> QED BY <1>2, <4>1 DEF FeedShape
    <3> QED BY <1>1, <3>1, <3>2
  <2>2. claim' \in [Relays -> SUBSET (1 .. lastSeq')] /\ seen' \subseteq 1 .. lastSeq'
        /\ listing' \in [seq : 0 .. lastSeq', error : BOOLEAN]
    BY <1>1, <1>2, <1>3 DEF FeedShape, relayVars, queueVars, slotVars
  <2> QED BY <1>1, <1>2, <1>3, <2>1, <2>2 DEF FeedShape, relayVars, queueVars, slotVars
<1>5. JobsOnce' /\ SlotsClean'
  BY <1>1, <1>2 DEF JobsOnce, Finished, SlotsClean, Running, Busy, queueVars, slotVars
<1>6. RowsKept'
  <2>1. ASSUME NEW n \in 1 .. lastSeq'
        PROVE  n \in seen' \/ [seq |-> n, relayed |-> FALSE] \in events'
    BY <1>1, <1>2, <1>3 DEF RowsKept, queueVars
  <2> QED BY <1>1, <1>2, <2>1 DEF RowsKept, relayVars, queueVars
<1>7. lastSeq' \notin seen'
  BY <1>1, <1>2, <1>3 DEF FeedShape, queueVars
<1>8. Fresh'
  BY <1>3, <1>7 DEF Fresh
<1>9. Settles'
  BY <1>8 DEF Settles
<1> QED BY <1>4, <1>5, <1>6, <1>9 DEF FeedCore

\* A claim takes rows that nobody holds.
LEMMA ClaimKeeps ==
    ASSUME FeedCore, NEW r \in Relays, Claim(r)
    PROVE  FeedCore' /\ (Settles => Settles')
<1> DEFINE rows == Oldest(Waiting)
<1>1. /\ claim' = [claim EXCEPT ![r] = rows]
      /\ claim[r] = {}
      /\ UNCHANGED <<stockLevel, events, lastSeq, sent, queueVars, slotVars>>
  BY DEF Claim
<1>2. FeedShape /\ JobsOnce /\ RowsKept /\ SlotsClean
  BY DEF FeedCore
<1>3. rows \subseteq 1 .. lastSeq /\ \A q \in Relays : rows \cap claim[q] = {}
  <2>1. rows \subseteq Waiting
    BY DEF Oldest
  <2>2. Waiting \subseteq 1 .. lastSeq
    BY <1>2 DEF Waiting, FeedShape
  <2>3. \A q \in Relays : Waiting \cap claim[q] = {}
    BY DEF Waiting, Locked
  <2> QED BY <2>1, <2>2, <2>3
<1> HIDE DEF rows
<1>4. FeedShape'
  BY <1>1, <1>2, <1>3 DEF FeedShape, queueVars, slotVars
<1>5. JobsOnce' /\ SlotsClean'
  BY <1>1, <1>2 DEF JobsOnce, Finished, SlotsClean, Running, Busy, queueVars, slotVars
<1>6. RowsKept'
  <2>1. /\ claim'[r] = rows
        /\ \A q \in Relays \ {r} : claim'[q] = claim[q]
    BY <1>1, <1>2 DEF FeedShape
  <2>2. ASSUME NEW q \in Relays, sent'[q]
        PROVE  claim'[q] # {} /\ claim'[q] \subseteq seen'
    <3>1. q # r
      BY <1>1, <1>2, <2>2 DEF RowsKept
    <3> QED BY <1>1, <1>2, <2>1, <2>2, <3>1 DEF RowsKept, queueVars
  <2>3. ASSUME NEW q \in Relays, NEW p \in Relays, q # p
        PROVE  claim'[q] \cap claim'[p] = {}
    BY <1>2, <1>3, <2>1, <2>3 DEF RowsKept
  <2> QED BY <1>1, <1>2, <2>2, <2>3 DEF RowsKept, queueVars
<1>7. Settles => Settles'
  BY <1>1 DEF Settles, Fresh, Busy, queueVars, slotVars
<1> QED BY <1>4, <1>5, <1>6, <1>7 DEF FeedCore

\* The queue grows by the rows it does not know.
LEMMA PublishKeeps ==
    ASSUME FeedCore, NEW r \in Relays, Publish(r)
    PROVE  FeedCore' /\ (Settles => Settles')
<1> DEFINE ids == claim[r] \ seen
<1>1. PICK jobs \in InOrder(ids) :
        /\ queue' = queue \o jobs /\ seen' = seen \cup claim[r]
        /\ sent' = [sent EXCEPT ![r] = TRUE]
        /\ UNCHANGED <<handled, stalled, givenUp>>
        /\ UNCHANGED <<stockLevel, events, lastSeq, claim, slotVars>>
        /\ claim[r] # {}
  BY DEF Publish, AddJobs
<1>2. FeedShape /\ JobsOnce /\ RowsKept /\ SlotsClean
  BY DEF FeedCore
<1>3. claim[r] \subseteq 1 .. lastSeq /\ lastSeq \in Nat /\ ids \in SUBSET (1 .. lastSeq)
      /\ ids \cap seen = {} /\ seen' = seen \cup ids
  BY <1>1, <1>2 DEF FeedShape
<1> HIDE DEF ids
<1>4. jobs \in Seq(Ids) /\ ToSet(jobs) = ids /\ IsInjective(jobs)
  BY <1>3, JobsInOrder
<1>5. queue \in Seq(Ids) /\ IsInjective(queue) /\ ToSet(queue) \cap ids = {}
  BY <1>2, <1>3 DEF FeedShape, JobsOnce
<1>6. queue' \in Seq(Ids) /\ ToSet(queue') = ToSet(queue) \cup ids /\ IsInjective(queue')
  BY <1>1, <1>4, <1>5, Joined
<1>7. FeedShape'
  BY <1>1, <1>2, <1>3, <1>6 DEF FeedShape, slotVars
<1>8. JobsOnce' /\ SlotsClean'
  <2>1. Running' = Running /\ Busy' = Busy /\ inHand' = inHand
    BY <1>1 DEF Running, Busy, slotVars
  <2>2. JobsOnce'
    BY <1>1, <1>2, <1>3, <1>6, <2>1 DEF JobsOnce, Finished
  <2> QED BY <1>1, <1>2, <2>1, <2>2 DEF SlotsClean, slotVars
<1>9. RowsKept'
  BY <1>1, <1>2 DEF RowsKept, FeedShape
<1>10. Fresh => Fresh'
  <2>1. CASE queue # <<>>
    <3>1. queue' # <<>>
      BY <1>1, <1>4, <1>5, <2>1
    <3> QED BY <3>1 DEF Fresh
  <2>2. ASSUME NEW n \in 1 .. lastSeq, n \notin seen PROVE Fresh'
    <3>1. CASE n \in ids
      <4>1. ToSet(queue') # {}
        BY <1>6, <3>1
      <4>2. queue' # <<>>
        BY <4>1 DEF ToSet
      <4> QED BY <4>2 DEF Fresh
    <3>2. CASE n \notin ids
      BY <1>1, <1>3, <2>2, <3>2 DEF Fresh
    <3> QED BY <3>1, <3>2
  <2> QED BY <2>1, <2>2 DEF Fresh
<1>11. Settles => Settles'
  BY <1>1, <1>10 DEF Settles, Busy, slotVars
<1> QED BY <1>7, <1>8, <1>9, <1>11 DEF FeedCore

\* Only rows that are on the queue are marked.
LEMMA MarkKeeps ==
    ASSUME FeedCore, NEW r \in Relays, Mark(r)
    PROVE  FeedCore' /\ (Settles => Settles')
<1>1. /\ sent[r]
      /\ events' = {IF e.seq \in claim[r] THEN [e EXCEPT !.relayed = TRUE] ELSE e : e \in events}
      /\ claim' = [claim EXCEPT ![r] = {}]
      /\ sent' = [sent EXCEPT ![r] = FALSE]
      /\ UNCHANGED <<stockLevel, lastSeq, queueVars, slotVars>>
  BY DEF Mark, Published
<1>2. FeedShape /\ JobsOnce /\ RowsKept /\ SlotsClean
  BY DEF FeedCore
<1>3. events' \subseteq [seq : 1 .. lastSeq, relayed : BOOLEAN]
  <2> DEFINE Rows == [seq : 1 .. lastSeq, relayed : BOOLEAN]
             marked(e) == IF e.seq \in claim[r] THEN [e EXCEPT !.relayed = TRUE] ELSE e
  <2>1. \A e \in Rows : marked(e) \in Rows
    OBVIOUS
  <2>2. events \subseteq Rows
    BY <1>2 DEF FeedShape
  <2>3. events' = {marked(e) : e \in events}
    BY <1>1
  <2> HIDE DEF Rows, marked
  <2>4. events' \subseteq Rows
    BY <2>1, <2>2, <2>3
  <2> QED BY <2>4 DEF Rows
<1>4. FeedShape'
  BY <1>1, <1>2, <1>3 DEF FeedShape, queueVars, slotVars
<1>5. JobsOnce' /\ SlotsClean'
  BY <1>1, <1>2 DEF JobsOnce, Finished, SlotsClean, Running, Busy, queueVars, slotVars
<1>6. RowsKept'
  <2>1. ASSUME NEW n \in 1 .. lastSeq, n \notin seen
        PROVE  [seq |-> n, relayed |-> FALSE] \in events'
    <3> DEFINE e == [seq |-> n, relayed |-> FALSE]
    <3>1. e \in events /\ e.seq = n /\ n \notin claim[r]
      BY <1>1, <1>2, <2>1 DEF RowsKept
    <3> HIDE DEF e
    <3>2. e \in events'
      BY <1>1, <3>1
    <3> QED BY <3>2 DEF e
  <2> QED BY <1>1, <1>2, <2>1 DEF RowsKept, FeedShape, queueVars
<1>7. Settles => Settles'
  BY <1>1 DEF Settles, Fresh, Busy, queueVars, slotVars
<1> QED BY <1>4, <1>5, <1>6, <1>7 DEF FeedCore

\* What was published stays on the queue; the rows are there to be claimed.
LEMMA RollBackKeeps ==
    ASSUME FeedCore, NEW r \in Relays, RollBackRelay(r)
    PROVE  FeedCore' /\ (Settles => Settles')
<1>1. /\ claim' = [claim EXCEPT ![r] = {}]
      /\ sent' = [sent EXCEPT ![r] = FALSE]
      /\ UNCHANGED <<stockLevel, events, lastSeq, queueVars, slotVars>>
  BY DEF RollBackRelay
<1>2. FeedShape /\ JobsOnce /\ RowsKept /\ SlotsClean
  BY DEF FeedCore
<1>3. FeedShape'
  BY <1>1, <1>2 DEF FeedShape, queueVars, slotVars
<1>4. JobsOnce' /\ SlotsClean'
  BY <1>1, <1>2 DEF JobsOnce, Finished, SlotsClean, Running, Busy, queueVars, slotVars
<1>5. RowsKept'
  BY <1>1, <1>2 DEF RowsKept, FeedShape, queueVars
<1>6. Settles => Settles'
  BY <1>1 DEF Settles, Fresh, Busy, queueVars, slotVars
<1> QED BY <1>3, <1>4, <1>5, <1>6 DEF FeedCore

\* Only marked rows are pruned.
LEMMA PruneKeeps ==
    ASSUME FeedCore, PruneRelayed
    PROVE  FeedCore' /\ (Settles => Settles')
<1>1. /\ events' = {e \in events : ~ e.relayed}
      /\ UNCHANGED <<stockLevel, lastSeq, relayVars, queueVars, slotVars>>
  BY DEF PruneRelayed, Kept
<1>2. FeedShape /\ JobsOnce /\ RowsKept /\ SlotsClean
  BY DEF FeedCore
<1>3. FeedShape'
  BY <1>1, <1>2 DEF FeedShape, relayVars, queueVars, slotVars
<1>4. JobsOnce' /\ SlotsClean'
  BY <1>1, <1>2 DEF JobsOnce, Finished, SlotsClean, Running, Busy, queueVars, slotVars
<1>5. RowsKept'
  <2>1. ASSUME NEW n \in 1 .. lastSeq, [seq |-> n, relayed |-> FALSE] \in events
        PROVE  [seq |-> n, relayed |-> FALSE] \in events'
    BY <1>1, <2>1
  <2> QED BY <1>1, <1>2, <2>1 DEF RowsKept, relayVars, queueVars
<1>6. Settles => Settles'
  BY <1>1 DEF Settles, Fresh, Busy, queueVars, slotVars
<1> QED BY <1>3, <1>4, <1>5, <1>6 DEF FeedCore

\* What holds of slots whose contents did not change.
LEMMA SlotsSame ==
    ASSUME FeedCore, UNCHANGED <<stockLevel, events, lastSeq, relayVars, queueVars>>,
           inHand' = inHand
    PROVE  JobsOnce' /\ RowsKept' /\ Busy' = Busy /\ (Fresh <=> Fresh')
BY DEF FeedCore, JobsOnce, Finished, RowsKept, Running, Busy, Fresh, relayVars, queueVars

\* The quantity a job that ran alone pushes is right, or there is a fresh job.
LEMMA PushKeeps ==
    ASSUME FeedCore, NEW s \in Jobs, Push(s)
    PROVE  FeedCore' /\ (Settles => Settles')
<1>1. /\ inHand[s] # Free /\ pushed[s] = "no"
      /\ pushed' = [pushed EXCEPT ![s] = "ok"]
      /\ channelQty' = read[s] /\ settled' = (s \in alone)
      /\ UNCHANGED <<stockLevel, events, lastSeq, relayVars, queueVars>>
      /\ UNCHANGED <<inHand, read, listing, alone>>
  BY DEF Push
<1>2. FeedShape /\ SlotsClean
  BY DEF FeedCore
<1>3. JobsOnce' /\ RowsKept' /\ Busy' = Busy /\ (Fresh <=> Fresh')
  BY <1>1, SlotsSame
<1>4. FeedShape'
  BY <1>1, <1>2 DEF FeedShape, relayVars, queueVars
<1>5. pushed'[s] = "ok" /\ \A t \in Jobs \ {s} : pushed'[t] = pushed[t]
  BY <1>1, <1>2 DEF FeedShape
<1>6. SlotsClean'
  BY <1>1, <1>2, <1>3, <1>5 DEF SlotsClean
<1>7. ASSUME Settles PROVE Settles'
  <2>1. ASSUME settled' PROVE channelQty' = Available(stockLevel') \/ Fresh'
    BY <1>1, <1>3, <1>7, <2>1 DEF Settles
  <2>2. ASSUME NEW t \in alone', pushed'[t] = "no"
        PROVE  read'[t] = Available(stockLevel') \/ Fresh'
    <3>1. t \in alone /\ t \in Jobs /\ t # s
      BY <1>1, <1>2, <1>5, <2>2 DEF SlotsClean, Busy
    <3> QED BY <1>1, <1>3, <1>5, <1>7, <2>2, <3>1 DEF Settles
  <2> QED BY <2>1, <2>2 DEF Settles
<1> QED BY <1>3, <1>4, <1>6, <1>7 DEF FeedCore

\* A push that fails settles nothing.
LEMMA PushFailsKeeps ==
    ASSUME FeedCore, NEW s \in Jobs, PushFails(s)
    PROVE  FeedCore' /\ (Settles => Settles')
<1>1. /\ inHand[s] # Free /\ pushed[s] = "no"
      /\ pushed' = [pushed EXCEPT ![s] = "failed"]
      /\ channelQty' \in {channelQty, read[s]} /\ settled' = FALSE
      /\ UNCHANGED <<stockLevel, events, lastSeq, relayVars, queueVars>>
      /\ UNCHANGED <<inHand, read, listing, alone>>
  BY DEF PushFails
<1>2. FeedShape /\ SlotsClean
  BY DEF FeedCore
<1>3. JobsOnce' /\ RowsKept' /\ Busy' = Busy /\ (Fresh <=> Fresh')
  BY <1>1, SlotsSame
<1>4. FeedShape'
  BY <1>1, <1>2 DEF FeedShape, relayVars, queueVars
<1>5. pushed'[s] = "failed" /\ \A t \in Jobs \ {s} : pushed'[t] = pushed[t]
  BY <1>1, <1>2 DEF FeedShape
<1>6. SlotsClean'
  BY <1>1, <1>2, <1>3, <1>5 DEF SlotsClean
<1>7. ASSUME Settles PROVE Settles'
  <2>1. ASSUME NEW t \in alone', pushed'[t] = "no"
        PROVE  read'[t] = Available(stockLevel') \/ Fresh'
    <3>1. t \in alone /\ t \in Jobs /\ t # s
      BY <1>1, <1>2, <1>5, <2>1 DEF SlotsClean, Busy
    <3> QED BY <1>1, <1>3, <1>5, <1>7, <2>1, <3>1 DEF Settles
  <2> QED BY <1>1, <2>1 DEF Settles
<1> QED BY <1>3, <1>4, <1>6, <1>7 DEF FeedCore

\* A job that starts has the stock of this moment, and has yet to push it.
LEMMA ReadStockKeeps ==
    ASSUME FeedCore, NEW s \in Jobs, ReadStock(s)
    PROVE  FeedCore' /\ (Settles => Settles')
<1> DEFINE id == Head(queue)
           rest == Tail(queue)
<1>1. /\ inHand[s] = Free /\ queue # <<>>
      /\ inHand' = [inHand EXCEPT ![s] = id]
      /\ read' = [read EXCEPT ![s] = Available(stockLevel)]
      /\ queue' = rest
      /\ alone' = IF Busy = {} THEN {s} ELSE {}
      /\ UNCHANGED <<stockLevel, events, lastSeq, relayVars>>
      /\ UNCHANGED <<seen, handled, givenUp, stalled, pushed, channelQty, listing, settled>>
  BY DEF ReadStock
<1>2. FeedShape /\ JobsOnce /\ RowsKept /\ SlotsClean
  BY DEF FeedCore
<1>3. /\ id \in Ids /\ rest \in Seq(Ids) /\ ToSet(queue) = ToSet(rest) \cup {id}
      /\ IsInjective(rest) /\ id \notin ToSet(rest)
  <2>1. queue \in Seq(Ids) /\ queue # <<>> /\ IsInjective(queue)
    BY <1>1, <1>2 DEF FeedShape, JobsOnce
  <2> QED BY ONLY <2>1, Taken
<1> HIDE DEF id, rest
<1>4. id \in Nat /\ id # Free
  BY <1>3 DEF Ids, Free
<1>5. /\ inHand'[s] = id /\ \A t \in Jobs \ {s} : inHand'[t] = inHand[t]
      /\ Busy' = Busy \cup {s} /\ s \notin Busy
  <2>1. inHand'[s] = id /\ \A t \in Jobs \ {s} : inHand'[t] = inHand[t]
    BY <1>1, <1>2 DEF FeedShape
  <2> QED BY <1>1, <1>4, <2>1 DEF Busy
<1>6. Running' = Running \cup {id}
  <2>1. Busy \subseteq Jobs \ {s}
    BY <1>5 DEF Busy
  <2>2. \A t \in Busy : inHand'[t] = inHand[t]
    BY <1>5, <2>1
  <2> QED BY <1>5, <2>2 DEF Running
<1>7. FeedShape'
  <2>1. inHand' \in [Jobs -> Nat]
    BY <1>1, <1>2, <1>4 DEF FeedShape
  <2>2. read' \in [Jobs -> 0 .. MaxOnHand]
    BY <1>1, <1>2, AvailableFits DEF FeedShape
  <2> QED BY <1>1, <1>2, <1>3, <2>1, <2>2 DEF FeedShape, relayVars
<1>8. JobsOnce'
  <2>1. Finished' = Finished /\ seen' = Finished' \cup ToSet(queue') \cup Running'
    BY <1>1, <1>2, <1>3, <1>6 DEF JobsOnce, Finished
  <2>2. /\ Finished' \cap ToSet(queue') = {} /\ handled' \cap givenUp' = {}
        /\ Running' \cap (Finished' \cup ToSet(queue')) = {}
    BY <1>1, <1>2, <1>3, <1>6, <2>1 DEF JobsOnce
  <2>3. id \notin Running
    BY <1>2, <1>3 DEF JobsOnce
  <2>4. ASSUME NEW t \in Busy', NEW u \in Busy', t # u PROVE inHand'[t] # inHand'[u]
    <3>1. \A v \in Busy : v # s /\ v \in Jobs /\ inHand'[v] = inHand[v] /\ inHand[v] \in Running
      BY <1>5 DEF Running, Busy
    <3>2. CASE t \in Busy /\ u \in Busy
      BY <1>2, <2>4, <3>1, <3>2 DEF JobsOnce
    <3>3. CASE t = s /\ u \in Busy
      BY <1>5, <2>3, <3>1, <3>3
    <3>4. CASE t \in Busy /\ u = s
      BY <1>5, <2>3, <3>1, <3>4
    <3> QED BY <1>5, <2>4, <3>2, <3>3, <3>4
  <2> QED BY <1>1, <1>3, <2>1, <2>2, <2>4 DEF JobsOnce
<1>9. RowsKept'
  BY <1>1, <1>2 DEF RowsKept, relayVars
<1>10. SlotsClean'
  BY <1>1, <1>2, <1>5 DEF SlotsClean
<1>11. Settles'
  <2>1. s \in Busy' /\ pushed'[s] = "no"
    BY <1>1, <1>2, <1>5 DEF SlotsClean
  <2>2. ASSUME NEW t \in alone' PROVE read'[t] = Available(stockLevel')
    <3>1. t = s
      BY <1>1, <2>2
    <3> QED BY <1>1, <1>2, <3>1 DEF FeedShape
  <2> QED BY <2>1, <2>2 DEF Settles
<1> QED BY <1>7, <1>8, <1>9, <1>10, <1>11 DEF FeedCore

\* A job whose statement throws goes from the queue to those given up.
LEMMA ReadFailsKeeps ==
    ASSUME FeedCore, ReadFails
    PROVE  FeedCore' /\ Settles'
<1> DEFINE id == Head(queue)
           rest == Tail(queue)
<1>1. /\ queue # <<>> /\ queue' = rest
      /\ givenUp' = givenUp \cup {id}
      /\ alone' = {} /\ settled' = FALSE
      /\ UNCHANGED <<stockLevel, events, lastSeq, relayVars>>
      /\ UNCHANGED <<seen, handled, stalled, inHand, read, pushed, channelQty, listing>>
  BY DEF ReadFails
<1>2. FeedShape /\ JobsOnce /\ RowsKept /\ SlotsClean
  BY DEF FeedCore
<1>3. /\ id \in Ids /\ rest \in Seq(Ids) /\ ToSet(queue) = ToSet(rest) \cup {id}
      /\ IsInjective(rest) /\ id \notin ToSet(rest)
  <2>1. queue \in Seq(Ids) /\ queue # <<>> /\ IsInjective(queue)
    BY <1>1, <1>2 DEF FeedShape, JobsOnce
  <2> QED BY ONLY <2>1, Taken
<1> HIDE DEF id, rest
<1>4. FeedShape'
  BY <1>1, <1>2, <1>3 DEF FeedShape, relayVars
<1>5. Busy' = Busy /\ Running' = Running /\ Finished' = Finished \cup {id}
  BY <1>1 DEF Busy, Running, Finished
<1>6. JobsOnce'
  <2>1. id \notin handled /\ id \notin Running
    BY <1>2, <1>3 DEF JobsOnce, Finished
  <2>2. /\ seen' = Finished' \cup ToSet(queue') \cup Running'
        /\ Finished' \cap ToSet(queue') = {} /\ handled' \cap givenUp' = {}
        /\ Running' \cap (Finished' \cup ToSet(queue')) = {}
    BY <1>1, <1>2, <1>3, <1>5, <2>1 DEF JobsOnce
  <2> QED BY <1>1, <1>2, <1>3, <1>5, <2>2 DEF JobsOnce
<1>7. RowsKept' /\ SlotsClean'
  BY <1>1, <1>2, <1>5 DEF RowsKept, SlotsClean, relayVars
<1>8. Settles'
  BY <1>1 DEF Settles
<1> QED BY <1>4, <1>6, <1>7, <1>8 DEF FeedCore

\* A job that ends is handled or given up; the others run on.
LEMMA RecordKeeps ==
    ASSUME FeedCore, NEW s \in Jobs, Record(s) \/ RecordFails(s)
    PROVE  FeedCore' /\ (Settles => Settles')
<1>1. /\ pushed[s] # "no"
      /\ \/ listing' = Outcome(s, pushed[s] = "failed")
         \/ listing' = [listing EXCEPT !.error = TRUE]
         \/ listing' = listing
      /\ \/ handled' = handled \cup {inHand[s]} /\ givenUp' = givenUp
         \/ givenUp' = givenUp \cup {inHand[s]} /\ handled' = handled
      /\ inHand' = [inHand EXCEPT ![s] = Free]
      /\ pushed' = [pushed EXCEPT ![s] = "no"]
      /\ read' = [read EXCEPT ![s] = 0]
      /\ alone' = alone \ {s}
      /\ UNCHANGED <<stockLevel, events, lastSeq, relayVars>>
      /\ UNCHANGED <<queue, seen, stalled, channelQty, settled>>
  BY DEF Record, RecordFails, Leaves
<1>2. FeedShape /\ JobsOnce /\ RowsKept /\ SlotsClean
  BY DEF FeedCore
<1>3. s \in Busy
  BY <1>1, <1>2 DEF SlotsClean, Busy
<1> DEFINE id == inHand[s]
<1>4. id \in Running /\ id \in seen
  BY <1>2, <1>3 DEF Running, JobsOnce
<1>5. /\ inHand'[s] = Free /\ pushed'[s] = "no"
      /\ \A t \in Jobs \ {s} : /\ inHand'[t] = inHand[t] /\ pushed'[t] = pushed[t]
                               /\ read'[t] = read[t]
      /\ Busy' = Busy \ {s}
  <2>1. /\ inHand'[s] = Free /\ pushed'[s] = "no"
        /\ \A t \in Jobs \ {s} : /\ inHand'[t] = inHand[t] /\ pushed'[t] = pushed[t]
                                 /\ read'[t] = read[t]
    BY <1>1, <1>2 DEF FeedShape
  <2> QED BY <2>1 DEF Busy
<1> HIDE DEF id
<1>6. Running' = Running \ {id}
  <2>1. Running' \subseteq Running \ {id}
    <3> SUFFICES ASSUME NEW t \in Busy' PROVE inHand'[t] \in Running \ {id}
      BY DEF Running
    <3>1. t \in Busy /\ t # s /\ t \in Jobs /\ inHand'[t] = inHand[t]
      BY <1>5 DEF Busy
    <3>2. inHand[t] \in Running /\ inHand[t] # id
      BY <1>2, <1>3, <3>1 DEF Running, JobsOnce, id
    <3> QED BY <3>1, <3>2
  <2>2. Running \ {id} \subseteq Running'
    <3> SUFFICES ASSUME NEW t \in Busy, inHand[t] # id PROVE inHand[t] \in Running'
      BY DEF Running
    <3>1. t # s /\ t \in Jobs
      BY DEF id, Busy
    <3>2. t \in Busy' /\ inHand'[t] = inHand[t]
      BY <1>5, <3>1
    <3> QED BY <3>2 DEF Running
  <2> QED BY <2>1, <2>2
<1>7. FeedShape'
  <2>1. lastSeq \in Nat /\ id \in 1 .. lastSeq
    BY <1>2, <1>4 DEF FeedShape
  <2>2. id \in 0 .. lastSeq
    BY <2>1
  <2>3. listing' \in [seq : 0 .. lastSeq, error : BOOLEAN]
    <3>1. [listing EXCEPT !.error = TRUE] \in [seq : 0 .. lastSeq, error : BOOLEAN]
      BY <1>2 DEF FeedShape
    <3>2. \A b \in BOOLEAN : [seq |-> id, error |-> b] \in [seq : 0 .. lastSeq, error : BOOLEAN]
      BY <2>2
    <3>3. Outcome(s, pushed[s] = "failed") = [seq |-> id, error |-> pushed[s] = "failed"]
      BY DEF Outcome, id
    <3>4. (pushed[s] = "failed") \in BOOLEAN
      OBVIOUS
    <3>5. Outcome(s, pushed[s] = "failed") \in [seq : 0 .. lastSeq, error : BOOLEAN]
      BY ONLY <3>2, <3>3, <3>4
    <3>6. listing \in [seq : 0 .. lastSeq, error : BOOLEAN] /\ lastSeq' = lastSeq
      BY <1>1, <1>2 DEF FeedShape
    <3> QED BY ONLY <1>1, <3>1, <3>5, <3>6, Zenon
  <2>4. inHand' \in [Jobs -> Nat]
    BY <1>1, <1>2 DEF FeedShape, Free
  <2>5. read' \in [Jobs -> 0 .. MaxOnHand]
    <3>1. 0 \in 0 .. MaxOnHand
      BY FeedAssumption
    <3> QED BY <1>1, <1>2, <3>1 DEF FeedShape
  <2>6. pushed' \in [Jobs -> {"no", "ok", "failed"}]
    BY <1>1, <1>2 DEF FeedShape
  <2> QED BY <1>1, <1>2, <2>3, <2>4, <2>5, <2>6 DEF FeedShape, relayVars
<1>8. JobsOnce'
  <2>1. Finished' = Finished \cup {id}
    BY <1>1 DEF Finished, id
  <2>2. /\ seen' = Finished' \cup ToSet(queue') \cup Running'
        /\ Finished' \cap ToSet(queue') = {}
        /\ Running' \cap (Finished' \cup ToSet(queue')) = {}
    BY <1>1, <1>2, <1>4, <1>6, <2>1 DEF JobsOnce
  <2>4. handled' \cap givenUp' = {}
    BY <1>1, <1>2, <1>4 DEF JobsOnce, Finished, id
  <2>3. ASSUME NEW t \in Busy', NEW u \in Busy', t # u PROVE inHand'[t] # inHand'[u]
    <3>1. \A v \in Busy' : v # s /\ v \in Jobs /\ v \in Busy /\ inHand'[v] = inHand[v]
      BY <1>5 DEF Busy
    <3> QED BY <1>2, <2>3, <3>1 DEF JobsOnce
  <2> QED BY <1>1, <1>2, <2>2, <2>3, <2>4 DEF JobsOnce
<1>9. RowsKept'
  BY <1>1, <1>2 DEF RowsKept, relayVars
<1>10. SlotsClean'
  BY <1>1, <1>2, <1>5 DEF SlotsClean
<1>11. ASSUME Settles PROVE Settles'
  <2>1. Fresh <=> Fresh'
    BY <1>1 DEF Fresh
  <2>2. ASSUME NEW t \in Busy, pushed[t] = "no" PROVE t \in Busy' /\ pushed'[t] = "no"
    <3>1. t # s /\ t \in Jobs
      BY <1>1, <2>2 DEF Busy
    <3> QED BY <1>5, <2>2, <3>1
  <2>3. ASSUME settled' PROVE \/ channelQty' = Available(stockLevel')
                              \/ Fresh'
                              \/ \E t \in Busy' : pushed'[t] = "no"
    BY <1>1, <1>11, <2>1, <2>2, <2>3 DEF Settles
  <2>4. ASSUME NEW t \in alone', pushed'[t] = "no"
        PROVE  read'[t] = Available(stockLevel') \/ Fresh'
    <3>1. t \in alone /\ t # s /\ t \in Jobs
      BY <1>1, <1>2, <2>4 DEF SlotsClean, Busy
    <3> QED BY <1>1, <1>5, <1>11, <2>1, <2>4, <3>1 DEF Settles
  <2> QED BY <2>3, <2>4 DEF Settles
<1> QED BY <1>7, <1>8, <1>9, <1>10, <1>11 DEF FeedCore

\* A process that dies leaves its jobs to the queue, which starts them again,
\* and those a second time over are given up.
LEMMA ConsumerDiesKeeps ==
    ASSUME FeedCore, ConsumerDies
    PROVE  FeedCore' /\ Settles'
<1> DEFINE again == Running \ stalled
           over == Running \cap stalled
<1>1. PICK jobs \in InOrder(again) :
        /\ queue' = jobs \o queue /\ givenUp' = givenUp \cup over
        /\ inHand' = [s \in Jobs |-> Free] /\ read' = [s \in Jobs |-> 0]
        /\ pushed' = [s \in Jobs |-> "no"]
        /\ alone' = {} /\ settled' = FALSE
        /\ UNCHANGED <<stockLevel, events, lastSeq, relayVars, seen, handled, channelQty, listing>>
  BY DEF ConsumerDies, Running
<1>2. FeedShape /\ JobsOnce /\ RowsKept /\ SlotsClean
  BY DEF FeedCore
<1>3. /\ lastSeq \in Nat /\ again \in SUBSET (1 .. lastSeq)
      /\ Running = again \cup over /\ again \cap over = {}
  BY <1>2 DEF FeedShape, JobsOnce
<1> HIDE DEF again, over
<1>4. jobs \in Seq(Ids) /\ ToSet(jobs) = again /\ IsInjective(jobs)
  BY <1>3, JobsInOrder
<1>5. queue \in Seq(Ids) /\ IsInjective(queue) /\ again \cap ToSet(queue) = {}
  BY <1>2, <1>3 DEF FeedShape, JobsOnce
<1>6. queue' \in Seq(Ids) /\ ToSet(queue') = again \cup ToSet(queue) /\ IsInjective(queue')
  BY <1>1, <1>4, <1>5, Joined
<1>7. Busy' = {} /\ Running' = {}
  BY <1>1 DEF Busy, Running
<1>8. FeedShape'
  <2>1. 0 \in 0 .. MaxOnHand /\ Free \in Nat
    BY FeedAssumption DEF Free
  <2> QED BY <1>1, <1>2, <1>6, <2>1 DEF FeedShape, relayVars
<1>9. JobsOnce'
  <2>1. Finished' = Finished \cup over
    BY <1>1 DEF Finished
  <2>2. /\ seen' = Finished' \cup ToSet(queue') \cup Running'
        /\ Finished' \cap ToSet(queue') = {}
    BY <1>1, <1>2, <1>3, <1>6, <1>7, <2>1 DEF JobsOnce
  <2>3. handled' \cap givenUp' = {}
    BY <1>1, <1>2, <1>3 DEF JobsOnce, Finished
  <2> QED BY <1>6, <1>7, <2>2, <2>3 DEF JobsOnce
<1>10. RowsKept' /\ SlotsClean'
  BY <1>1, <1>2 DEF RowsKept, SlotsClean, relayVars
<1>11. Settles'
  BY <1>1 DEF Settles
<1> QED BY <1>8, <1>9, <1>10, <1>11 DEF FeedCore

LEMMA FeedStep ==
    ASSUME FeedCore, FeedNext
    PROVE  FeedCore' /\ (Settles => Settles')
<1>1. ASSUME NEW stock \in 0 .. MaxOnHand, PostMovement(stock) PROVE FeedCore' /\ Settles'
  BY <1>1, PostMovementKeeps
<1>2. ASSUME NEW r \in Relays, Claim(r) \/ Publish(r) \/ Mark(r) \/ RollBackRelay(r)
      PROVE  FeedCore' /\ (Settles => Settles')
  BY <1>2, ClaimKeeps, PublishKeeps, MarkKeeps, RollBackKeeps
<1>3. CASE PruneRelayed
  BY <1>3, PruneKeeps
<1>4. ASSUME NEW s \in Jobs,
             \/ ReadStock(s) \/ Push(s) \/ PushFails(s)
             \/ Record(s) \/ RecordFails(s)
      PROVE  FeedCore' /\ (Settles => Settles')
  BY <1>4, ReadStockKeeps, PushKeeps, PushFailsKeeps, RecordKeeps
<1>5. CASE ReadFails \/ ConsumerDies
  BY <1>5, ReadFailsKeeps, ConsumerDiesKeeps
<1> QED BY <1>1, <1>2, <1>3, <1>4, <1>5 DEF FeedNext

LEMMA FeedStutter ==
    ASSUME FeedCore, UNCHANGED feedVars
    PROVE  FeedCore' /\ (Settles => Settles')
BY DEF feedVars, relayVars, queueVars, slotVars, FeedCore, FeedShape, JobsOnce, Finished,
       RowsKept, SlotsClean, Settles, Fresh, Running, Busy

\* The feed alone, from the movement to the marketplace: with any number of
\* relays and jobs, whatever dies or throws, every announced movement is in the
\* outbox, on the queue, in a slot, handled, or in a job that failed for good,
\* and once nothing is under way, if the last job ran alone and pushed its
\* quantity, the marketplace shows what is available.
THEOREM FeedSettles == FeedSpec => [](FeedTypeOK /\ NothingDropped /\ SettledIsTrue)
<1>1. FeedInit => FeedCore /\ Settles
  BY FeedInitOK
<1>2. FeedCore /\ Settles /\ [FeedNext]_feedVars => FeedCore' /\ Settles'
  BY FeedStep, FeedStutter
<1>3. FeedCore /\ Settles => FeedTypeOK /\ NothingDropped /\ SettledIsTrue
  BY CoreImplies, SettlesImplies
<1> QED BY <1>1, <1>2, <1>3, PTL DEF FeedSpec

-----------------------------------------------------------------------------
(* The orders of the marketplace                                           *)

\* The orders are numbered from one, and each needs at least one unit.
LEMMA OrdersPlaced ==
    /\ Len(OrderLines) \in Nat
    /\ Placed = 1 .. Len(OrderLines) /\ IsFiniteSet(Placed)
    /\ \A n \in Placed : Needed(n) \in Nat \ {0}
<1>1. Len(OrderLines) \in Nat /\ Placed = 1 .. Len(OrderLines)
  BY ImportAssumption DEF Placed
<1>2. IsFiniteSet(Placed)
  <2>1. 1 \in Int /\ Len(OrderLines) \in Int
    BY <1>1
  <2> QED BY <1>1, <2>1, FS_Interval
<1>3. ASSUME NEW n \in Placed PROVE Needed(n) \in Nat \ {0}
  <2> DEFINE lines == OrderLines[n]
             S == DOMAIN lines
  <2>1. lines \in Seq(Nat \ {0}) /\ lines # <<>>
    BY ImportAssumption, <1>1, <1>3 DEF Placed
  <2> HIDE DEF lines
  <2>2. /\ Len(lines) \in Nat /\ 1 \in Int /\ Len(lines) \in Int
        /\ S = 1 .. Len(lines) /\ 1 \in S
        /\ \A l \in S : lines[l] \in Nat \ {0}
    BY <2>1
  <2>3. IsFiniteSet(S)
    BY <2>2, FS_Interval
  <2>4. \A l \in S : lines[l] \in Nat
    BY <2>2
  <2> HIDE DEF S
  <2> DEFINE first == 1
  <2>5. first \in S
    BY <2>2
  <2> HIDE DEF first
  <2>6. SumOf(lines, S) \in Nat
    BY ONLY <2>3, <2>4, SumType
  <2>7. lines[first] <= SumOf(lines, S)
    BY ONLY <2>3, <2>4, <2>5, SumAtLeast
  <2>8. lines[first] \in Nat \ {0}
    BY <2>2, <2>5
  <2>9. SumOf(lines, S) \in Nat \ {0}
    BY <2>6, <2>7, <2>8
  <2> QED BY <2>9 DEF Needed, lines, S
<1> QED BY <1>1, <1>2, <1>3

-----------------------------------------------------------------------------
(* Order import: the inductive invariant                                   *)

\* What is known of an order at least once it is below the cursor.
Accounted(n) ==
    recorded[n] > 0 \/ n \in failed \/ \E i \in Importers : Contains(todo[i], n)

ImportTypeOK ==
    /\ cursor \in 0 .. Len(OrderLines)
    /\ todo \in [Importers -> Seq(Placed)]
    /\ committed \in [Importers -> Placed \cup {0}]
    /\ recorded \in [Placed -> {0, 1}]
    /\ reserved \in Nat
    /\ acked \subseteq Placed

ImportInv ==
    /\ ImportTypeOK
    /\ reserved = SumOf(ReservedFor, Placed)
    /\ \A n \in acked : recorded[n] = 1
    /\ \A i \in Importers : committed[i] > 0 => recorded[committed[i]] = 1
    /\ \A n \in 1 .. cursor : Accounted(n)

\* The invariant is the property and the order each import has just recorded.
LEMMA ImportInvImplies == ImportInv => ImportedOnce
<1> SUFFICES ASSUME ImportInv PROVE ImportedOnce
  OBVIOUS
<1>1. \A n \in Placed : recorded[n] <= 1
  BY DEF ImportInv, ImportTypeOK
<1>2. reserved = SumOf(ReservedFor, Placed) /\ \A n \in 1 .. cursor : Accounted(n)
  BY DEF ImportInv
<1>3. acked \subseteq {n \in Placed : recorded[n] = 1}
  BY DEF ImportInv, ImportTypeOK
<1> QED BY <1>1, <1>2, <1>3 DEF ImportedOnce, Accounted

LEMMA ImportInitOK == ImportInit => ImportInv
<1> SUFFICES ASSUME ImportInit PROVE ImportInv
  OBVIOUS
<1>1. ImportTypeOK
  BY OrdersPlaced DEF ImportInit, ImportTypeOK
<1>2. reserved = SumOf(ReservedFor, Placed)
  <2> DEFINE f == ReservedFor
  <2>1. \A n \in Placed : f[n] = 0
    BY OrdersPlaced DEF ImportInit, ReservedFor
  <2>2. \A n \in Placed : f[n] \in Nat
    BY <2>1
  <2> HIDE DEF f
  <2>3. IsFiniteSet(Placed)
    BY OrdersPlaced
  <2>4. SumOf(f, Placed) = 0
    BY ONLY <2>1, <2>2, <2>3, SumZero
  <2> QED BY <2>4 DEF ImportInit, f
<1>3. \A i \in Importers : ~ (committed[i] > 0)
  BY DEF ImportInit
<1>4. acked = {} /\ 1 .. cursor = {}
  BY DEF ImportInit
<1> QED BY <1>1, <1>2, <1>3, <1>4 DEF ImportInv

\* What an importer drops from its list is the head.
LEMMA HeadLeaves ==
    ASSUME NEW s \in Seq(Placed), s # <<>>
    PROVE  /\ Head(s) \in Placed /\ Tail(s) \in Seq(Placed)
           /\ \A n : Contains(s, n) => n = Head(s) \/ Contains(Tail(s), n)
<1>1. /\ Head(s) \in Placed /\ Tail(s) \in Seq(Placed) /\ Head(s) = s[1]
      /\ Len(s) \in Nat /\ Len(Tail(s)) = Len(s) - 1
      /\ \A k \in 1 .. Len(Tail(s)) : Tail(s)[k] = s[k + 1]
  OBVIOUS
<1>2. ASSUME NEW n, Contains(s, n), n # Head(s) PROVE Contains(Tail(s), n)
  <2>1. PICK k \in 1 .. Len(s) : s[k] = n
    BY <1>2 DEF Contains
  <2>2. k # 1
    BY <1>1, <1>2, <2>1
  <2>3. k - 1 \in 1 .. Len(Tail(s)) /\ Tail(s)[k - 1] = s[(k - 1) + 1] /\ (k - 1) + 1 = k
    BY <1>1, <2>2
  <2>4. Tail(s)[k - 1] = n
    BY <2>1, <2>3
  <2> QED BY <2>3, <2>4 DEF Contains
<1> QED BY <1>1, <1>2

\* An importer that goes on to its next order loses none but the one it leaves.
LEMMA OneLeaves ==
    ASSUME ImportTypeOK, NEW i \in Importers, todo[i] # <<>>, NextOrder(i)
    PROVE  /\ Head(todo[i]) \in Placed
           /\ todo' \in [Importers -> Seq(Placed)]
           /\ \A n, j : j \in Importers /\ Contains(todo[j], n) /\ n # Head(todo[i])
                 => Contains(todo'[j], n)
<1> DEFINE s == todo[i]
<1>1. s \in Seq(Placed) /\ s # <<>>
  BY DEF ImportTypeOK
<1>2. /\ Head(s) \in Placed /\ Tail(s) \in Seq(Placed)
      /\ \A n : Contains(s, n) => n = Head(s) \/ Contains(Tail(s), n)
  BY <1>1, HeadLeaves
<1>3. /\ todo' = [todo EXCEPT ![i] = Tail(s)]
      /\ todo \in [Importers -> Seq(Placed)]
  BY DEF NextOrder, ImportTypeOK
<1>4. todo' \in [Importers -> Seq(Placed)]
  BY <1>2, <1>3
<1>5. todo'[i] = Tail(s) /\ \A j \in Importers \ {i} : todo'[j] = todo[j]
  BY <1>3
<1> QED BY <1>2, <1>4, <1>5

\* An order that was accounted for stays so unless it is the one left behind.
LEMMA OthersAccounted ==
    ASSUME ImportInv, NEW i \in Importers, todo[i] # <<>>, NextOrder(i),
           NEW m, m = Head(todo[i]), cursor' = cursor,
           \A n \in Placed : recorded[n] > 0 => recorded'[n] > 0,
           \A n \in failed : n = m \/ n \in failed',
           recorded'[m] > 0 \/ m \in failed'
    PROVE  \A n \in 1 .. cursor' : Accounted(n)'
<1> SUFFICES ASSUME NEW n \in 1 .. cursor, n # m
             PROVE  Accounted(n)'
  BY DEF Accounted
<1>1. n \in Placed
  BY OrdersPlaced DEF ImportInv, ImportTypeOK
<1>2. ImportTypeOK /\ Accounted(n)
  BY DEF ImportInv
<1>3. \A j : j \in Importers /\ Contains(todo[j], n) => Contains(todo'[j], n)
  BY <1>2, OneLeaves, Zenon
<1> QED BY <1>1, <1>2, <1>3, Zenon DEF Accounted

LEMMA PullOrdersKeeps ==
    ASSUME ImportInv, NEW i \in Importers, PullOrders(i)
    PROVE  ImportInv'
<1> DEFINE orders == Len(OrderLines)
           last == IF cursor + PageSize < orders THEN cursor + PageSize ELSE orders
           page == [k \in 1 .. (last - cursor) |-> cursor + k]
<1>1. /\ orders \in Nat /\ cursor \in Nat /\ cursor < last /\ last \in Nat /\ last <= orders
      /\ cursor' \in {cursor, last}
      /\ Placed = 1 .. orders
  BY ImportAssumption, OrdersPlaced DEF PullOrders, ImportInv, ImportTypeOK
<1>2. /\ todo[i] = <<>> /\ todo' = [todo EXCEPT ![i] = page]
      /\ todo \in [Importers -> Seq(Placed)]
      /\ UNCHANGED <<committed, recorded, failed, acked, reserved>>
  BY DEF PullOrders, Between, ImportInv, ImportTypeOK
<1> HIDE DEF orders, last
<1>3. page \in Seq(Placed) /\ Len(page) = last - cursor
  <2>1. last - cursor \in Nat
    BY <1>1
  <2>2. \A k \in 1 .. (last - cursor) : cursor + k \in Placed
    BY <1>1
  <2> QED BY <2>1, <2>2
<1>4. \A n \in (cursor + 1) .. last : Contains(page, n)
  <2> SUFFICES ASSUME NEW n \in (cursor + 1) .. last PROVE Contains(page, n)
    OBVIOUS
  <2>1. n - cursor \in 1 .. (last - cursor) /\ page[n - cursor] = n
    BY <1>1
  <2> QED BY <1>3, <2>1 DEF Contains
<1> HIDE DEF page
<1>5. todo' \in [Importers -> Seq(Placed)] /\ todo'[i] = page
  BY <1>2, <1>3
<1>6. ImportTypeOK'
  <2>1. cursor' \in 0 .. orders
    BY <1>1
  <2> QED BY <1>2, <1>5, <2>1 DEF ImportInv, ImportTypeOK, orders
<1>7. /\ (reserved = SumOf(ReservedFor, Placed))'
      /\ \A n \in acked' : recorded'[n] = 1
      /\ \A j \in Importers : committed'[j] > 0 => recorded'[committed'[j]] = 1
  BY <1>2 DEF ImportInv, ReservedFor
<1>8. ASSUME NEW n \in 1 .. cursor' PROVE Accounted(n)'
  <2>1. CASE n \in 1 .. cursor
    <3>1. ASSUME NEW j \in Importers, Contains(todo[j], n) PROVE Contains(todo'[j], n)
      <4>1. j # i
        BY <1>2, <3>1 DEF Contains
      <4> QED BY <1>2, <3>1, <4>1
    <3>2. Accounted(n)
      BY <2>1 DEF ImportInv
    <3> QED BY <1>2, <3>1, <3>2, Zenon DEF Accounted
  <2>2. CASE n \in (cursor + 1) .. last
    BY <1>4, <1>5, <2>2 DEF Accounted
  <2> QED BY <1>1, <1>8, <2>1, <2>2
<1> QED BY <1>6, <1>7, <1>8 DEF ImportInv

\* An order that was recorded before is left behind.
LEMMA DuplicateKeeps ==
    ASSUME ImportInv, NEW i \in Importers, Duplicate(i)
    PROVE  ImportInv'
<1>1. /\ todo[i] # <<>> /\ recorded[Head(todo[i])] > 0 /\ NextOrder(i)
      /\ UNCHANGED <<cursor, committed, recorded, failed, acked, reserved>>
  BY DEF Duplicate
<1>2. ImportTypeOK'
  BY <1>1, OneLeaves DEF ImportInv, ImportTypeOK
<1>3. \A n \in 1 .. cursor' : Accounted(n)'
  BY <1>1, OthersAccounted
<1> QED BY <1>1, <1>2, <1>3 DEF ImportInv, ReservedFor

\* An order that fails is reported.
LEMMA FailKeeps ==
    ASSUME ImportInv, NEW i \in Importers, Fail(i)
    PROVE  ImportInv'
<1>1. /\ todo[i] # <<>> /\ NextOrder(i) /\ failed' = failed \cup {Head(todo[i])}
      /\ UNCHANGED <<cursor, committed, recorded, acked, reserved>>
  BY DEF Fail
<1>2. ImportTypeOK'
  BY <1>1, OneLeaves DEF ImportInv, ImportTypeOK
<1>3. \A n \in 1 .. cursor' : Accounted(n)'
  BY <1>1, OthersAccounted
<1> QED BY <1>1, <1>2, <1>3 DEF ImportInv, ReservedFor

\* An order that is imported was not recorded, and is reserved in full.
LEMMA ImportKeeps ==
    ASSUME ImportInv, NEW i \in Importers, Import(i)
    PROVE  ImportInv'
<1>1. ImportTypeOK
  BY DEF ImportInv
<1>2. PICK m \in Placed : m = Head(todo[i])
  BY <1>1, OneLeaves DEF Import
<1>3. /\ todo[i] # <<>> /\ NextOrder(i) /\ recorded[m] = 0
      /\ reserved' = reserved + Needed(m)
      /\ recorded' = [recorded EXCEPT ![m] = recorded[m] + 1]
      /\ committed' = [committed EXCEPT ![i] = m]
      /\ failed' = failed \ {m}
      /\ cursor' = cursor /\ acked' = acked
  BY <1>2 DEF Import, Unique
<1>4. /\ recorded' \in [Placed -> {0, 1}] /\ recorded'[m] = 1
      /\ \A n \in Placed \ {m} : recorded'[n] = recorded[n]
  BY <1>1, <1>3 DEF ImportTypeOK
<1>5. Needed(m) \in Nat /\ reserved \in Nat /\ m \in Nat \ {0}
  BY <1>1, OrdersPlaced DEF ImportTypeOK
<1>6. ImportTypeOK'
  <2>1. todo' \in [Importers -> Seq(Placed)]
    BY <1>1, <1>3, OneLeaves
  <2>2. committed' \in [Importers -> Placed \cup {0}]
    BY <1>1, <1>3 DEF ImportTypeOK
  <2>3. reserved' \in Nat
    BY <1>3, <1>5
  <2>4. cursor' \in 0 .. Len(OrderLines) /\ acked' \subseteq Placed
    BY <1>1, <1>3 DEF ImportTypeOK
  <2> QED BY <1>4, <2>1, <2>2, <2>3, <2>4 DEF ImportTypeOK
<1>7. (reserved = SumOf(ReservedFor, Placed))'
  <2> DEFINE f == ReservedFor
             g == ReservedFor'
  <2>1. \A n \in Placed : recorded[n] \in {0, 1} /\ recorded'[n] \in {0, 1} /\ Needed(n) \in Nat
    BY <1>1, <1>4, OrdersPlaced DEF ImportTypeOK
  <2>2. \A n \in Placed : f[n] = recorded[n] * Needed(n) /\ g[n] = recorded'[n] * Needed(n)
    BY DEF ReservedFor
  <2>3. \A n \in Placed : /\ recorded[n] * Needed(n) \in Nat
                          /\ recorded'[n] * Needed(n) \in Nat
    BY <2>1
  <2>4. \A n \in Placed : f[n] \in Nat /\ g[n] \in Nat
    BY <2>2, <2>3
  <2>5. \A n \in Placed \ {m} : f[n] = g[n]
    BY <1>4, <2>2
  <2>6. f[m] = 0 /\ g[m] = Needed(m)
    BY <1>3, <1>4, <1>5, <2>2
  <2> HIDE DEF f, g
  <2>7. IsFiniteSet(Placed)
    BY OrdersPlaced
  <2>8. SumOf(g, Placed) + f[m] = SumOf(f, Placed) + g[m]
    BY ONLY <1>2, <2>4, <2>5, <2>7, SumChange
  <2>9. SumOf(f, Placed) \in Nat /\ SumOf(g, Placed) \in Nat
    BY ONLY <2>4, <2>7, SumType
  <2>10. reserved = SumOf(f, Placed)
    BY DEF ImportInv, f
  <2>11. reserved' = SumOf(g, Placed)
    BY <1>3, <1>5, <2>6, <2>8, <2>9, <2>10
  <2> QED BY <2>11 DEF g
<1>8. /\ \A n \in acked' : recorded'[n] = 1
      /\ \A j \in Importers : committed'[j] > 0 => recorded'[committed'[j]] = 1
  <2>1. \A n \in Placed : recorded[n] = 1 => recorded'[n] = 1
    BY <1>4
  <2>2. \A n \in acked' : recorded'[n] = 1
    BY <1>1, <1>3, <2>1 DEF ImportInv, ImportTypeOK
  <2>3. ASSUME NEW j \in Importers, committed'[j] > 0 PROVE recorded'[committed'[j]] = 1
    <3>1. CASE j = i
      BY <1>1, <1>3, <1>4, <3>1 DEF ImportTypeOK
    <3>2. CASE j # i
      <4>1. committed'[j] = committed[j] /\ committed[j] \in Placed
        BY <1>1, <1>3, <2>3, <3>2, OrdersPlaced DEF ImportTypeOK
      <4> QED BY <2>1, <2>3, <4>1 DEF ImportInv
    <3> QED BY <3>1, <3>2
  <2> QED BY <2>2, <2>3
<1>9. \A n \in 1 .. cursor' : Accounted(n)'
  <2>1. \A n \in Placed : recorded[n] > 0 => recorded'[n] > 0
    BY <1>4
  <2>2. recorded'[m] > 0
    BY <1>4
  <2> QED BY <1>2, <1>3, <2>1, <2>2, OthersAccounted
<1> QED BY <1>6, <1>7, <1>8, <1>9 DEF ImportInv

\* Only an order that was just recorded is acknowledged.
LEMMA AcknowledgeKeeps ==
    ASSUME ImportInv, NEW i \in Importers, Acknowledge(i)
    PROVE  ImportInv'
<1>1. /\ committed[i] > 0
      /\ acked' \in {acked, acked \cup {committed[i]}}
      /\ committed' = [committed EXCEPT ![i] = 0]
      /\ UNCHANGED <<cursor, todo, recorded, failed, reserved>>
  BY DEF Acknowledge
<1>2. ImportTypeOK /\ committed[i] \in Placed /\ recorded[committed[i]] = 1
  BY <1>1, OrdersPlaced DEF ImportInv, ImportTypeOK
<1>3. ImportTypeOK'
  BY <1>1, <1>2 DEF ImportTypeOK
<1>4. /\ \A n \in acked' : recorded'[n] = 1
      /\ \A j \in Importers : committed'[j] > 0 => recorded'[committed'[j]] = 1
  <2>1. \A n \in acked' : recorded'[n] = 1
    BY <1>1, <1>2 DEF ImportInv
  <2>2. \A j \in Importers \ {i} : committed'[j] = committed[j]
    BY <1>1, <1>2 DEF ImportTypeOK
  <2>3. committed'[i] = 0
    BY <1>1, <1>2 DEF ImportTypeOK
  <2> QED BY <1>1, <2>1, <2>2, <2>3 DEF ImportInv
<1>5. \A n \in 1 .. cursor' : Accounted(n)'
  BY <1>1 DEF ImportInv, Accounted
<1> QED BY <1>1, <1>3, <1>4, <1>5 DEF ImportInv, ReservedFor

\* After a restart the cursor is back at the start: everything is pulled again.
LEMMA RestartKeeps ==
    ASSUME ImportInv, Restart
    PROVE  ImportInv'
<1>1. /\ cursor' = 0 /\ todo' = [i \in Importers |-> <<>>]
      /\ committed' = [i \in Importers |-> 0]
      /\ UNCHANGED <<recorded, acked, reserved>>
  BY DEF Restart, CursorAfterRestart
<1>2. ImportTypeOK'
  BY <1>1, OrdersPlaced DEF ImportInv, ImportTypeOK
<1>3. 1 .. cursor' = {} /\ \A i \in Importers : ~ (committed'[i] > 0)
  BY <1>1
<1> QED BY <1>1, <1>2, <1>3 DEF ImportInv, ReservedFor

LEMMA ImportInvStays ==
    ImportInv /\ [ImportNext]_<<feedVars, importVars>> => ImportInv'
<1> SUFFICES ASSUME ImportInv, [ImportNext]_<<feedVars, importVars>> PROVE ImportInv'
  OBVIOUS
<1>1. ASSUME UNCHANGED importVars PROVE ImportInv'
  BY <1>1 DEF importVars, ImportInv, ImportTypeOK, ReservedFor, Accounted
<1>2. ASSUME NEW i \in Importers,
             \/ PullOrders(i) \/ Check(i) \/ Duplicate(i) \/ Import(i) \/ Fail(i)
             \/ Acknowledge(i)
      PROVE  ImportInv'
  <2>1. CASE Check(i)
    BY <2>1 DEF Check, ImportInv, ImportTypeOK, ReservedFor, Accounted
  <2> QED BY <1>2, <2>1, PullOrdersKeeps, DuplicateKeeps, ImportKeeps, FailKeeps,
             AcknowledgeKeeps
<1>3. CASE UNCHANGED <<feedVars, importVars>>
  BY <1>1, <1>3
<1> QED BY <1>1, <1>2, <1>3, RestartKeeps DEF ImportNext, ImportStep

\* Orders of a marketplace, with any number of imports at the same time and
\* any number of restarts: each is recorded at most once and reserved in full,
\* only recorded ones are acknowledged, and none below the cursor is skipped.
\* (OrderImportService, whatever the other movements of the stock.)
THEOREM OrdersImportedOnce == ImportSpec => []ImportedOnce
<1>1. ImportInit => ImportInv
  BY ImportInitOK
<1>2. ImportInv /\ [ImportNext]_<<feedVars, importVars>> => ImportInv'
  BY ImportInvStays
<1>3. ImportInv => ImportedOnce
  BY ImportInvImplies
<1> QED BY <1>1, <1>2, <1>3, PTL DEF ImportSpec

-----------------------------------------------------------------------------
(* The feed under the imports                                              *)

FeedUnderImport == FeedCore /\ (reserved = 0 => Settles)

\* An import takes stock behind the feed's back, and from then on some stock is
\* reserved; no other step of an importer touches the feed.
LEMMA ImportStepFeeds ==
    ASSUME ImportInv, FeedUnderImport, ImportStep
    PROVE  FeedUnderImport'
<1>1. ASSUME UNCHANGED <<feedVars, reserved>> PROVE FeedUnderImport'
  BY <1>1, FeedStutter DEF FeedUnderImport
<1>2. ASSUME NEW i \in Importers, Import(i) PROVE FeedUnderImport'
  <2>1. PICK m \in Placed : m = Head(todo[i])
    BY <1>2, OneLeaves DEF Import, ImportInv
  <2>2. /\ stockLevel' = stockLevel - Needed(m) /\ Needed(m) <= stockLevel
        /\ reserved' = reserved + Needed(m)
        /\ UNCHANGED unchangedFeed
    BY <1>2, <2>1 DEF Import
  <2>3. Needed(m) \in Nat \ {0} /\ reserved \in Nat
    BY <2>1, OrdersPlaced DEF ImportInv, ImportTypeOK
  <2> DEFINE needed == Needed(m)
  <2> HIDE DEF needed
  <2>4. stockLevel \in 0 .. MaxOnHand /\ MaxOnHand \in Nat
    BY FeedAssumption DEF FeedUnderImport, FeedCore, FeedShape
  <2>5. stockLevel' \in 0 .. MaxOnHand /\ reserved' # 0
    <3>1. stockLevel' = stockLevel - needed /\ needed <= stockLevel
          /\ reserved' = reserved + needed /\ needed \in Nat \ {0}
      BY <2>2, <2>3 DEF needed
    <3> QED BY <2>3, <2>4, <3>1
  <2>6. FeedShape' /\ JobsOnce' /\ RowsKept' /\ SlotsClean'
    BY <2>2, <2>5 DEF unchangedFeed, relayVars, queueVars, slotVars, FeedUnderImport, FeedCore,
       FeedShape, JobsOnce, Finished, RowsKept, SlotsClean, Running, Busy
  <2> QED BY <2>5, <2>6 DEF FeedUnderImport, FeedCore
<1>3. ASSUME NEW i \in Importers,
             PullOrders(i) \/ Check(i) \/ Duplicate(i) \/ Fail(i) \/ Acknowledge(i)
      PROVE  UNCHANGED <<feedVars, reserved>>
  BY <1>3 DEF PullOrders, Check, Duplicate, Fail, Acknowledge
<1>4. Restart => UNCHANGED <<feedVars, reserved>>
  BY DEF Restart
<1> QED BY <1>1, <1>2, <1>3, <1>4 DEF ImportStep

\* The feed with the imports beside it: what was announced is never dropped,
\* and as long as no import has taken stock the marketplace ends with what is
\* available.  (The import writes no event for the level it debits.)
THEOREM FeedKeepsUpAlways == ImportSpec => []FeedKeepsUp
<1>1. ImportInit => ImportInv /\ FeedUnderImport
  BY ImportInitOK, FeedInitOK DEF ImportInit, FeedUnderImport
<1>2. ASSUME ImportInv, FeedUnderImport, [ImportNext]_<<feedVars, importVars>>
      PROVE  ImportInv' /\ FeedUnderImport'
  <2>1. ImportInv'
    BY <1>2, ImportInvStays
  <2>2. CASE ImportStep
    BY <1>2, <2>1, <2>2, ImportStepFeeds
  <2>3. CASE FeedNext /\ UNCHANGED importVars
    BY <1>2, <2>1, <2>3, FeedStep DEF FeedUnderImport, importVars
  <2>4. CASE UNCHANGED <<feedVars, importVars>>
    BY <1>2, <2>1, <2>4, FeedStutter DEF FeedUnderImport, importVars
  <2> QED BY <1>2, <2>2, <2>3, <2>4 DEF ImportNext
<1>3. FeedUnderImport => FeedKeepsUp
  BY CoreImplies, SettlesImplies DEF FeedUnderImport, FeedKeepsUp
<1> QED BY <1>1, <1>2, <1>3, PTL DEF ImportSpec

-----------------------------------------------------------------------------
(* The books: rounding and the lines of an invoice                         *)

\* Rounding keeps the order and stays within a bound that is a number.
LEMMA RoundedSound ==
    ASSUME NEW a \in Nat, NEW b \in Nat \ {0}
    PROVE  /\ Rounded(a, b) \in Nat
           /\ \A c \in Nat : c <= a => Rounded(c, b) <= Rounded(a, b)
           /\ \A c \in Nat : a <= b * c => Rounded(a, b) <= c
           /\ 2 * (b * Rounded(a, b)) <= 2 * a + b
           /\ 2 * a < 2 * (b * Rounded(a, b)) + b
<1>1. 2 * a + b \in Nat /\ 2 * b \in Nat \ {0}
  OBVIOUS
<1> DEFINE r == (2 * a + b) \div (2 * b)
<1>2. r \in Nat /\ (2 * b) * r <= 2 * a + b /\ 2 * a + b < (2 * b) * r + 2 * b
  BY <1>1, Quotient
<1>3. Rounded(a, b) = r
  BY DEF Rounded
<1>4. ASSUME NEW c \in Nat, c <= a PROVE Rounded(c, b) <= Rounded(a, b)
  <2>1. c * b <= a * b
    BY <1>4, ProductInOrder
  <2> QED BY <2>1, RoundedInOrder DEF Rounded
<1> HIDE DEF r
<1>5. (2 * b) * r = 2 * (b * r) /\ b * r \in Nat
  BY <1>2
<1>6. ASSUME NEW c \in Nat, a <= b * c PROVE r <= c
  <2> SUFFICES ASSUME c + 1 <= r PROVE FALSE
    BY <1>2
  <2>1. (c + 1) * b <= r * b
    BY <1>2, ProductInOrder
  <2>2. (c + 1) * b = b * c + b /\ r * b = b * r /\ b * c \in Nat
    BY <1>2
  <2> DEFINE x == b * r
             y == b * c
  <2>3. y + b <= x /\ 2 * x <= 2 * a + b /\ a <= y /\ x \in Nat /\ y \in Nat
    BY <1>2, <1>5, <1>6, <2>1, <2>2
  <2> HIDE DEF x, y
  <2> QED BY <2>3
<1> QED BY <1>2, <1>3, <1>4, <1>5, <1>6

LEMMA RoundedWithin ==
    ASSUME NEW a \in Nat, NEW b \in Nat \ {0}, NEW c \in Nat, a <= b * c
    PROVE  Rounded(a, b) \in Nat /\ Rounded(a, b) <= c
BY RoundedSound

\* A line is taxed for no more than it costs, and not at all if its VAT is the
\* buyer's.
LEMMA LineSound ==
    ASSUME NEW amount \in Nat, NEW category
    PROVE  /\ LineTotals(amount, RateBp, category).gross \in Nat
           /\ LineTotals(amount, RateBp, category).tax \in Nat
           /\ LineTotals(amount, RateBp, category).tax <= LineTotals(amount, RateBp, category).gross
           /\ category = "AE" => LineTotals(amount, RateBp, category).tax = 0
<1> DEFINE vat == VatFromInclusive(amount, RateBp)
<1>1. vat \in Nat /\ vat <= amount
  <2>1. RateBp \in Nat /\ amount * RateBp \in Nat /\ 10000 + RateBp \in Nat \ {0}
    BY BooksAssumption
  <2>2. amount * RateBp <= (10000 + RateBp) * amount
    <3>1. RateBp * amount <= (10000 + RateBp) * amount
      BY <2>1, ProductInOrder
    <3> QED BY <2>1, <3>1
  <2>3. PICK x \in Nat, y \in Nat \ {0} :
           x = amount * RateBp /\ y = 10000 + RateBp /\ x <= y * amount
    BY <2>1, <2>2
  <2>4. Rounded(x, y) \in Nat /\ Rounded(x, y) <= amount
    BY <2>3, RoundedWithin
  <2> QED BY <2>3, <2>4 DEF VatFromInclusive
<1> HIDE DEF vat
<1>2. LineTotals(amount, RateBp, category)
        = CASE category = "S"  -> [gross |-> amount, tax |-> vat, net |-> amount - vat]
            [] category = "AE" -> [gross |-> amount - vat, tax |-> 0, net |-> amount - vat]
            [] OTHER           -> [gross |-> amount, tax |-> 0, net |-> amount]
  BY DEF LineTotals, vat
<1> QED BY <1>1, <1>2

\* What the buyer's declarations must be for the VAT to be left to the buyer.
Supported(basis) ==
    \E d \in basis : d.resale /\ d.registered /\ d.outcome = "verified" /\ ~d.revoked

\* The reverse charge covers devices, and only if the declaration that was read
\* supports it.
LEMMA ChargeSupported ==
    ASSUME NEW sale, sale.lines = Line,
           \A d \in sale.declarations : d \in DeclarationRecord /\ ~d.revoked,
           NEW l \in Goods
    PROVE  /\ CategoryOf(sale, l) \in {"S", "Z", "E", "AE"}
           /\ CategoryOf(sale, l) = "AE" =>
                Line[l].device /\ Supported(sale.declarations) /\ sale.declarations # {}
<1>1. StandardCategory(Line[l]) \in {"S", "Z", "E"}
  BY DEF StandardCategory
<1>2. ASSUME RefusalReason(sale) = "none" PROVE Supported(sale.declarations)
  <2>1. sale.declarations # {}
    BY <1>2 DEF RefusalReason
  <2>2. \A d \in sale.declarations : d["resale"] /\ d["registered"]
    BY <1>2, <2>1 DEF RefusalReason, DeclarationRecord
  <2>3. \A d \in sale.declarations : Verified(d)
    BY <1>2, <2>1 DEF RefusalReason
  <2> QED BY <2>1, <2>2, <2>3 DEF Supported, Verified
<1>3. CategoryOf(sale, l) = "AE" => RefusalReason(sale) = "none" /\ Qualifies(Line[l])
  BY <1>1 DEF CategoryOf, RcmRefused
<1>4. CategoryOf(sale, l) \in {"S", "Z", "E", "AE"}
  BY <1>1 DEF CategoryOf
<1> QED BY <1>2, <1>3, <1>4 DEF Qualifies, Supported

-----------------------------------------------------------------------------
(* The books: the inductive invariant                                      *)

Resolution == [kind : {"standard", "reverse_charge", "mixed"}, by : SUBSET Nat,
               read : SUBSET DeclarationRecord,
               category : [Goods -> {"S", "Z", "E", "AE"}]]
InvoiceLine == [category : {"S", "Z", "E", "AE"}, rate : 0..RateBp, total : Nat, tax : Nat]
Invoice == [kind : {"standard", "reverse_charge", "mixed"}, by : SUBSET Nat,
            read : SUBSET DeclarationRecord, lines : [Goods -> InvoiceLine]]

AtMostOne(S) == S = {} \/ \E x : S = {x}

BooksTypes ==
    /\ declared \in Seq(DeclarationRecord)
    /\ notes \in Seq(CreditNoteDocument)
    /\ resolved \in [Orders -> SUBSET Resolution]
    /\ invoice \in [Orders -> SUBSET Invoice]
    /\ refunded \in [Orders -> 0 .. Len(RefundSplit)]
    /\ IsFiniteSet(journal)

\* A sale is resolved once, before its invoice.
OneEach ==
    \A s \in Orders :
      /\ AtMostOne(resolved[s]) /\ AtMostOne(invoice[s])
      /\ resolved[s] # {} => invoice[s] = {}

\* What a treatment rests on; an invoice has it from its resolution.
ResolvedSupported ==
    \A s \in Orders : \A r \in resolved[s] :
      /\ (r.kind = "standard") = (r.by = {})
      /\ \A l \in Goods : r.category[l] = "AE" => Line[l].device /\ Supported(r.read)

InvoiceSupported ==
    \A s \in Orders : \A inv \in invoice[s] :
      /\ (inv.kind = "standard") = (inv.by = {})
      /\ \A l \in Goods :
           /\ inv.lines[l].tax <= inv.lines[l].total
           /\ inv.lines[l].category = "AE" =>
                Line[l].device /\ inv.lines[l].tax = 0 /\ Supported(inv.read)

\* Every line of a note is a part of its invoice line.
NoteProrated(note) ==
    /\ invoice[note.sale] # {}
    /\ \A inv \in invoice[note.sale] : \A i \in DOMAIN note.lines :
         LET credited == note.lines[i]
             line == inv.lines[credited.line]
         IN /\ credited.category = line.category /\ credited.rate = line.rate
            /\ credited.tax <= credited.total
            /\ line.tax = 0 => credited.tax = 0

NotesProrated == \A n \in DOMAIN notes : NoteProrated(notes[n])

\* What of a refund is VAT, within half a fils of its part of the invoice.
InProportion(inv, lines) ==
    LET skew == 2 * (lines["2200"] * TotalOf(inv) + lines["1100"] * TaxOf(inv))
    IN -TotalOf(inv) <= skew /\ skew <= TotalOf(inv)

\* A computed entry is about an invoice, balances, and moves the cost of goods
\* out of the inventory.
EntryTrue(e) ==
    \E s \in Orders : \E inv \in invoice[s] : \E n \in Nat :
      /\ e = [source |-> <<s, n>>, lines |-> e.lines]
      /\ e.lines \in [Accounts -> Int]
      /\ NetOf(e.lines, Accounts) = 0
      /\ e.lines["5000"] + e.lines["1300"] = 0
      /\ n > 0 => InProportion(inv, e.lines)

EntriesTrue == \A e \in posting \cup journal : EntryTrue(e)

OnePerSource == \A e, f \in journal : e.source = f.source => e = f

RefundsOf(s) == {e \in journal : e.source[1] = s /\ e.source[2] > 0}

\* The accounts of sale and refund agree with those of the money.
AccountsAgree ==
    Balance("4000") + Balance("4900") + Balance("2200") + Balance("1100") + Balance("1200") = 0

DriftOf(inv, entries) ==
    2 * (BalanceOf(entries, "2200") * TotalOf(inv) + BalanceOf(entries, "1100") * TaxOf(inv))

RefundsInProportion ==
    \A s \in Orders : \A inv \in invoice[s] :
      LET limit == Cardinality(RefundsOf(s)) * TotalOf(inv)
      IN -limit <= DriftOf(inv, RefundsOf(s)) /\ DriftOf(inv, RefundsOf(s)) <= limit

BooksInv ==
    /\ BooksTypes /\ OneEach
    /\ ResolvedSupported /\ InvoiceSupported /\ NotesProrated
    /\ EntriesTrue /\ OnePerSource /\ AccountsAgree /\ RefundsInProportion

LEMMA BooksInitInv ==
    ASSUME BooksInit
    PROVE  BooksInv
<1> USE DEF BooksInit
<1>1. BooksTypes
  <2>1. Len(RefundSplit) \in Nat
    BY BooksAssumption
  <2>2. 0 \in 0 .. Len(RefundSplit)
    BY <2>1
  <2>3. IsFiniteSet({})
    BY FS_EmptySet
  <2>4. <<>> \in Seq(DeclarationRecord) /\ <<>> \in Seq(CreditNoteDocument)
    OBVIOUS
  <2> QED BY <2>2, <2>3, <2>4 DEF BooksTypes
<1>2. OneEach /\ ResolvedSupported /\ InvoiceSupported /\ RefundsInProportion
  BY DEF OneEach, AtMostOne, ResolvedSupported, InvoiceSupported, RefundsInProportion
<1>3. NotesProrated /\ EntriesTrue /\ OnePerSource
  BY DEF NotesProrated, EntriesTrue, OnePerSource
<1>4. AccountsAgree
  <2>1. \A a : BalanceOf({}, a) = 0
    BY NetEmpty DEF BalanceOf
  <2>2. \A a : Balance(a) = 0
    BY <2>1 DEF Balance
  <2> QED BY <2>2 DEF AccountsAgree
<1> QED BY <1>1, <1>2, <1>3, <1>4 DEF BooksInv

-----------------------------------------------------------------------------
(* The books: declarations and invoices                                    *)

\* Where invoices and entries stay, what is said of them stays.
LEMMA EntriesStay ==
    ASSUME BooksInv, UNCHANGED <<invoice, posting, journal>>
    PROVE  EntriesTrue' /\ OnePerSource' /\ AccountsAgree' /\ RefundsInProportion'
<1>1. EntriesTrue' /\ OnePerSource'
  BY DEF BooksInv, EntriesTrue, OnePerSource, EntryTrue
<1>2. \A a : Balance(a)' = Balance(a)
  BY DEF Balance
<1>3. AccountsAgree'
  BY <1>2 DEF BooksInv, AccountsAgree
<1>4. \A s : RefundsOf(s)' = RefundsOf(s)
  BY DEF RefundsOf
<1>5. RefundsInProportion'
  BY <1>4 DEF BooksInv, RefundsInProportion
<1> QED BY <1>1, <1>3, <1>5

LEMMA InvoicesStay ==
    ASSUME BooksInv, UNCHANGED <<resolved, invoice, notes>>
    PROVE  OneEach' /\ ResolvedSupported' /\ InvoiceSupported' /\ NotesProrated'
BY DEF BooksInv, OneEach, ResolvedSupported, InvoiceSupported, NotesProrated, NoteProrated

LEMMA DeclarationsKeep ==
    ASSUME BooksInv,
           \/ \E resale, registered \in BOOLEAN : CaptureDeclaration(resale, registered)
           \/ \E d \in DOMAIN declared :
                \/ \E o \in {"verified", "failed", "unavailable"} : VerifyDeclaration(d, o)
                \/ RevokeDeclaration(d)
    PROVE  BooksInv'
<1>1. UNCHANGED <<resolved, invoice, notes, gateway, refunded, posting, journal>>
  BY DEF CaptureDeclaration, VerifyDeclaration, RevokeDeclaration
<1>2. declared' \in Seq(DeclarationRecord)
  <2>1. declared \in Seq(DeclarationRecord)
    BY DEF BooksInv, BooksTypes
  <2>2. CASE \E resale, registered \in BOOLEAN : CaptureDeclaration(resale, registered)
    BY <2>1, <2>2 DEF CaptureDeclaration, DeclarationRecord
  <2>3. ASSUME NEW d \in DOMAIN declared,
               \/ \E o \in {"verified", "failed", "unavailable"} : VerifyDeclaration(d, o)
               \/ RevokeDeclaration(d)
        PROVE  declared' \in Seq(DeclarationRecord)
    <3>1. declared[d] \in DeclarationRecord
      BY <2>1
    <3>2. \E new \in DeclarationRecord : declared' = [declared EXCEPT ![d] = new]
      <4>1. ASSUME NEW o \in {"verified", "failed", "unavailable"}, VerifyDeclaration(d, o)
            PROVE  \E new \in DeclarationRecord : declared' = [declared EXCEPT ![d] = new]
        <5>1. [declared[d] EXCEPT !.outcome = o] \in DeclarationRecord
          BY <3>1 DEF DeclarationRecord
        <5> QED BY <4>1, <5>1 DEF VerifyDeclaration
      <4>2. ASSUME RevokeDeclaration(d)
            PROVE  \E new \in DeclarationRecord : declared' = [declared EXCEPT ![d] = new]
        <5>1. [declared[d] EXCEPT !.revoked = TRUE] \in DeclarationRecord
          BY <3>1 DEF DeclarationRecord
        <5> QED BY <4>2, <5>1 DEF RevokeDeclaration
      <4> QED BY <2>3, <4>1, <4>2
    <3> QED BY <2>1, <3>2
  <2> QED BY <2>2, <2>3
<1>3. BooksTypes'
  BY <1>1, <1>2 DEF BooksInv, BooksTypes
<1> QED BY <1>1, <1>3, EntriesStay, InvoicesStay DEF BooksInv

LEMMA SettlementsKeep ==
    ASSUME BooksInv, NEW s \in Orders,
           \/ \E status \in {"captured", "failed"} : SettleGateway(s, status)
           \/ ProcessRefund(s)
    PROVE  BooksInv'
<1>1. UNCHANGED <<declared, resolved, invoice, notes, posting, journal>>
  BY DEF SettleGateway, ProcessRefund
<1>2. refunded' \in [Orders -> 0 .. Len(RefundSplit)]
  <2>1. Len(RefundSplit) \in Nat
    BY BooksAssumption
  <2> QED BY <2>1 DEF SettleGateway, ProcessRefund, BooksInv, BooksTypes
<1>3. BooksTypes'
  BY <1>1, <1>2 DEF BooksInv, BooksTypes
<1> QED BY <1>1, <1>3, EntriesStay, InvoicesStay DEF BooksInv

\* The greatest of some numbers up to n.
LEMMA MaxOfSome ==
    ASSUME NEW n \in Nat, NEW T \in SUBSET (1 .. n), T # {}
    PROVE  Max(T) \in T
<1> DEFINE left == {n - d : d \in T}
<1>1. left \subseteq Nat /\ left # {}
  <2>1. \A d \in T : n - d \in Nat
    <3>1. \A d \in 1 .. n : n - d \in Nat
      OBVIOUS
    <3> QED BY <3>1
  <2>2. left # {}
    BY Zenon
  <2> QED BY <2>1, <2>2, Zenon
<1>2. PICK m \in left : \A k \in left : m <= k
  <2> HIDE DEF left
  <2> QED BY <1>1, LeastExists
<1>3. PICK x \in T : m = n - x
  BY <1>2
<1>4. \A y \in T : x >= y
  <2> TAKE y \in T
  <2>1. m <= n - y
    BY <1>2
  <2> QED BY <1>3, <2>1
<1> QED BY <1>4 DEF Max

\* What a sale reads of the declarations.
LEMMA ContextSound ==
    ASSUME BooksTypes, NEW requested \in BOOLEAN
    PROVE  LET sale == SaleContext(requested)
           IN /\ sale.lines = Line
              /\ sale.declarations \subseteq DeclarationRecord
              /\ \A d \in sale.declarations : ~d.revoked
              /\ sale.declarations # {} => ActiveDeclaration # {}
              /\ ActiveDeclaration \subseteq Nat
<1>1. declared \in Seq(DeclarationRecord) /\ Len(declared) \in Nat
  BY DEF BooksTypes
<1>2. Unrevoked \in SUBSET (1 .. Len(declared))
  BY <1>1 DEF Unrevoked
<1>3. \A d \in ActiveDeclaration : d \in Unrevoked
  BY <1>1, <1>2, MaxOfSome DEF ActiveDeclaration
<1>4. \A d \in Unrevoked : declared[d] \in DeclarationRecord /\ ~declared[d].revoked /\ d \in Nat
  BY <1>1, <1>2 DEF Unrevoked
<1> QED BY <1>3, <1>4 DEF SaleContext

LEMMA ResolveKeeps ==
    ASSUME BooksInv, NEW s \in Orders, NEW requested \in BOOLEAN,
           ResolveForSale(s, requested)
    PROVE  BooksInv'
<1> DEFINE sale == SaleContext(requested)
           r == [kind |-> TreatmentKind(sale),
                 category |-> [l \in Goods |-> CategoryOf(sale, l)],
                 by |-> IF TreatmentKind(sale) = "standard" THEN {} ELSE ActiveDeclaration,
                 read |-> sale.declarations]
           charged == {l \in DOMAIN sale.lines : CategoryOf(sale, l) = "AE"}
<1>1. /\ UNCHANGED <<declared, invoice, notes, gateway, refunded, posting, journal>>
      /\ resolved' = [resolved EXCEPT ![s] = {r}]
      /\ invoice[s] = {}
  BY DEF ResolveForSale
<1>2. /\ sale.lines = Line /\ sale.declarations \subseteq DeclarationRecord
      /\ \A d \in sale.declarations : ~d.revoked
      /\ sale.declarations # {} => ActiveDeclaration # {}
      /\ ActiveDeclaration \subseteq Nat
  BY ContextSound DEF BooksInv
<1> HIDE DEF sale
<1>3. \A l \in Goods :
        /\ CategoryOf(sale, l) \in {"S", "Z", "E", "AE"}
        /\ CategoryOf(sale, l) = "AE" =>
             Line[l].device /\ Supported(sale.declarations) /\ sale.declarations # {}
  BY <1>2, ChargeSupported
<1>4. DOMAIN sale.lines = Goods /\ Goods # {}
  BY <1>2, BooksAssumption
<1>5. /\ TreatmentKind(sale) \in {"standard", "reverse_charge", "mixed"}
      /\ TreatmentKind(sale) # "standard" => charged # {}
  BY <1>4 DEF TreatmentKind
<1>6. TreatmentKind(sale) # "standard" => ActiveDeclaration # {}
  BY <1>2, <1>3, <1>4, <1>5
<1>7. r \in Resolution
  <2>1. [l \in Goods |-> CategoryOf(sale, l)] \in [Goods -> {"S", "Z", "E", "AE"}]
    BY <1>3
  <2>2. (IF TreatmentKind(sale) = "standard" THEN {} ELSE ActiveDeclaration) \in SUBSET Nat
    BY <1>2
  <2> QED BY <1>2, <1>5, <2>1, <2>2 DEF Resolution
<1>8. /\ (r.kind = "standard") = (r.by = {})
      /\ \A l \in Goods : r.category[l] = "AE" => Line[l].device /\ Supported(r.read)
  BY <1>3, <1>6
<1> HIDE DEF r
<1>9. \A t \in Orders : resolved'[t] = IF t = s THEN {r} ELSE resolved[t]
  BY <1>1 DEF BooksInv, BooksTypes
<1>10. BooksTypes'
  BY <1>1, <1>7 DEF BooksInv, BooksTypes
<1>11. OneEach'
  <2>1. ASSUME NEW t \in Orders
        PROVE  /\ AtMostOne(resolved'[t]) /\ AtMostOne(invoice[t])
               /\ resolved'[t] # {} => invoice[t] = {}
    <3>1. CASE t = s
      <4>1. resolved'[t] = {r} /\ invoice[t] = {}
        BY <1>1, <1>9, <3>1
      <4> QED BY <4>1, Zenon DEF AtMostOne
    <3>2. CASE t # s
      BY <1>9, <3>2 DEF BooksInv, OneEach
    <3> QED BY <3>1, <3>2
  <2> QED BY <1>1, <2>1 DEF OneEach
<1>13. ResolvedSupported'
  BY <1>8, <1>9 DEF BooksInv, ResolvedSupported
<1>12. InvoiceSupported' /\ NotesProrated'
  BY <1>1 DEF BooksInv, InvoiceSupported, NotesProrated, NoteProrated
<1> QED BY <1>1, <1>10, <1>11, <1>12, <1>13, EntriesStay DEF BooksInv

\* What an invoice comes to.
LEMMA TotalsOfInvoice ==
    ASSUME NEW inv \in Invoice
    PROVE  /\ TotalOf(inv) \in Nat /\ TaxOf(inv) \in Nat
           /\ (\A l \in Goods : inv.lines[l].tax <= inv.lines[l].total) /\ TotalOf(inv) = 0
                => TaxOf(inv) = 0
<1> DEFINE total == [l \in Goods |-> inv.lines[l].total]
           tax == [l \in Goods |-> inv.lines[l].tax]
<1>1. IsFiniteSet(Goods)
  BY BooksAssumption
<1>2. \A l \in Goods : total[l] \in Nat /\ tax[l] \in Nat
  BY DEF Invoice, InvoiceLine
<1>3. \A l \in Goods : total[l] = inv.lines[l].total /\ tax[l] = inv.lines[l].tax
  OBVIOUS
<1>4. TotalOf(inv) = SumOf(total, Goods) /\ TaxOf(inv) = SumOf(tax, Goods)
  BY DEF TotalOf, TaxOf
<1> HIDE DEF total, tax
<1>5. SumOf(total, Goods) \in Nat /\ SumOf(tax, Goods) \in Nat
  BY <1>1, <1>2, SumType
<1>6. ASSUME \A l \in Goods : tax[l] <= total[l], SumOf(total, Goods) = 0
      PROVE  SumOf(tax, Goods) = 0
  <2>1. \A l \in Goods : total[l] = 0
    BY <1>1, <1>2, <1>6, SumZero
  <2>2. \A l \in Goods : tax[l] = 0
    BY <1>2, <1>6, <2>1
  <2> QED BY <1>1, <1>2, <2>2, SumZero
<1> QED BY <1>3, <1>4, <1>5, <1>6

\* No entry and no note is about an order without an invoice.
LEMMA NothingBefore ==
    ASSUME BooksInv, NEW s \in Orders, invoice[s] = {}
    PROVE  /\ RefundsOf(s) = {}
           /\ \A n \in DOMAIN notes : notes[n].sale # s
<1>1. ASSUME NEW e \in RefundsOf(s) PROVE FALSE
  <2>1. EntryTrue(e) /\ e.source[1] = s
    BY DEF BooksInv, EntriesTrue, RefundsOf
  <2>2. PICK t \in Orders : invoice[t] # {} /\ \E n \in Nat : e = [source |-> <<t, n>>, lines |-> e.lines]
    BY <2>1 DEF EntryTrue
  <2>3. t = s
    BY <2>1, <2>2
  <2> QED BY <2>2, <2>3
<1> QED BY <1>1 DEF BooksInv, NotesProrated, NoteProrated

LEMMA IssueInvoiceKeeps ==
    ASSUME BooksInv, NEW s \in Orders, IssueInvoice(s)
    PROVE  BooksInv'
<1>1. PICK r \in resolved[s] :
        invoice' = [invoice EXCEPT ![s] =
           {[kind |-> r.kind, by |-> r.by, read |-> r.read,
             lines |-> [l \in Goods |->
                [category |-> r.category[l], rate |-> RateOf(r.category[l], RateBp),
                 total |-> Charged(l, r.category[l]).gross,
                 tax |-> Charged(l, r.category[l]).tax]]]}]
  BY DEF IssueInvoice
<1>2. /\ UNCHANGED <<declared, notes, gateway, refunded, posting, journal>>
      /\ resolved' = [resolved EXCEPT ![s] = {}]
  BY DEF IssueInvoice
<1>3. /\ r \in Resolution /\ invoice[s] = {}
      /\ (r.kind = "standard") = (r.by = {})
      /\ \A l \in Goods : r.category[l] = "AE" => Line[l].device /\ Supported(r.read)
  BY DEF BooksInv, BooksTypes, OneEach, ResolvedSupported
<1> DEFINE line(l) == [category |-> r.category[l], rate |-> RateOf(r.category[l], RateBp),
                       total |-> Charged(l, r.category[l]).gross,
                       tax |-> Charged(l, r.category[l]).tax]
           inv == [kind |-> r.kind, by |-> r.by, read |-> r.read,
                   lines |-> [l \in Goods |-> line(l)]]
<1>4. ASSUME NEW l \in Goods
      PROVE  /\ line(l) \in InvoiceLine
             /\ line(l).tax <= line(l).total
             /\ line(l).category = "AE" => line(l).tax = 0
             /\ line(l).category = r.category[l]
  <2>1. r.category[l] \in {"S", "Z", "E", "AE"}
    BY <1>3 DEF Resolution
  <2>2. Line[l].price * Line[l].qty \in Nat
    <3>1. Line[l].price \in Nat /\ Line[l].qty \in Nat
      BY BooksAssumption
    <3> QED BY <3>1
  <2>3. RateOf(r.category[l], RateBp) \in 0 .. RateBp
    <3>1. 0 \in 0 .. RateBp /\ RateBp \in 0 .. RateBp
      BY BooksAssumption
    <3> QED BY <3>1 DEF RateOf
  <2> DEFINE a == Line[l].price * Line[l].qty
             c == r.category[l]
  <2>4. a \in Nat /\ Charged(l, c) = LineTotals(a, RateBp, c)
    BY <2>2 DEF Charged
  <2> HIDE DEF a, c
  <2>5. /\ Charged(l, c).gross \in Nat /\ Charged(l, c).tax \in Nat
        /\ Charged(l, c).tax <= Charged(l, c).gross
        /\ c = "AE" => Charged(l, c).tax = 0
    BY <2>4, LineSound
  <2> QED BY <2>1, <2>3, <2>5 DEF InvoiceLine, c
<1>5. inv \in Invoice
  <2>1. [l \in Goods |-> line(l)] \in [Goods -> InvoiceLine]
    BY <1>4
  <2> HIDE DEF line
  <2> QED BY <1>3, <2>1 DEF Resolution, Invoice
<1>6. /\ (inv.kind = "standard") = (inv.by = {})
      /\ \A l \in Goods :
           /\ inv.lines[l].tax <= inv.lines[l].total
           /\ inv.lines[l].category = "AE" =>
                Line[l].device /\ inv.lines[l].tax = 0 /\ Supported(inv.read)
  <2>1. \A l \in Goods : inv.lines[l] = line(l)
    OBVIOUS
  <2>2. inv.kind = r.kind /\ inv.by = r.by /\ inv.read = r.read
    OBVIOUS
  <2> HIDE DEF line, inv
  <2> QED BY <1>3, <1>4, <2>1, <2>2
<1>7. invoice' = [invoice EXCEPT ![s] = {inv}]
  BY <1>1
<1> HIDE DEF inv, line
<1>8. \A t \in Orders : /\ invoice'[t] = IF t = s THEN {inv} ELSE invoice[t]
                        /\ resolved'[t] = IF t = s THEN {} ELSE resolved[t]
  BY <1>2, <1>7 DEF BooksInv, BooksTypes
<1>9. BooksTypes'
  BY <1>2, <1>5, <1>7 DEF BooksInv, BooksTypes
<1>10. OneEach' /\ ResolvedSupported'
  <2>1. ASSUME NEW t \in Orders
        PROVE  /\ AtMostOne(resolved'[t]) /\ AtMostOne(invoice'[t])
               /\ resolved'[t] # {} => invoice'[t] = {}
    <3>1. CASE t = s
      <4>1. resolved'[t] = {} /\ invoice'[t] = {inv}
        BY <1>8, <3>1
      <4> QED BY <4>1, Zenon DEF AtMostOne
    <3>2. CASE t # s
      BY <1>8, <3>2 DEF BooksInv, OneEach
    <3> QED BY <3>1, <3>2
  <2>2. ResolvedSupported'
    BY <1>8 DEF BooksInv, ResolvedSupported
  <2> QED BY <2>1, <2>2 DEF OneEach
<1>11. InvoiceSupported'
  BY <1>6, <1>8 DEF BooksInv, InvoiceSupported
<1>12. \A n \in DOMAIN notes : notes[n].sale # s /\ notes[n].sale \in Orders
  <2>1. \A n \in DOMAIN notes : notes[n] \in CreditNoteDocument
    BY DEF BooksInv, BooksTypes
  <2> QED BY <1>3, <2>1, NothingBefore DEF CreditNoteDocument
<1>13. NotesProrated'
  BY <1>2, <1>8, <1>12 DEF BooksInv, NotesProrated, NoteProrated
<1>14. EntriesTrue'
  <2> SUFFICES ASSUME NEW e \in posting \cup journal PROVE EntryTrue(e)'
    BY <1>2 DEF EntriesTrue
  <2>1. EntryTrue(e)
    BY DEF BooksInv, EntriesTrue
  <2> QED BY <1>3, <1>8, <2>1 DEF EntryTrue
<1>15. OnePerSource' /\ AccountsAgree'
  <2>1. \A a : Balance(a)' = Balance(a)
    BY <1>2 DEF Balance
  <2> QED BY <1>2, <2>1 DEF BooksInv, OnePerSource, AccountsAgree
<1>16. RefundsInProportion'
  <2> SUFFICES ASSUME NEW t \in Orders, NEW i \in invoice'[t]
               PROVE  LET limit == Cardinality(RefundsOf(t)) * TotalOf(i)
                      IN -limit <= DriftOf(i, RefundsOf(t)) /\ DriftOf(i, RefundsOf(t)) <= limit
    <3>1. \A t_1 : RefundsOf(t_1)' = RefundsOf(t_1)
      BY <1>2 DEF RefundsOf
    <3> QED BY <3>1 DEF RefundsInProportion
  <2>1. CASE t = s
    <3>1. RefundsOf(t) = {} /\ Cardinality({}) = 0
      BY <1>3, <2>1, NothingBefore, FS_EmptySet
    <3>2. i \in Invoice
      BY <1>5, <1>8, <2>1
    <3>3. TotalOf(i) \in Nat /\ TaxOf(i) \in Nat
      BY <3>2, TotalsOfInvoice
    <3>4. BalanceOf({}, "2200") = 0 /\ BalanceOf({}, "1100") = 0
      BY NetEmpty DEF BalanceOf
    <3> QED BY <3>1, <3>3, <3>4 DEF DriftOf
  <2>2. CASE t # s
    BY <1>8, <2>2 DEF BooksInv, RefundsInProportion
  <2> QED BY <2>1, <2>2
<1> QED BY <1>9, <1>10, <1>11, <1>13, <1>14, <1>15, <1>16 DEF BooksInv

-----------------------------------------------------------------------------
(* The books: credit notes                                                 *)

\* The shares of two amounts are in the order of the amounts.
SharesInOrder(a, c, qty, n) ==
    /\ Prorated(a, qty, n) \in Nat
    /\ Prorated(c, qty, n) \in Nat
    /\ Prorated(c, qty, n) <= Prorated(a, qty, n)
    /\ c = 0 => Prorated(c, qty, n) = 0

\* So they are whichever of them fell short of a half.
LEMMA ProratedSound ==
    ASSUME NEW a \in Nat, NEW c \in Nat, c <= a, NEW qty \in Nat, NEW n \in Nat \ {0}
    PROVE  SharesInOrder(a, c, qty, n)
<1>1. /\ a * qty \in Nat /\ c * qty \in Nat /\ c * qty <= a * qty
      /\ c = 0 => c * qty = 0
      /\ c * qty = a * qty => c = a \/ qty = 0
  BY ProductInOrder
<1>2. PICK p \in Nat, q \in Nat : /\ p = a * qty /\ q = c * qty /\ q <= p
                                  /\ c = 0 => q = 0
                                  /\ q = p => c = a \/ qty = 0
  BY <1>1
<1>3. /\ <<a, qty, n>> \in ShortOfHalf => 2 * (n * Rounded(p, n)) = 2 * p + n
      /\ <<c, qty, n>> \in ShortOfHalf => 2 * (n * Rounded(q, n)) = 2 * q + n
  <2>1. \A t \in ShortOfHalf : 2 * (t[3] * Rounded(t[1] * t[2], t[3])) = 2 * (t[1] * t[2]) + t[3]
    BY BooksAssumption DEF Rounded
  <2>2. <<a, qty, n>> \in ShortOfHalf => 2 * (n * Rounded(a * qty, n)) = 2 * (a * qty) + n
    BY <2>1
  <2>3. <<c, qty, n>> \in ShortOfHalf => 2 * (n * Rounded(c * qty, n)) = 2 * (c * qty) + n
    BY <2>1
  <2> QED BY <1>2, <2>2, <2>3
<1> DEFINE r == Rounded(p, n)
           t == Rounded(q, n)
<1>4. /\ r \in Nat /\ t \in Nat /\ t <= r
      /\ 2 * q < 2 * (n * t) + n /\ 2 * (n * t) <= 2 * q + n
      /\ q = 0 => t = 0
  <2>1. /\ r \in Nat /\ t \in Nat /\ t <= r
        /\ 2 * q < 2 * (n * t) + n /\ 2 * (n * t) <= 2 * q + n
    BY <1>2, RoundedSound
  <2>2. q = 0 => q <= n * 0
    OBVIOUS
  <2>3. q = 0 => t <= 0
    BY <1>2, <2>2, RoundedSound
  <2> QED BY <2>1, <2>3
<1>5. /\ Prorated(a, qty, n) = IF <<a, qty, n>> \in ShortOfHalf THEN r - 1 ELSE r
      /\ Prorated(c, qty, n) = IF <<c, qty, n>> \in ShortOfHalf THEN t - 1 ELSE t
  BY <1>2 DEF Prorated
<1> HIDE DEF r, t
<1>6. /\ <<a, qty, n>> \in ShortOfHalf => r >= 1 /\ p > 0 /\ 2 * (n * r) = 2 * p + n
      /\ <<c, qty, n>> \in ShortOfHalf => t >= 1 /\ q > 0
  <2>1. ASSUME NEW x \in Nat, NEW y \in Nat, 2 * (n * x) = 2 * y + n, y = 0 => x = 0
        PROVE  x >= 1 /\ y > 0
    <3>1. CASE x = 0
      <4>1. n * x = 0
        BY <3>1
      <4> QED BY <2>1, <4>1
    <3>2. CASE x # 0
      BY <2>1, <3>2
    <3> QED BY <3>1, <3>2
  <2>2. p = 0 => r = 0
    <3>1. p = 0 => p <= n * 0
      OBVIOUS
    <3> QED BY <1>4, <3>1, RoundedSound DEF r
  <2> QED BY <1>3, <1>4, <2>1, <2>2 DEF r, t
<1>7. Prorated(c, qty, n) <= Prorated(a, qty, n)
  <2>1. CASE <<a, qty, n>> \in ShortOfHalf /\ <<c, qty, n>> \notin ShortOfHalf
    <3>1. q < p
      <4>1. qty # 0
        BY <1>2, <1>6, <2>1
      <4>2. c # a
        BY <2>1
      <4> QED BY <1>2, <4>1, <4>2
    <3>2. t < r
      <4> SUFFICES ASSUME r <= t PROVE FALSE
        BY <1>4
      <4>1. r * n <= t * n
        BY <1>4, ProductInOrder
      <4> DEFINE x == n * r
                 y == n * t
      <4>2. x <= y /\ 2 * x = 2 * p + n /\ 2 * y <= 2 * q + n /\ x \in Nat /\ y \in Nat
        BY <1>4, <1>6, <2>1, <4>1
      <4> HIDE DEF x, y
      <4> QED BY <3>1, <4>2
    <3> QED BY <1>4, <1>5, <2>1, <3>2
  <2>2. CASE <<a, qty, n>> \notin ShortOfHalf \/ <<c, qty, n>> \in ShortOfHalf
    BY <1>4, <1>5, <2>2
  <2> QED BY <2>1, <2>2
<1>8. c = 0 => Prorated(c, qty, n) = 0
  BY <1>2, <1>4, <1>5, <1>6
<1> QED BY <1>4, <1>5, <1>6, <1>7, <1>8 DEF SharesInOrder

\* A line of a note is a part of its invoice line.
LEMMA LineProrated ==
    ASSUME NEW inv \in Invoice, NEW ask \in CreditNoteAsk,
           inv.lines[ask.line].tax <= inv.lines[ask.line].total
    PROVE  LET credited == CreditLine(inv, ask)
               line == inv.lines[ask.line]
           IN /\ credited \in CreditNoteLine
              /\ credited.line = ask.line
              /\ credited.category = line.category /\ credited.rate = line.rate
              /\ credited.tax <= credited.total
              /\ line.tax = 0 => credited.tax = 0
<1> DEFINE line == inv.lines[ask.line]
           n == Line[ask.line].qty
           total == Prorated(line.total, ask.qty, n)
           tax == Prorated(line.tax, ask.qty, n)
<1>1. /\ ask.line \in Goods /\ ask.qty \in Nat
      /\ line \in InvoiceLine
  BY DEF Invoice, CreditNoteAsk
<1>2. /\ line.total \in Nat /\ line.tax \in Nat /\ line.tax <= line.total
      /\ line.category \in {"S", "Z", "E", "AE"} /\ line.rate \in 0 .. RateBp
  BY <1>1 DEF InvoiceLine
<1>3. n \in Nat \ {0}
  BY <1>1, BooksAssumption
<1>4. PICK a \in Nat, c \in Nat, qty \in Nat, of \in Nat \ {0} :
        a = line.total /\ c = line.tax /\ qty = ask.qty /\ of = n /\ c <= a
  BY <1>1, <1>2, <1>3
<1>5. /\ Prorated(a, qty, of) \in Nat /\ Prorated(c, qty, of) \in Nat
      /\ Prorated(c, qty, of) <= Prorated(a, qty, of)
      /\ c = 0 => Prorated(c, qty, of) = 0
  <2>1. SharesInOrder(a, c, qty, of)
    BY ONLY <1>4, ProratedSound, Zenon
  <2> QED BY <2>1 DEF SharesInOrder
<1>6. total = Prorated(a, qty, of) /\ tax = Prorated(c, qty, of)
  BY <1>4
<1>7. total \in Nat /\ tax \in Nat /\ tax <= total /\ (line.tax = 0 => tax = 0)
  BY ONLY <1>4, <1>5, <1>6
<1> HIDE DEF n, total, tax
<1>8. CreditLine(inv, ask) = [line |-> ask.line, total |-> total, tax |-> tax,
                              category |-> line.category, rate |-> line.rate]
  BY DEF CreditLine, total, tax, n
<1> HIDE DEF line
<1>9. CreditLine(inv, ask) \in CreditNoteLine
  BY <1>1, <1>2, <1>7, <1>8 DEF CreditNoteLine, TaxCategory
<1> QED BY <1>7, <1>8, <1>9 DEF line

LEMMA IssueCreditNoteKeeps ==
    ASSUME BooksInv, NEW s \in Orders, NEW asked \in Requests, IssueCreditNote(s, asked)
    PROVE  BooksInv'
<1>1. PICK inv \in invoice[s] :
        notes' = Append(notes, [sale |-> s,
                   lines |-> [i \in DOMAIN asked |-> CreditLine(inv, asked[i])]])
  BY DEF IssueCreditNote
<1>2. UNCHANGED <<declared, resolved, invoice, gateway, refunded, posting, journal>>
  BY DEF IssueCreditNote
<1> DEFINE lines == [i \in DOMAIN asked |-> CreditLine(inv, asked[i])]
           note == [sale |-> s, lines |-> lines]
<1>3. /\ inv \in Invoice
      /\ \A l \in Goods : inv.lines[l].tax <= inv.lines[l].total
  BY DEF BooksInv, BooksTypes, InvoiceSupported
<1>4. asked \in Seq(CreditNoteAsk)
  BY BooksAssumption
<1>5. \A i \in DOMAIN asked :
        LET credited == lines[i]
            line == inv.lines[credited.line]
        IN /\ credited \in CreditNoteLine
           /\ credited.category = line.category /\ credited.rate = line.rate
           /\ credited.tax <= credited.total
           /\ line.tax = 0 => credited.tax = 0
  <2> TAKE i \in DOMAIN asked
  <2>1. asked[i] \in CreditNoteAsk
    BY <1>4
  <2>2. inv.lines[asked[i].line].tax <= inv.lines[asked[i].line].total
    BY <1>3, <2>1 DEF CreditNoteAsk
  <2>3. lines[i] = CreditLine(inv, asked[i])
    OBVIOUS
  <2> HIDE DEF lines
  <2> QED BY <1>3, <2>1, <2>2, <2>3, LineProrated
<1>6. lines \in Seq(CreditNoteLine)
  BY <1>4, <1>5
<1>7. note \in CreditNoteDocument
  BY <1>6 DEF CreditNoteDocument
<1>8. DOMAIN lines = DOMAIN asked
  OBVIOUS
<1>9. note.sale = s /\ note.lines = lines
  OBVIOUS
<1>10. notes' = Append(notes, note) /\ notes \in Seq(CreditNoteDocument)
  BY <1>1 DEF BooksInv, BooksTypes
<1> HIDE DEF lines, note
<1>11. BooksTypes'
  BY <1>2, <1>7, <1>10 DEF BooksInv, BooksTypes
<1>12. \A n \in DOMAIN notes' : \/ n \in DOMAIN notes /\ notes'[n] = notes[n]
                                \/ notes'[n] = note
  <2>1. \A n \in 1 .. Len(notes) + 1 : \/ n \in 1 .. Len(notes) /\ notes'[n] = notes[n]
                                      \/ notes'[n] = note
    BY <1>7, <1>10
  <2>2. DOMAIN notes' = 1 .. Len(notes) + 1 /\ DOMAIN notes = 1 .. Len(notes)
    BY <1>7, <1>10
  <2> QED BY <2>1, <2>2
<1>13. \A i \in invoice[s] : i = inv
  BY DEF BooksInv, OneEach, AtMostOne
<1>14. NotesProrated'
  <2>1. \A n \in DOMAIN notes : NoteProrated(notes[n])
    BY DEF BooksInv, NotesProrated
  <2>2. NoteProrated(note)
    BY <1>5, <1>8, <1>9, <1>13 DEF NoteProrated
  <2>3. \A n \in DOMAIN notes' : NoteProrated(notes'[n])
    BY <1>12, <2>1, <2>2
  <2> QED BY <1>2, <2>3 DEF NotesProrated, NoteProrated
<1>15. OneEach' /\ ResolvedSupported' /\ InvoiceSupported'
  BY <1>2 DEF BooksInv, OneEach, ResolvedSupported, InvoiceSupported
<1> QED BY <1>2, <1>11, <1>14, <1>15, EntriesStay DEF BooksInv

-----------------------------------------------------------------------------
(* The books: the journal                                                  *)

\* The sum over the accounts, account by account.
LEMMA OverAccounts ==
    ASSUME NEW f \in [Accounts -> Int]
    PROVE  NetOf(f, Accounts) = f["1100"] + f["1200"] + f["1300"] + f["2200"]
                                  + f["4000"] + f["4900"] + f["5000"]
<1> DEFINE A1 == {} \cup {"1100"}
           A2 == A1 \cup {"1200"}
           A3 == A2 \cup {"1300"}
           A4 == A3 \cup {"2200"}
           A5 == A4 \cup {"4000"}
           A6 == A5 \cup {"4900"}
           A7 == A6 \cup {"5000"}
<1>1. \A a \in Accounts : f[a] \in Int
  OBVIOUS
<1>2. A7 = Accounts
  BY DEF Accounts
<1>3. /\ "1100" \notin {} /\ "1200" \notin A1 /\ "1300" \notin A2 /\ "2200" \notin A3
      /\ "4000" \notin A4 /\ "4900" \notin A5 /\ "5000" \notin A6
  OBVIOUS
<1>4. A6 \subseteq A7 /\ A5 \subseteq A6 /\ A4 \subseteq A5 /\ A3 \subseteq A4 /\ A2 \subseteq A3
      /\ A1 \subseteq A2 /\ {} \subseteq A1
  OBVIOUS
<1>5. /\ {"1100", "1200", "1300", "2200", "4000", "4900", "5000"} \subseteq Accounts
  BY DEF Accounts
<1>6. /\ A1 = {} \cup {"1100"} /\ A2 = A1 \cup {"1200"} /\ A3 = A2 \cup {"1300"}
      /\ A4 = A3 \cup {"2200"} /\ A5 = A4 \cup {"4000"} /\ A6 = A5 \cup {"4900"}
      /\ A7 = A6 \cup {"5000"}
  OBVIOUS
<1> HIDE DEF A1, A2, A3, A4, A5, A6, A7
<1>7. IsFiniteSet({}) /\ NetOf(f, {}) = 0
  BY FS_EmptySet, NetEmpty
<1>8. IsFiniteSet(A1) /\ NetOf(f, A1) = NetOf(f, {}) + f["1100"]
  BY <1>1, <1>3, <1>5, <1>6, <1>7, FS_AddElement, NetAdd
<1>9. IsFiniteSet(A2) /\ NetOf(f, A2) = NetOf(f, A1) + f["1200"]
  BY <1>1, <1>2, <1>3, <1>4, <1>5, <1>6, <1>8, FS_AddElement, NetAdd
<1>10. IsFiniteSet(A3) /\ NetOf(f, A3) = NetOf(f, A2) + f["1300"]
  BY <1>1, <1>2, <1>3, <1>4, <1>5, <1>6, <1>9, FS_AddElement, NetAdd
<1>11. IsFiniteSet(A4) /\ NetOf(f, A4) = NetOf(f, A3) + f["2200"]
  BY <1>1, <1>2, <1>3, <1>4, <1>5, <1>6, <1>10, FS_AddElement, NetAdd
<1>12. IsFiniteSet(A5) /\ NetOf(f, A5) = NetOf(f, A4) + f["4000"]
  BY <1>1, <1>2, <1>3, <1>4, <1>5, <1>6, <1>11, FS_AddElement, NetAdd
<1>13. IsFiniteSet(A6) /\ NetOf(f, A6) = NetOf(f, A5) + f["4900"]
  BY <1>1, <1>2, <1>3, <1>4, <1>5, <1>6, <1>12, FS_AddElement, NetAdd
<1>14. IsFiniteSet(A7) /\ NetOf(f, A7) = NetOf(f, A6) + f["5000"]
  BY <1>1, <1>2, <1>3, <1>4, <1>5, <1>6, <1>13, FS_AddElement, NetAdd
<1>15. /\ f["1100"] \in Int /\ f["1200"] \in Int /\ f["1300"] \in Int /\ f["2200"] \in Int
       /\ f["4000"] \in Int /\ f["4900"] \in Int /\ f["5000"] \in Int
  BY <1>1, <1>5
<1> QED BY <1>2, <1>7, <1>8, <1>9, <1>10, <1>11, <1>12, <1>13, <1>14, <1>15

\* One more entry adds its amount to the balance of an account.
LEMMA BalanceAdds ==
    ASSUME NEW entries, IsFiniteSet(entries), NEW e, e \notin entries, NEW a,
           \A x \in entries \cup {e} : x.lines[a] \in Int
    PROVE  /\ BalanceOf(entries, a) \in Int
           /\ BalanceOf(entries \cup {e}, a) = BalanceOf(entries, a) + e.lines[a]
<1> DEFINE more == entries \cup {e}
           f == [x \in entries |-> x.lines[a]]
           g == [x \in more |-> x.lines[a]]
<1>1. \A y \in entries : f[y] \in Int /\ g[y] = f[y]
  OBVIOUS
<1>2. g[e] = e.lines[a] /\ g[e] \in Int
  OBVIOUS
<1>3. BalanceOf(entries, a) = NetOf(f, entries) /\ BalanceOf(entries \cup {e}, a) = NetOf(g, entries \cup {e})
  BY DEF BalanceOf
<1> HIDE DEF f, g, more
<1>4. NetOf(f, entries) \in Int
  BY <1>1, NetType
<1>5. NetOf(g, entries \cup {e}) = NetOf(f, entries) + g[e]
  <2>1. g[e] \in Int
    BY <1>2
  <2> QED BY ONLY IsFiniteSet(entries), e \notin entries, <1>1, <2>1, NetAdd, Zenon
<1> QED BY ONLY <1>2, <1>3, <1>4, <1>5, Zenon

\* postSale computes a true entry.
LEMMA SaleEntryTrue ==
    ASSUME BooksInv, NEW s \in Orders, NEW inv \in invoice[s]
    PROVE  EntryTrue([source |-> <<s, 0>>, lines |-> SaleLines(s, inv)])
<1> DEFINE f == SaleLines(s, inv)
           total == TotalOf(inv)
           tax == TaxOf(inv)
<1>1. total \in Nat /\ tax \in Nat
  BY TotalsOfInvoice DEF BooksInv, BooksTypes
<1>2. CostOf \in Nat
  <2> DEFINE cost == [l \in Goods |-> Line[l].cost * Line[l].qty]
  <2>1. \A l \in Goods : cost[l] \in Nat
    <3> TAKE l \in Goods
    <3>1. Line[l].cost \in Nat /\ Line[l].qty \in Nat
      BY BooksAssumption
    <3> QED BY <3>1
  <2>2. IsFiniteSet(Goods)
    BY BooksAssumption
  <2>3. CostOf = SumOf(cost, Goods)
    BY DEF CostOf
  <2> HIDE DEF cost
  <2> QED BY <2>1, <2>2, <2>3, SumType
<1>3. f = [a \in Accounts |->
        CASE a = "1200" -> IF gateway[s] = "pending" THEN total ELSE 0
          [] a = "1100" -> IF gateway[s] = "pending" THEN 0 ELSE total
          [] a = "4000" -> -(total - tax)
          [] a = "2200" -> -tax
          [] a = "5000" -> CostOf
          [] a = "1300" -> -CostOf
          [] a = "4900" -> 0]
  BY DEF SaleLines
<1> HIDE DEF f, total, tax
<1>4. /\ f["1200"] = (IF gateway[s] = "pending" THEN total ELSE 0)
      /\ f["1100"] = (IF gateway[s] = "pending" THEN 0 ELSE total)
      /\ f["4000"] = -(total - tax) /\ f["2200"] = -tax
      /\ f["5000"] = CostOf /\ f["1300"] = -CostOf /\ f["4900"] = 0
  BY <1>3 DEF Accounts
<1>5. f \in [Accounts -> Int]
  <2>1. \A a \in Accounts : f[a] \in Int
    BY <1>1, <1>2, <1>4 DEF Accounts
  <2>2. f = [a \in Accounts |-> f[a]]
    BY <1>3
  <2> QED BY <2>1, <2>2
<1>6. NetOf(f, Accounts) = 0 /\ f["5000"] + f["1300"] = 0
  <2>1. f["1100"] + f["1200"] = total /\ f["1100"] \in Int /\ f["1200"] \in Int
    BY <1>1, <1>4
  <2>2. PICK cost \in Nat : cost = CostOf
    BY <1>2
  <2>3. NetOf(f, Accounts) = f["1100"] + f["1200"] + f["1300"] + f["2200"]
                               + f["4000"] + f["4900"] + f["5000"]
    BY <1>5, OverAccounts
  <2>4. /\ f["4000"] = tax - total /\ f["2200"] = -tax /\ f["4900"] = 0
        /\ f["5000"] = cost /\ f["1300"] = -cost
    BY <1>1, <1>4, <2>2
  <2> QED BY ONLY <1>1, <2>1, <2>2, <2>3, <2>4
<1>7. 0 \in Nat
  OBVIOUS
<1> DEFINE e == [source |-> <<s, 0>>, lines |-> f]
<1>8. e.lines = f /\ e = [source |-> <<s, 0>>, lines |-> e.lines]
  OBVIOUS
<1> HIDE DEF e
<1>9. EntryTrue(e)
  BY <1>5, <1>6, <1>7, <1>8 DEF EntryTrue
<1> QED BY <1>9 DEF e, f

\* postRefund computes a true entry: its VAT is rounded once.
LEMMA RefundEntryTrue ==
    ASSUME BooksInv, NEW s \in Orders, NEW inv \in invoice[s], NEW n \in Nat, n > 0,
           NEW amount \in Nat
    PROVE  EntryTrue([source |-> <<s, n>>, lines |-> RefundLines(inv, amount)])
<1> DEFINE f == RefundLines(inv, amount)
           total == TotalOf(inv)
           tax == TaxOf(inv)
           given == RefundTax(inv, amount)
<1>1. total \in Nat /\ tax \in Nat /\ (total = 0 => tax = 0)
  BY TotalsOfInvoice DEF BooksInv, BooksTypes, InvoiceSupported
<1>2. /\ given \in Nat
      /\ -total <= 2 * (given * total + (-amount) * tax)
      /\ 2 * (given * total + (-amount) * tax) <= total
  <2>1. CASE total = 0
    <3>1. given = 0 /\ tax = 0 /\ total = 0
      BY <1>1, <2>1 DEF RefundTax
    <3>2. 0 * 0 = 0 /\ (-amount) * 0 = 0
      OBVIOUS
    <3> HIDE DEF given, total, tax
    <3> QED BY <3>1, <3>2
  <2>2. CASE total # 0
    <3>1. given = Rounded(amount * tax, total)
      BY <2>2 DEF RefundTax
    <3>2. PICK x \in Nat : x = amount * tax
      BY <1>1
    <3> HIDE DEF given, total, tax
    <3>3. total \in Nat \ {0} /\ given = Rounded(x, total)
      BY <1>1, <2>2, <3>1, <3>2
    <3>4. /\ given \in Nat
          /\ 2 * (total * given) <= 2 * x + total
          /\ 2 * x < 2 * (total * given) + total
      BY <3>3, RoundedSound
    <3>5. given * total = total * given /\ (-amount) * tax = -x /\ total * given \in Nat
      BY <1>1, <3>2, <3>4
    <3>6. PICK y \in Nat : y = total * given
      BY <3>5
    <3>7. given * total + (-amount) * tax = y - x
      BY <3>5, <3>6
    <3> QED BY <1>1, <3>4, <3>6, <3>7
  <2> QED BY <2>1, <2>2
<1>3. f = [a \in Accounts |->
        CASE a = "4900" -> amount - given
          [] a = "2200" -> given
          [] a = "1100" -> -amount
          [] OTHER -> 0]
  BY DEF RefundLines
<1> HIDE DEF f, given
<1>4. /\ f["4900"] = amount - given /\ f["2200"] = given /\ f["1100"] = -amount
      /\ f["1200"] = 0 /\ f["1300"] = 0 /\ f["4000"] = 0 /\ f["5000"] = 0
  BY <1>3 DEF Accounts
<1>5. f \in [Accounts -> Int]
  <2>1. \A a \in Accounts : f[a] \in Int
    BY <1>2, <1>4 DEF Accounts
  <2>2. f = [a \in Accounts |-> f[a]]
    BY <1>3
  <2> QED BY <2>1, <2>2
<1>6. NetOf(f, Accounts) = 0 /\ f["5000"] + f["1300"] = 0
  BY <1>2, <1>4, <1>5, OverAccounts
<1>7. InProportion(inv, f)
  BY <1>2, <1>4 DEF InProportion
<1> DEFINE e == [source |-> <<s, n>>, lines |-> f]
<1>8. e.lines = f /\ e = [source |-> <<s, n>>, lines |-> e.lines]
  OBVIOUS
<1> HIDE DEF e
<1>9. EntryTrue(e)
  BY <1>5, <1>6, <1>7, <1>8 DEF EntryTrue
<1> QED BY <1>9 DEF e, f

LEMMA ComputeKeeps ==
    ASSUME BooksInv, NEW s \in Orders,
           ComputeSale(s) \/ \E n \in DOMAIN RefundSplit : ComputeRefund(s, n)
    PROVE  BooksInv'
<1>1. UNCHANGED <<declared, resolved, invoice, notes, gateway, refunded, journal>>
  BY DEF ComputeSale, ComputeRefund
<1>2. \E e : EntryTrue(e) /\ posting' = posting \cup {e}
  <2>1. CASE ComputeSale(s)
    <3>1. PICK inv \in invoice[s] :
            posting' = posting \cup {[source |-> <<s, 0>>, lines |-> SaleLines(s, inv)]}
      BY <2>1 DEF ComputeSale
    <3> QED BY <3>1, SaleEntryTrue
  <2>2. ASSUME NEW n \in DOMAIN RefundSplit, ComputeRefund(s, n)
        PROVE  \E e : EntryTrue(e) /\ posting' = posting \cup {e}
    <3>1. PICK inv \in invoice[s] :
            posting' = posting \cup {[source |-> <<s, n>>, lines |-> RefundLines(inv, RefundSplit[n])]}
      BY <2>2 DEF ComputeRefund
    <3>2. n \in Nat /\ n > 0 /\ RefundSplit[n] \in Nat
      BY BooksAssumption
    <3> QED BY <3>1, <3>2, RefundEntryTrue
  <2> QED BY <2>1, <2>2
<1>3. EntriesTrue'
  <2>1. \A e \in posting' \cup journal : EntryTrue(e)
    BY <1>2 DEF BooksInv, EntriesTrue
  <2> QED BY <1>1, <2>1 DEF EntriesTrue, EntryTrue
<1>4. OnePerSource' /\ AccountsAgree' /\ RefundsInProportion'
  <2>1. \A a : Balance(a)' = Balance(a)
    BY <1>1 DEF Balance
  <2>2. \A t : RefundsOf(t)' = RefundsOf(t)
    BY <1>1 DEF RefundsOf
  <2> QED BY <1>1, <2>1, <2>2 DEF BooksInv, OnePerSource, AccountsAgree, RefundsInProportion
<1>5. BooksTypes'
  BY <1>1 DEF BooksInv, BooksTypes
<1> QED BY <1>1, <1>3, <1>4, <1>5, InvoicesStay DEF BooksInv

\* Every posted entry has a whole amount on every account.
LEMMA EntriesTyped ==
    ASSUME BooksInv, NEW e \in posting \cup journal
    PROVE  e.lines \in [Accounts -> Int]
BY DEF BooksInv, EntriesTrue, EntryTrue

\* One more refund: the skew grows by no more than what one refund may be off.
LEMMA DriftAdds ==
    ASSUME NEW S, IsFiniteSet(S), NEW e, e \notin S,
           \A x \in S \cup {e} : x.lines \in [Accounts -> Int],
           NEW inv, TotalOf(inv) \in Nat, TaxOf(inv) \in Nat,
           InProportion(inv, e.lines),
           -(Cardinality(S) * TotalOf(inv)) <= DriftOf(inv, S),
           DriftOf(inv, S) <= Cardinality(S) * TotalOf(inv)
    PROVE  /\ -(Cardinality(S \cup {e}) * TotalOf(inv)) <= DriftOf(inv, S \cup {e})
           /\ DriftOf(inv, S \cup {e}) <= Cardinality(S \cup {e}) * TotalOf(inv)
<1> DEFINE total == TotalOf(inv)
           tax == TaxOf(inv)
<1>1. total \in Nat /\ tax \in Nat
  OBVIOUS
<1>2. "2200" \in Accounts /\ "1100" \in Accounts
  BY DEF Accounts
<1>3. /\ BalanceOf(S, "2200") \in Int
      /\ BalanceOf(S \cup {e}, "2200") = BalanceOf(S, "2200") + e.lines["2200"]
  <2>1. \A x \in S \cup {e} : x.lines["2200"] \in Int
    BY <1>2
  <2> QED BY <2>1, BalanceAdds
<1>4. /\ BalanceOf(S, "1100") \in Int
      /\ BalanceOf(S \cup {e}, "1100") = BalanceOf(S, "1100") + e.lines["1100"]
  <2>1. \A x \in S \cup {e} : x.lines["1100"] \in Int
    BY <1>2
  <2> QED BY <2>1, BalanceAdds
<1>5. PICK many \in Nat : many = Cardinality(S) /\ many + 1 = Cardinality(S \cup {e})
  BY FS_AddElement, FS_CardinalityType
<1>6. PICK vat \in Int, paid \in Int, v \in Int, p \in Int :
        /\ vat = BalanceOf(S, "2200") /\ paid = BalanceOf(S, "1100")
        /\ v = e.lines["2200"] /\ p = e.lines["1100"]
  BY <1>2, <1>3, <1>4
<1>7. /\ BalanceOf(S \cup {e}, "2200") = vat + v /\ BalanceOf(S \cup {e}, "1100") = paid + p
      /\ BalanceOf(S, "2200") = vat /\ BalanceOf(S, "1100") = paid
  BY <1>3, <1>4, <1>6
<1>8. /\ DriftOf(inv, S) = 2 * (vat * total + paid * tax)
      /\ DriftOf(inv, S \cup {e}) = 2 * ((vat + v) * total + (paid + p) * tax)
  BY <1>7 DEF DriftOf
<1>9. /\ -total <= 2 * (v * total + p * tax) /\ 2 * (v * total + p * tax) <= total
  BY <1>6 DEF InProportion
<1>10. /\ -(many * total) <= DriftOf(inv, S) /\ DriftOf(inv, S) <= many * total
  BY <1>5
<1> HIDE DEF total, tax
<1>a. PICK vt \in Int : vt = vat * total
  BY <1>1, <1>6
<1>b. PICK px \in Int : px = paid * tax
  BY <1>1, <1>6
<1>c. PICK wt \in Int : wt = v * total
  BY <1>1, <1>6
<1>d. PICK qx \in Int : qx = p * tax
  BY <1>1, <1>6
<1>e. PICK ct \in Int : ct = many * total
  BY <1>1, <1>5
<1>11. /\ vt \in Int /\ px \in Int /\ wt \in Int /\ qx \in Int /\ ct \in Int
       /\ vt = vat * total /\ px = paid * tax /\ wt = v * total /\ qx = p * tax /\ ct = many * total
  BY <1>a, <1>b, <1>c, <1>d, <1>e
<1>12. (vat + v) * total = vt + wt /\ (paid + p) * tax = px + qx /\ (many + 1) * total = ct + total
  BY <1>1, <1>5, <1>6, <1>11
<1>13. /\ -(ct + total) <= 2 * ((vt + wt) + (px + qx))
       /\ 2 * ((vt + wt) + (px + qx)) <= ct + total
  BY ONLY <1>1, <1>8, <1>9, <1>10, <1>11
<1>14. /\ DriftOf(inv, S \cup {e}) = 2 * ((vt + wt) + (px + qx))
       /\ Cardinality(S \cup {e}) * total = ct + total
  BY ONLY <1>5, <1>8, <1>12
<1> QED BY <1>13, <1>14 DEF total

LEMMA InsertEntryKeeps ==
    ASSUME BooksInv, NEW e \in posting, InsertEntry(e)
    PROVE  BooksInv'
<1>1. UNCHANGED <<declared, resolved, invoice, notes, gateway, refunded>> /\ posting' = posting \ {e}
  BY DEF InsertEntry
<1>2. \/ journal' = journal
      \/ journal' = journal \cup {e} /\ \A f \in journal : f.source # e.source
  BY DEF InsertEntry, AlreadyPosted
<1>3. EntryTrue(e)
  BY DEF BooksInv, EntriesTrue
<1>4. EntriesTrue'
  <2>1. \A f \in posting' \cup journal' : EntryTrue(f)
    BY <1>1, <1>2 DEF BooksInv, EntriesTrue
  <2> QED BY <1>1, <2>1 DEF EntriesTrue, EntryTrue
<1>5. BooksTypes'
  <2>1. IsFiniteSet(journal')
    BY <1>2, FS_AddElement DEF BooksInv, BooksTypes
  <2> QED BY <1>1, <2>1 DEF BooksInv, BooksTypes
<1>6. OnePerSource'
  BY <1>2 DEF BooksInv, OnePerSource
<1>7. AccountsAgree' /\ RefundsInProportion'
  <2>1. CASE journal' = journal
    <3>1. \A a : Balance(a)' = Balance(a)
      BY <2>1 DEF Balance
    <3>2. \A t : RefundsOf(t)' = RefundsOf(t)
      BY <2>1 DEF RefundsOf
    <3> QED BY <1>1, <3>1, <3>2 DEF BooksInv, AccountsAgree, RefundsInProportion
  <2>2. CASE journal' = journal \cup {e} /\ \A f \in journal : f.source # e.source
    <3>1. IsFiniteSet(journal) /\ e \notin journal
      BY <2>2 DEF BooksInv, BooksTypes
    <3>2. \A f \in journal \cup {e} : f.lines \in [Accounts -> Int]
      BY EntriesTyped
    <3>3. \A a \in Accounts : Balance(a) \in Int /\ Balance(a)' = Balance(a) + e.lines[a]
      <4> TAKE a \in Accounts
      <4>1. \A x \in journal \cup {e} : x.lines[a] \in Int
        BY <3>2
      <4>2. /\ BalanceOf(journal, a) \in Int
            /\ BalanceOf(journal \cup {e}, a) = BalanceOf(journal, a) + e.lines[a]
        BY <3>1, <4>1, BalanceAdds
      <4> QED BY <2>2, <4>2 DEF Balance
    <3>4. AccountsAgree'
      <4>1. /\ e.lines \in [Accounts -> Int] /\ NetOf(e.lines, Accounts) = 0
            /\ e.lines["5000"] + e.lines["1300"] = 0
        BY <1>3 DEF EntryTrue
      <4>2. {"1100", "1200", "1300", "2200", "4000", "4900", "5000"} \subseteq Accounts
        BY DEF Accounts
      <4>3. 0 = e.lines["1100"] + e.lines["1200"] + e.lines["1300"] + e.lines["2200"]
                 + e.lines["4000"] + e.lines["4900"] + e.lines["5000"]
        BY <4>1, OverAccounts
      <4>4. e.lines["4000"] + e.lines["4900"] + e.lines["2200"] + e.lines["1100"] + e.lines["1200"] = 0
        <5>1. \A a \in {"1100", "1200", "1300", "2200", "4000", "4900", "5000"} : e.lines[a] \in Int
          BY <4>1, <4>2
        <5> QED BY <4>1, <4>3, <5>1
      <4>5. Balance("4000") + Balance("4900") + Balance("2200") + Balance("1100") + Balance("1200") = 0
        BY DEF BooksInv, AccountsAgree
      <4>6. \A a \in {"1100", "1200", "2200", "4000", "4900"} :
              e.lines[a] \in Int /\ Balance(a) \in Int /\ Balance(a)' = Balance(a) + e.lines[a]
        BY <3>3, <4>1, <4>2
      <4> QED BY <4>4, <4>5, <4>6 DEF AccountsAgree
    <3>5. ASSUME NEW t \in Orders, NEW inv \in invoice[t]
          PROVE  /\ -(Cardinality(RefundsOf(t)') * TotalOf(inv)) <= DriftOf(inv, RefundsOf(t)')
                 /\ DriftOf(inv, RefundsOf(t)') <= Cardinality(RefundsOf(t)') * TotalOf(inv)
      <4>1. /\ -(Cardinality(RefundsOf(t)) * TotalOf(inv)) <= DriftOf(inv, RefundsOf(t))
            /\ DriftOf(inv, RefundsOf(t)) <= Cardinality(RefundsOf(t)) * TotalOf(inv)
        BY <3>5 DEF BooksInv, RefundsInProportion
      <4>2. CASE ~(e.source[1] = t /\ e.source[2] > 0)
        <5>1. RefundsOf(t)' = RefundsOf(t)
          BY <2>2, <4>2 DEF RefundsOf
        <5> QED BY <4>1, <5>1
      <4>3. CASE e.source[1] = t /\ e.source[2] > 0
        <5>1. RefundsOf(t)' = RefundsOf(t) \cup {e}
          BY <2>2, <4>3, Zenon DEF RefundsOf
        <5>2. IsFiniteSet(RefundsOf(t)) /\ e \notin RefundsOf(t)
          <6>1. RefundsOf(t) \subseteq journal
            BY DEF RefundsOf
          <6> QED BY <3>1, <6>1, FS_Subset
        <5>3. \A x \in RefundsOf(t) \cup {e} : x.lines \in [Accounts -> Int]
          BY <3>2 DEF RefundsOf
        <5>4. InProportion(inv, e.lines)
          <6>0. PICK s \in Orders : \E other \in invoice[s] : \E n \in Nat :
                  /\ e = [source |-> <<s, n>>, lines |-> e.lines]
                  /\ n > 0 => InProportion(other, e.lines)
            BY <1>3 DEF EntryTrue
          <6>1. PICK other \in invoice[s], n \in Nat :
                  /\ e = [source |-> <<s, n>>, lines |-> e.lines]
                  /\ n > 0 => InProportion(other, e.lines)
            BY <6>0
          <6>2. e.source = <<s, n>>
            BY <6>1
          <6>3. s = t /\ n > 0
            BY <4>3, <6>2
          <6>4. other = inv
            BY <3>5, <6>3 DEF BooksInv, OneEach, AtMostOne
          <6> QED BY <6>1, <6>3, <6>4
        <5>5. TotalOf(inv) \in Nat /\ TaxOf(inv) \in Nat
          BY <3>5, TotalsOfInvoice DEF BooksInv, BooksTypes
        <5> QED BY <4>1, <5>1, <5>2, <5>3, <5>4, <5>5, DriftAdds
      <4> QED BY <4>2, <4>3
    <3>6. RefundsInProportion'
      BY <1>1, <3>5 DEF RefundsInProportion, DriftOf, TotalOf, TaxOf
    <3> QED BY <3>4, <3>6
  <2> QED BY <1>2, <2>1, <2>2
<1> QED BY <1>1, <1>4, <1>5, <1>6, <1>7, InvoicesStay DEF BooksInv

LEMMA BooksStep ==
    ASSUME BooksInv, [BooksNext]_bookVars
    PROVE  BooksInv'
<1>1. CASE UNCHANGED bookVars
  <2>1. BooksTypes'
    BY <1>1 DEF bookVars, BooksInv, BooksTypes
  <2> QED BY <1>1, <2>1, EntriesStay, InvoicesStay DEF bookVars, BooksInv
<1>2. CASE BooksNext
  <2>1. ASSUME NEW s \in Orders,
               \/ \E requested \in BOOLEAN : ResolveForSale(s, requested)
               \/ IssueInvoice(s)
               \/ \E asked \in Requests : IssueCreditNote(s, asked)
        PROVE  BooksInv'
    BY <2>1, ResolveKeeps, IssueInvoiceKeeps, IssueCreditNoteKeeps
  <2> QED BY <1>2, <2>1, DeclarationsKeep, SettlementsKeep, ComputeKeeps, InsertEntryKeeps DEF BooksNext
<1> QED BY <1>1, <1>2

LEMMA BooksInvariance ==
    BooksInit /\ [][BooksNext]_bookVars => []BooksInv
<1>1. BooksInit => BooksInv
  BY BooksInitInv
<1>2. BooksInv /\ [BooksNext]_bookVars => BooksInv'
  BY BooksStep
<1> QED BY <1>1, <1>2, PTL

\* What is said of the books follows from the invariant.
LEMMA BooksTyped == BooksInv => BooksTypeOK
<1> SUFFICES ASSUME BooksInv PROVE BooksTypeOK
  OBVIOUS
<1>1. \A s \in Orders : Cardinality(invoice[s]) <= 1 /\ Cardinality(resolved[s]) <= 1
  <2>1. \A S : AtMostOne(S) => Cardinality(S) <= 1
    <3> SUFFICES ASSUME NEW S, AtMostOne(S) PROVE Cardinality(S) <= 1
      OBVIOUS
    <3>1. Cardinality({}) = 0 /\ \A x : Cardinality({x}) = 1
      BY FS_EmptySet, FS_Singleton
    <3>2. Cardinality(S) = 0 \/ Cardinality(S) = 1
      BY <3>1, Zenon DEF AtMostOne
    <3> QED BY <3>2
  <2> QED BY <2>1 DEF BooksInv, OneEach
<1>2. ASSUME NEW n \in DOMAIN notes, NEW i \in DOMAIN notes[n].lines
      PROVE  notes[n].lines[i].tax \in 0..notes[n].lines[i].total
  <2>1. notes[n] \in CreditNoteDocument
    BY DEF BooksInv, BooksTypes
  <2>2. notes[n].sale \in Orders /\ notes[n].lines \in Seq(CreditNoteLine)
    BY <2>1 DEF CreditNoteDocument
  <2>3. notes[n].lines[i] \in CreditNoteLine
    BY <2>2
  <2>4. notes[n].lines[i].tax \in Nat /\ notes[n].lines[i].total \in Nat
    BY <2>3 DEF CreditNoteLine
  <2>5. NoteProrated(notes[n])
    BY DEF BooksInv, NotesProrated
  <2>6. PICK inv : inv \in invoice[notes[n].sale]
    BY <2>5 DEF NoteProrated
  <2>7. notes[n].lines[i].tax <= notes[n].lines[i].total
    BY <2>5, <2>6 DEF NoteProrated
  <2> QED BY <2>4, <2>7
<1>3. declared \in Seq(DeclarationRecord) /\ notes \in Seq(CreditNoteDocument)
  BY DEF BooksInv, BooksTypes
<1> QED BY <1>1, <1>2, <1>3 DEF BooksTypeOK

LEMMA ChargesSupported == BooksInv => ReverseChargeSupported
<1> SUFFICES ASSUME BooksInv PROVE ReverseChargeSupported
  OBVIOUS
<1>1. ASSUME NEW s \in Orders, NEW inv \in invoice[s]
      PROVE  /\ (inv.kind = "standard") = (inv.by = {})
             /\ \A l \in Goods : inv.lines[l].category = "AE" =>
                  /\ Line[l].device /\ inv.lines[l].tax = 0
                  /\ \E d \in inv.read : d.resale /\ d.registered /\ d.outcome = "verified"
                                         /\ ~d.revoked
  BY DEF BooksInv, InvoiceSupported, Supported
<1>2. ASSUME NEW n \in DOMAIN notes, NEW inv \in invoice[notes[n].sale],
             NEW i \in DOMAIN notes[n].lines
      PROVE  LET credited == notes[n].lines[i]
                 line == inv.lines[credited.line]
             IN /\ credited.category = line.category /\ credited.rate = line.rate
                /\ line.tax = 0 => credited.tax = 0
  BY DEF BooksInv, NotesProrated, NoteProrated
<1> QED BY <1>1, <1>2 DEF ReverseChargeSupported

LEMMA BooksInBalance == BooksInv => BooksBalance
<1> SUFFICES ASSUME BooksInv PROVE BooksBalance
  OBVIOUS
<1>1. \A e, f \in journal : e.source = f.source => e = f
  BY DEF BooksInv, OnePerSource
<1>2. \A e \in journal : NetOf(e.lines, Accounts) = 0
  BY DEF BooksInv, EntriesTrue, EntryTrue
<1>3. ASSUME NEW S \in SUBSET journal, NEW a \in Accounts PROVE BalanceOf(S, a) \in Int
  <2>1. IsFiniteSet(S)
    BY FS_Subset DEF BooksInv, BooksTypes
  <2> DEFINE f == [e \in S |-> e.lines[a]]
  <2>2. \A e \in S : f[e] \in Int
    BY EntriesTyped
  <2>3. BalanceOf(S, a) = NetOf(f, S)
    BY DEF BalanceOf
  <2> HIDE DEF f
  <2> QED BY <2>1, <2>2, <2>3, NetType
<1>4. {"1100", "1200", "2200", "4000", "4900"} \subseteq Accounts
  BY DEF Accounts
<1>5. ProfitAndLoss.revenue - ProfitAndLoss.refunds + ProfitAndLoss.vat
        = Balance("1100") + Balance("1200")
  <2>1. \A a \in {"1100", "1200", "2200", "4000", "4900"} : Balance(a) \in Int
    BY <1>3, <1>4 DEF Balance
  <2>2. /\ ProfitAndLoss.revenue = -Balance("4000")
        /\ ProfitAndLoss.refunds = Balance("4900") /\ ProfitAndLoss.vat = -Balance("2200")
    BY DEF ProfitAndLoss
  <2>3. Balance("4000") + Balance("4900") + Balance("2200") + Balance("1100") + Balance("1200") = 0
    BY DEF BooksInv, AccountsAgree
  <2> QED BY <2>1, <2>2, <2>3
<1>6. ASSUME NEW s \in Orders, NEW inv \in invoice[s]
      PROVE  LET mine == {e \in journal : e.source[1] = s /\ e.source[2] > 0}
                 given == BalanceOf(mine, "2200")
                 paid == -BalanceOf(mine, "1100")
                 skew == 2 * (given * TotalOf(inv) - paid * TaxOf(inv))
                 limit == Cardinality(mine) * TotalOf(inv)
             IN -limit <= skew /\ skew <= limit
  <2> DEFINE mine == RefundsOf(s)
             limit == Cardinality(mine) * TotalOf(inv)
  <2>1. PICK given \in Int, back \in Int :
          given = BalanceOf(mine, "2200") /\ back = BalanceOf(mine, "1100")
    <3>1. mine \in SUBSET journal
      BY DEF RefundsOf
    <3> HIDE DEF mine
    <3> QED BY <1>3, <1>4, <3>1
  <2>2. PICK total \in Nat, tax \in Nat : total = TotalOf(inv) /\ tax = TaxOf(inv)
    BY TotalsOfInvoice DEF BooksInv, BooksTypes
  <2>3. DriftOf(inv, mine) = 2 * (given * total + back * tax)
    BY <2>1, <2>2 DEF DriftOf
  <2>4. -limit <= DriftOf(inv, mine) /\ DriftOf(inv, mine) <= limit
    BY DEF BooksInv, RefundsInProportion
  <2>5. given * total - (-back) * tax = given * total + back * tax
    BY <2>1, <2>2
  <2>6. 2 * (given * TotalOf(inv) - (-back) * TaxOf(inv)) = DriftOf(inv, mine)
    BY <2>2, <2>3, <2>5
  <2>7. -limit <= 2 * (BalanceOf(mine, "2200") * TotalOf(inv) - (-BalanceOf(mine, "1100")) * TaxOf(inv))
        /\ 2 * (BalanceOf(mine, "2200") * TotalOf(inv) - (-BalanceOf(mine, "1100")) * TaxOf(inv)) <= limit
    BY <2>1, <2>4, <2>6
  <2> QED BY <2>7 DEF RefundsOf
<1> QED BY <1>1, <1>2, <1>5, <1>6 DEF BooksBalance

USE PurchasingAssumption

-----------------------------------------------------------------------------
(* Purchasing: the inductive invariant                                     *)

\* A request that was alone all the way is the only one under way, fits what
\* is left of the order, and knows whether it completes it.
AloneFits ==
    ~overlap =>
        \A r \in Receivers : job[r].pc # "idle" =>
            /\ \A s \in Receivers \ {r} : job[s].pc = "idle"
            /\ poStatus \in {"placed", "partially_received"}
            /\ \A l \in Lines : booked[l] + job[r].take[l] <= Ordered[l]
            /\ job[r].pc = "read" => (job[r].done <=> Complete(r))

PoInv == PoTypeOK /\ OrderlyReceipts /\ AloneFits

\* A request that goes on carries what the stock and the order differ by.
LEMMA CarriedChange ==
    ASSUME PoTypeOK, PoTypeOK', NEW r \in Receivers, NEW l \in Lines,
           \A s \in Receivers \ {r} : job'[s] = job[s]
    PROVE  /\ InHand(l)' + Carried(l)[r] = InHand(l) + Carried(l)'[r]
           /\ InHand(l) \in Nat /\ InHand(l)' \in Nat
           /\ Carried(l)[r] \in Nat /\ Carried(l)'[r] \in Nat
<1> DEFINE f == Carried(l)
           g == Carried(l)'
<1>1. \A s \in Receivers : f[s] \in Nat /\ g[s] \in Nat
  BY DEF Carried, PoTypeOK
<1>2. \A s \in Receivers \ {r} : f[s] = g[s]
  BY DEF Carried
<1>3. InHand(l) = SumOf(f, Receivers) /\ InHand(l)' = SumOf(g, Receivers)
  BY DEF InHand
<1> HIDE DEF f, g
<1>4. SumOf(g, Receivers) + f[r] = SumOf(f, Receivers) + g[r]
  BY <1>1, <1>2, SumChange
<1>5. SumOf(f, Receivers) \in Nat /\ SumOf(g, Receivers) \in Nat
  BY <1>1, SumType
<1> QED BY <1>1, <1>3, <1>4, <1>5 DEF f, g

\* The third step of a request changes what is carried, booked, taken and lost
\* together.
LEMMA CoverKept ==
    ASSUME PoTypeOK, PoTypeOK', StockCoversOrder, NEW r \in Receivers,
           \A s \in Receivers \ {r} : job'[s] = job[s],
           crooked \subseteq crooked',
           \A l \in Lines \ crooked' :
               taken'[l] + Carried(l)[r] + booked[l] + lost[l]
                 = taken[l] + Carried(l)'[r] + booked'[l] + lost'[l]
    PROVE  StockCoversOrder'
<1> SUFFICES ASSUME NEW l \in Lines \ crooked'
             PROVE  taken'[l] = booked'[l] + InHand(l)' + lost'[l]
  BY DEF StockCoversOrder
<1>1. /\ InHand(l)' + Carried(l)[r] = InHand(l) + Carried(l)'[r]
      /\ InHand(l) \in Nat /\ InHand(l)' \in Nat
      /\ Carried(l)[r] \in Nat /\ Carried(l)'[r] \in Nat
  BY CarriedChange
<1>2. /\ taken[l] \in Nat /\ booked[l] \in Nat /\ lost[l] \in Nat
      /\ taken'[l] \in Nat /\ booked'[l] \in Nat /\ lost'[l] \in Nat
  BY DEF PoTypeOK
<1>3. taken[l] = booked[l] + InHand(l) + lost[l]
  BY DEF StockCoversOrder
<1> DEFINE a == Carried(l)[r]
           b == Carried(l)'[r]
           x == InHand(l)
           y == InHand(l)'
<1>4. taken'[l] + a + booked[l] + lost[l] = taken[l] + b + booked'[l] + lost'[l]
  OBVIOUS
<1>5. y + a = x + b /\ x \in Nat /\ y \in Nat /\ a \in Nat /\ b \in Nat
  BY <1>1
<1>6. taken[l] = booked[l] + x + lost[l]
  BY <1>3
<1> HIDE DEF a, b, x, y
<1>7. taken'[l] = booked'[l] + y + lost'[l]
  BY <1>2, <1>4, <1>5, <1>6
<1> QED BY <1>7 DEF y

LEMMA PoInitially ==
    ASSUME PoInit
    PROVE  PoInv
<1>1. PoTypeOK
  <2>1. Nothing \in [Lines -> Nat] /\ Nothing \in [Lines -> 0 .. 2]
    BY DEF Nothing
  <2> QED BY <2>1 DEF PoInit, PoTypeOK, Idle
<1>2. StockCoversOrder
  <2> SUFFICES ASSUME NEW l \in Lines \ crooked
               PROVE  taken[l] = booked[l] + InHand(l) + lost[l]
    BY DEF StockCoversOrder
  <2>1. \A r \in Receivers : Carried(l)[r] = 0
    BY DEF PoInit, Carried, Idle
  <2>2. InHand(l) = 0
    BY <2>1, SumZero DEF InHand
  <2> QED BY <2>2 DEF PoInit, Nothing
<1>3. OrderlyReceipts
  <2>1. \A l \in Lines : booked[l] = 0 /\ Ordered[l] \in Nat \ {0}
    BY DEF PoInit, Nothing
  <2>2. poStatus = "none"
    BY DEF PoInit
  <2> QED BY <1>2, <2>1, <2>2 DEF OrderlyReceipts
<1>4. AloneFits
  BY DEF PoInit, AloneFits, Idle
<1> QED BY <1>1, <1>3, <1>4 DEF PoInv

LEMMA CreatePurchaseOrderKeeps ==
    ASSUME PoInv, CreatePurchaseOrder
    PROVE  PoInv'
<1> USE DEF PoInv
<1>0. /\ poStatus = "none" /\ poStatus' = "placed"
      /\ UNCHANGED <<booked, taken, lost, job, overlap, crooked>>
  BY DEF CreatePurchaseOrder
<1>1. PoTypeOK'
  BY <1>0 DEF PoTypeOK
<1>2. StockCoversOrder'
  BY <1>0 DEF OrderlyReceipts, StockCoversOrder, InHand, Carried
<1>3. OrderlyReceipts'
  BY <1>0, <1>2 DEF OrderlyReceipts
<1>4. AloneFits'
  BY <1>0 DEF AloneFits, Complete, Plus
<1> QED BY <1>1, <1>3, <1>4

LEMMA CheckReceiptKeeps ==
    ASSUME PoInv, NEW r \in Receivers, NEW ask \in Receipts, CheckReceipt(r, ask)
    PROVE  PoInv'
<1> DEFINE take == ask.take
           intake == ask.goods
<1> USE DEF PoInv
<1>0. /\ job[r].pc = "idle" /\ poStatus \in {"placed", "partially_received"}
      /\ Fits(take)
      /\ job' = [job EXCEPT ![r] = [pc |-> "checked", take |-> take, goods |-> intake,
                                    done |-> FALSE]]
      /\ overlap' = (overlap \/ \E s \in Receivers \ {r} : job[s].pc # "idle")
      /\ UNCHANGED <<poStatus, booked, taken, lost, crooked>>
      /\ take \in [Lines -> 0 .. 2] /\ intake \in [Lines -> 0 .. 2]
  BY DEF CheckReceipt, Receipts
<1> HIDE DEF take, intake
<1>1. PoTypeOK'
  BY <1>0 DEF PoTypeOK
<1>j. /\ job'[r] = [pc |-> "checked", take |-> take, goods |-> intake, done |-> FALSE]
      /\ \A s \in Receivers \ {r} : job'[s] = job[s]
  BY <1>0 DEF PoTypeOK
<1>2. StockCoversOrder'
  <2>1. \A l \in Lines : Carried(l)[r] = 0 /\ Carried(l)'[r] = 0
    BY <1>0, <1>j DEF Carried
  <2>2. StockCoversOrder
    BY DEF OrderlyReceipts
  <2>3. crooked \subseteq crooked'
    BY <1>0
  <2>4. \A l \in Lines \ crooked' :
           taken'[l] + Carried(l)[r] + booked[l] + lost[l]
             = taken[l] + Carried(l)'[r] + booked'[l] + lost'[l]
    BY <1>0, <2>1
  <2> QED BY <1>1, <1>j, <2>2, <2>3, <2>4, CoverKept
<1>3. OrderlyReceipts'
  BY <1>0, <1>2 DEF OrderlyReceipts
<1>4. AloneFits'
  <2> SUFFICES ASSUME ~overlap', NEW q \in Receivers, job'[q].pc # "idle"
               PROVE  /\ \A s \in Receivers \ {q} : job'[s].pc = "idle"
                      /\ poStatus' \in {"placed", "partially_received"}
                      /\ \A l \in Lines : booked'[l] + job'[q].take[l] <= Ordered[l]
                      /\ job'[q].pc = "read" => (job'[q].done <=> Complete(q)')
    BY DEF AloneFits
  <2>1. ~overlap /\ \A s \in Receivers \ {r} : job[s].pc = "idle"
    BY <1>0 DEF PoTypeOK
  <2>2. q = r
    BY <1>j, <2>1
  <2>3. \A l \in Lines : booked[l] + take[l] <= Ordered[l]
    <3> TAKE l \in Lines
    <3>1. take[l] \in 0 .. 2 /\ booked[l] \in Nat /\ booked[l] <= Ordered[l] /\ Ordered[l] \in Nat
      BY <1>0, <2>1 DEF OrderlyReceipts, PoTypeOK
    <3>2. take[l] > 0 => booked[l] + take[l] <= Ordered[l]
      BY <1>0 DEF Fits
    <3> QED BY <3>1, <3>2
  <2> QED BY <1>0, <1>j, <2>1, <2>2, <2>3
<1> QED BY <1>1, <1>3, <1>4

\* A step of a request that books nothing.
LEMMA RequestGoesOn ==
    ASSUME PoInv, PoTypeOK', NEW r \in Receivers, job[r].pc # "idle",
           \A s \in Receivers \ {r} : job'[s] = job[s],
           UNCHANGED <<poStatus, booked, overlap>>,
           \/ job'[r].pc = "idle"
           \/ /\ job'[r].take = job[r].take
              /\ job'[r].pc = "read" => (job'[r].done <=> Complete(r))
    PROVE  AloneFits'
<1> USE DEF PoInv
<1> SUFFICES ASSUME ~overlap', NEW q \in Receivers, job'[q].pc # "idle"
             PROVE  /\ \A s \in Receivers \ {q} : job'[s].pc = "idle"
                    /\ poStatus' \in {"placed", "partially_received"}
                    /\ \A l \in Lines : booked'[l] + job'[q].take[l] <= Ordered[l]
                    /\ job'[q].pc = "read" => (job'[q].done <=> Complete(q)')
  BY DEF AloneFits
<1>1. \A s \in Receivers \ {r} : job[s].pc = "idle"
  BY DEF AloneFits
<1>2. q = r
  BY <1>1
<1>3. job'[r].take = job[r].take /\ (job'[r].pc = "read" => (job'[r].done <=> Complete(r)))
  BY <1>2
<1>4. Complete(r)' <=> Complete(r)
  BY <1>3 DEF Complete, Plus
<1> QED BY <1>1, <1>2, <1>3, <1>4 DEF AloneFits

LEMMA TakeInKeeps ==
    ASSUME PoInv, NEW r \in Receivers, TakeIn(r)
    PROVE  PoInv'
<1> USE DEF PoInv
<1>0. /\ job[r].pc = "checked" /\ UNCHANGED <<poStatus, booked, lost, overlap, crooked>>
      /\ \/ Intake(r) /\ job' = [job EXCEPT ![r].pc = "stocked"]
         \/ job' = [job EXCEPT ![r] = Idle] /\ taken' = taken
  BY DEF TakeIn
<1>t. /\ job[r].take \in [Lines -> 0 .. 2] /\ job[r].goods \in [Lines -> 0 .. 2]
      /\ {booked, taken, lost} \subseteq [Lines -> Nat]
  BY DEF PoTypeOK
<1>1. PoTypeOK'
  <2>1. CASE Intake(r) /\ job' = [job EXCEPT ![r].pc = "stocked"]
    <3>1. taken' \in [Lines -> Nat]
      BY <1>t, <2>1 DEF Intake, Plus
    <3> QED BY <1>0, <2>1, <3>1 DEF PoTypeOK
  <2>2. CASE job' = [job EXCEPT ![r] = Idle] /\ taken' = taken
    BY <1>0, <2>2 DEF PoTypeOK, Idle, Nothing
  <2> QED BY <1>0, <2>1, <2>2
<1>j. /\ \A s \in Receivers \ {r} : job'[s] = job[s]
      /\ \/ job'[r].pc = "idle" /\ taken' = taken
         \/ /\ job'[r].pc = "stocked" /\ Intake(r)
            /\ job'[r].take = job[r].take /\ job'[r].goods = job[r].goods
  BY <1>0 DEF PoTypeOK, Idle
<1>2. StockCoversOrder'
  <2>1. ASSUME NEW l \in Lines
        PROVE  taken'[l] + Carried(l)[r] + booked[l] + lost[l]
                 = taken[l] + Carried(l)'[r] + booked'[l] + lost'[l]
    <3>1. Carried(l)[r] = 0
      BY <1>0 DEF Carried
    <3>2. \/ Carried(l)'[r] = 0 /\ taken'[l] = taken[l]
          \/ Carried(l)'[r] = job[r].goods[l] /\ taken'[l] = taken[l] + job[r].goods[l]
      BY <1>j DEF Carried, Intake, Plus
    <3> QED BY <1>0, <1>t, <3>1, <3>2
  <2>2. crooked \subseteq crooked'
    BY <1>0
  <2> QED BY <1>1, <1>j, <2>1, <2>2, CoverKept DEF OrderlyReceipts
<1>3. OrderlyReceipts'
  BY <1>0, <1>2 DEF OrderlyReceipts
<1>4. AloneFits'
  BY <1>0, <1>1, <1>j, RequestGoesOn
<1> QED BY <1>1, <1>3, <1>4

LEMMA UpdateLinesKeeps ==
    ASSUME PoInv, NEW r \in Receivers, UpdateLines(r) \/ ReadComplete(r)
    PROVE  PoInv'
<1> USE DEF PoInv
<1>0. /\ job[r].pc \in {"stocked", "lines"}
      /\ UNCHANGED <<poStatus, booked, taken, lost, overlap, crooked>>
      /\ \/ job' = [job EXCEPT ![r].pc = "lines"]
         \/ job' = [job EXCEPT ![r].pc = "read", ![r].done = Complete(r)]
  BY DEF UpdateLines, ReadComplete
<1>c. Complete(r) \in BOOLEAN
  BY DEF Complete
<1>1. PoTypeOK'
  <2>1. CASE job' = [job EXCEPT ![r].pc = "lines"]
    BY <1>0, <2>1 DEF PoTypeOK
  <2>2. CASE job' = [job EXCEPT ![r].pc = "read", ![r].done = Complete(r)]
    <3> DEFINE done == Complete(r)
               next == [pc |-> "read", take |-> job[r].take, goods |-> job[r].goods,
                        done |-> done]
    <3>1. done \in BOOLEAN /\ job' = [job EXCEPT ![r] = [@ EXCEPT !.pc = "read", !.done = done]]
      BY <1>c, <2>2
    <3> HIDE DEF done
    <3>2. [job[r] EXCEPT !.pc = "read", !.done = done] = next
      <4>1. job[r] \in [pc : {"idle", "checked", "stocked", "lines", "read"},
                        take : [Lines -> 0 .. 2], goods : [Lines -> 0 .. 2], done : BOOLEAN]
        BY DEF PoTypeOK
      <4>2. PICK at, take, intake, was :
              job[r] = [pc |-> at, take |-> take, goods |-> intake, done |-> was]
        BY <4>1
      <4>3. job[r].take = take /\ job[r].goods = intake
        BY ONLY <4>2
      <4>4. [job[r] EXCEPT !.pc = "read"]
              = [pc |-> "read", take |-> take, goods |-> intake, done |-> was]
        BY ONLY <4>2
      <4>5. [[job[r] EXCEPT !.pc = "read"] EXCEPT !.done = done]
              = [pc |-> "read", take |-> take, goods |-> intake, done |-> done]
        <5> DEFINE half == [job[r] EXCEPT !.pc = "read"]
        <5>1. half = [pc |-> "read", take |-> take, goods |-> intake, done |-> was]
          BY ONLY <4>4
        <5> HIDE DEF half
        <5>2. [half EXCEPT !.done = done]
                = [pc |-> "read", take |-> take, goods |-> intake, done |-> done]
          BY ONLY <5>1
        <5> QED BY ONLY <5>2 DEF half
      <4> QED BY ONLY <4>3, <4>5 DEF next
    <3>3. job' = [job EXCEPT ![r] = next]
      BY <3>1, <3>2
    <3>4. next \in [pc : {"idle", "checked", "stocked", "lines", "read"},
                    take : [Lines -> 0 .. 2], goods : [Lines -> 0 .. 2], done : BOOLEAN]
      BY <3>1 DEF PoTypeOK
    <3> HIDE DEF next
    <3> QED BY <1>0, <3>3, <3>4 DEF PoTypeOK
  <2> QED BY <1>0, <2>1, <2>2
<1>j. /\ \A s \in Receivers \ {r} : job'[s] = job[s]
      /\ job'[r].take = job[r].take /\ job'[r].goods = job[r].goods
      /\ job'[r].pc \in {"lines", "read"}
      /\ job'[r].pc = "read" => (job'[r].done <=> Complete(r))
  BY <1>0, <1>c DEF PoTypeOK
<1>2. StockCoversOrder'
  <2>1. \A l \in Lines : Carried(l)'[r] = Carried(l)[r]
    BY <1>0, <1>j DEF Carried
  <2>2. StockCoversOrder
    BY DEF OrderlyReceipts
  <2> QED BY <1>0, <1>1, <1>j, <2>1, <2>2, CoverKept
<1>3. OrderlyReceipts'
  BY <1>0, <1>2 DEF OrderlyReceipts
<1>4. AloneFits'
  BY <1>0, <1>1, <1>j, RequestGoesOn
<1> QED BY <1>1, <1>3, <1>4

LEMMA CommitReceiptKeeps ==
    ASSUME PoInv, NEW r \in Receivers, CommitReceipt(r)
    PROVE  PoInv'
<1> USE DEF PoInv
<1>0. /\ job[r].pc = "read" /\ UNCHANGED <<taken, lost, overlap>>
      /\ booked' = Plus(booked, job[r].take)
      /\ poStatus' = IF job[r].done THEN "received" ELSE "partially_received"
      /\ crooked' = crooked \cup {l \in Lines : job[r].take[l] # job[r].goods[l]}
      /\ job' = [job EXCEPT ![r] = Idle]
  BY DEF CommitReceipt
<1>t. /\ job[r].take \in [Lines -> 0 .. 2] /\ job[r].goods \in [Lines -> 0 .. 2]
      /\ {booked, taken, lost} \subseteq [Lines -> Nat]
  BY DEF PoTypeOK
<1>b. /\ booked' \in [Lines -> Nat]
      /\ \A l \in Lines : booked'[l] = booked[l] + job[r].take[l]
  BY <1>0, <1>t DEF Plus
<1>1. PoTypeOK'
  BY <1>0, <1>b DEF PoTypeOK, Idle, Nothing
<1>j. /\ \A s \in Receivers \ {r} : job'[s] = job[s]
      /\ job'[r].pc = "idle"
  BY <1>0 DEF PoTypeOK, Idle
<1>2. StockCoversOrder'
  <2>1. ASSUME NEW l \in Lines \ crooked'
        PROVE  taken'[l] + Carried(l)[r] + booked[l] + lost[l]
                 = taken[l] + Carried(l)'[r] + booked'[l] + lost'[l]
    <3>1. Carried(l)[r] = job[r].take[l] /\ Carried(l)'[r] = 0
      BY <1>0, <1>j DEF Carried
    <3> QED BY <1>0, <1>t, <1>b, <3>1
  <2>2. crooked \subseteq crooked'
    BY <1>0
  <2> QED BY <1>1, <1>j, <2>1, <2>2, CoverKept DEF OrderlyReceipts
<1>a. ASSUME ~overlap'
      PROVE  /\ \A l \in Lines : booked'[l] <= Ordered[l]
             /\ job[r].done <=> Complete(r)
             /\ \A s \in Receivers : job'[s].pc = "idle"
  BY <1>0, <1>a, <1>b, <1>j DEF AloneFits
<1>c. Complete(r) <=> \A l \in Lines : booked'[l] >= Ordered[l]
  BY <1>0 DEF Complete
<1>3. OrderlyReceipts'
  BY <1>0, <1>2, <1>a, <1>c DEF OrderlyReceipts
<1>4. AloneFits'
  BY <1>a DEF AloneFits
<1> QED BY <1>1, <1>3, <1>4

LEMMA ReceiverDiesKeeps ==
    ASSUME PoInv, NEW r \in Receivers, ReceiverDies(r)
    PROVE  PoInv'
<1> USE DEF PoInv
<1>0. /\ job[r].pc \in {"stocked", "lines", "read"}
      /\ lost' = Plus(lost, job[r].goods)
      /\ job' = [job EXCEPT ![r] = Idle]
      /\ UNCHANGED <<poStatus, booked, taken, overlap, crooked>>
  BY DEF ReceiverDies
<1>t. /\ job[r].take \in [Lines -> 0 .. 2] /\ job[r].goods \in [Lines -> 0 .. 2]
      /\ {booked, taken, lost} \subseteq [Lines -> Nat]
  BY DEF PoTypeOK
<1>b. /\ lost' \in [Lines -> Nat]
      /\ \A l \in Lines : lost'[l] = lost[l] + job[r].goods[l]
  BY <1>0, <1>t DEF Plus
<1>1. PoTypeOK'
  BY <1>0, <1>b DEF PoTypeOK, Idle, Nothing
<1>j. /\ \A s \in Receivers \ {r} : job'[s] = job[s]
      /\ job'[r].pc = "idle"
  BY <1>0 DEF PoTypeOK, Idle
<1>2. StockCoversOrder'
  <2>1. ASSUME NEW l \in Lines
        PROVE  taken'[l] + Carried(l)[r] + booked[l] + lost[l]
                 = taken[l] + Carried(l)'[r] + booked'[l] + lost'[l]
    <3>1. Carried(l)[r] = job[r].goods[l] /\ Carried(l)'[r] = 0
      BY <1>0, <1>j DEF Carried
    <3> QED BY <1>0, <1>t, <1>b, <3>1
  <2>2. crooked \subseteq crooked'
    BY <1>0
  <2> QED BY <1>1, <1>j, <2>1, <2>2, CoverKept DEF OrderlyReceipts
<1>3. OrderlyReceipts'
  BY <1>0, <1>2 DEF OrderlyReceipts
<1>4. AloneFits'
  BY <1>0, <1>1, <1>j, RequestGoesOn
<1> QED BY <1>1, <1>3, <1>4

LEMMA PoStep ==
    ASSUME PoInv, [PoNext]_poVars
    PROVE  PoInv'
<1>1. CASE CreatePurchaseOrder
  BY <1>1, CreatePurchaseOrderKeeps
<1>2. CASE \E r \in Receivers, ask \in Receipts : CheckReceipt(r, ask)
  BY <1>2, CheckReceiptKeeps
<1>3. CASE \E r \in Receivers : TakeIn(r)
  BY <1>3, TakeInKeeps
<1>4. CASE \E r \in Receivers : UpdateLines(r) \/ ReadComplete(r)
  BY <1>4, UpdateLinesKeeps
<1>5. CASE \E r \in Receivers : CommitReceipt(r)
  BY <1>5, CommitReceiptKeeps
<1>6. CASE \E r \in Receivers : ReceiverDies(r)
  BY <1>6, ReceiverDiesKeeps
<1>7. CASE UNCHANGED poVars
  BY <1>7 DEF poVars, PoInv, PoTypeOK, OrderlyReceipts, StockCoversOrder, InHand, Carried,
              AloneFits, Complete, Plus
<1> QED BY <1>1, <1>2, <1>3, <1>4, <1>5, <1>6, <1>7 DEF PoNext

\* The order, its lines and what each request carries stay in their types.
THEOREM PoTypeCorrect == PoSpec => []PoTypeOK
<1>1. PoInit => PoInv
  BY PoInitially
<1>2. PoInv /\ [PoNext]_poVars => PoInv'
  BY PoStep
<1>3. PoInv => PoTypeOK
  BY DEF PoInv
<1> QED BY <1>1, <1>2, <1>3, PTL DEF PoSpec

\* However many requests receive one order at once and wherever they die, what
\* the stock has of a line beyond the order is in the hands of a request or was
\* lost by one that died, unless a receipt booked another number than it took
\* in; and receipts made one after the other never book more than the order and
\* close it exactly when it is complete.
THEOREM ReceiptsOrderly == PoSpec => []OrderlyReceipts
<1>1. PoInit => PoInv
  BY PoInitially
<1>2. PoInv /\ [PoNext]_poVars => PoInv'
  BY PoStep
<1>3. PoInv => OrderlyReceipts
  BY DEF PoInv
<1> QED BY <1>1, <1>2, <1>3, PTL DEF PoSpec

USE WarehouseAssumption

-----------------------------------------------------------------------------
(* Warehouse: the inductive invariant                                      *)

\* What the ledger holds back for each order that may be picked.
HeldFor ==
    [o \in PickOrders |-> IF pickOrder[o] \in {"reserved", "expired"} THEN Need ELSE 0]

LedgerWithinGoods ==
    /\ heldBack = SumOf(HeldFor, PickOrders)
    /\ onHand + heldBack <= goods

\* The putaway under way is the only one, and what it brings was not binned.
PutawayFits ==
    \A w \in Workers : putaway[w] # NoPutaway =>
        /\ \A x \in Workers \ {w} : putaway[x] = NoPutaway
        /\ Binned + putaway[w].qty <= goods

WhInv == WhTypeOK /\ LedgerWithinGoods /\ BinsWithinGoods /\ PutawayFits

LEMMA BinnedType ==
    ASSUME WhTypeOK
    PROVE  Binned \in Nat
BY SumType DEF Binned, WhTypeOK

LEMMA HeldType ==
    ASSUME WhTypeOK
    PROVE  /\ \A o \in PickOrders : HeldFor[o] \in Nat
           /\ SumOf(HeldFor, PickOrders) \in Nat
<1>1. \A o \in PickOrders : HeldFor[o] \in Nat
  BY DEF HeldFor
<1> QED BY <1>1, SumType

\* A set of naturals has a least element.
LEMMA LeastBin ==
    ASSUME NEW S \in SUBSET Nat, S # {}
    PROVE  Min(S) \in S
<1>1. PICK x \in S : \A y \in S : <<y, x>> \notin OpToRel(<, Nat)
  BY NatLessThanWellFounded, WFMin, Zenon
<1>2. \A y \in S : ~ (y < x)
  BY <1>1, Zenon DEF OpToRel
<1>3. \A y \in S : x <= y
  BY <1>2
<1> QED BY <1>3 DEF Min

-----------------------------------------------------------------------------
(* Warehouse: one lemma per action                                         *)

LEMMA WhInitially ==
    ASSUME WhInit
    PROVE  WhInv
<1> USE DEF WhInit
<1>1. WhTypeOK
  <2>1. NoPick \in [status : {"none", "open", "completed"},
                    bin : Bins \cup {NoBin}, picked : 0 .. Need]
    BY DEF NoPick
  <2> QED BY <2>1 DEF WhTypeOK, NoPutaway
<1>2. Binned = 0
  BY SumZero DEF Binned
<1>3. SumOf(HeldFor, PickOrders) = 0
  <2>1. \A o \in PickOrders : HeldFor[o] = 0
    BY DEF HeldFor
  <2> QED BY <2>1, SumZero
<1> QED BY <1>1, <1>2, <1>3 DEF WhInv, LedgerWithinGoods, BinsWithinGoods, PutawayFits

\* A step that leaves the bins, the putaways and the pick lists alone.
LEMMA LedgerStep ==
    ASSUME WhInv, onHand' \in Nat, heldBack' \in Nat, goods' \in Nat, goods <= goods',
           pickOrder' \in
             [PickOrders -> {"none", "reserved", "expired", "fulfilled", "cancelled"}],
           LedgerWithinGoods', UNCHANGED <<binQty, assigned, putaway, pick>>
    PROVE  WhInv'
<1> USE DEF WhInv
<1>1. WhTypeOK'
  BY DEF WhTypeOK
<1>2. Binned' = Binned /\ Binned \in Nat
  BY BinnedType DEF Binned
<1>3. goods \in Nat /\ \A w \in Workers : putaway[w] # NoPutaway => putaway[w].qty \in Nat
  BY DEF WhTypeOK
<1>4. BinsWithinGoods'
  BY <1>2, <1>3 DEF BinsWithinGoods
<1>5. PutawayFits'
  <2> SUFFICES ASSUME NEW w \in Workers, putaway[w] # NoPutaway
               PROVE  /\ \A x \in Workers \ {w} : putaway[x] = NoPutaway
                      /\ Binned + putaway[w].qty <= goods'
    BY <1>2 DEF PutawayFits
  <2>1. /\ \A x \in Workers \ {w} : putaway[x] = NoPutaway
        /\ Binned + putaway[w].qty <= goods
    BY DEF PutawayFits
  <2> QED BY <1>2, <1>3, <2>1
<1> QED BY <1>1, <1>4, <1>5

\* A step that leaves the ledger and the orders alone.
LEMMA BinStep ==
    ASSUME WhInv, WhTypeOK', UNCHANGED <<onHand, heldBack, goods, pickOrder>>,
           BinsWithinGoods', PutawayFits'
    PROVE  WhInv'
<1>1. LedgerWithinGoods'
  BY DEF WhInv, LedgerWithinGoods, HeldFor
<1> QED BY <1>1 DEF WhInv

LEMMA CounterKeeps ==
    ASSUME WhInv, GoodsIn \/ SaleOverCounter
    PROVE  WhInv'
<1> USE DEF WhInv
<1>1. onHand \in Nat /\ heldBack \in Nat /\ goods \in Nat
  BY DEF WhTypeOK
<1>2. onHand' \in Nat /\ heldBack' \in Nat /\ goods' \in Nat /\ goods <= goods'
  BY <1>1 DEF GoodsIn, SaleOverCounter
<1>3. LedgerWithinGoods'
  <2>1. SumOf(HeldFor, PickOrders)' = SumOf(HeldFor, PickOrders) /\ heldBack' = heldBack
    BY DEF GoodsIn, SaleOverCounter, HeldFor
  <2>2. onHand' + heldBack' <= goods'
    BY <1>1 DEF GoodsIn, SaleOverCounter, LedgerWithinGoods
  <2> QED BY <2>1, <2>2 DEF LedgerWithinGoods
<1>4. pickOrder' = pickOrder /\ UNCHANGED <<binQty, assigned, putaway, pick>>
  BY DEF GoodsIn, SaleOverCounter
<1> QED BY <1>2, <1>3, <1>4, LedgerStep DEF WhTypeOK

\* A change of one order changes what is held back by the difference.
LEMMA HeldChange ==
    ASSUME WhTypeOK, WhTypeOK', NEW o \in PickOrders,
           \A x \in PickOrders \ {o} : pickOrder'[x] = pickOrder[x]
    PROVE  SumOf(HeldFor, PickOrders)' + HeldFor[o] = SumOf(HeldFor, PickOrders) + HeldFor'[o]
<1> DEFINE f == HeldFor
           g == HeldFor'
<1>1. \A x \in PickOrders : f[x] \in Nat /\ g[x] \in Nat
  BY DEF HeldFor
<1>2. \A x \in PickOrders \ {o} : f[x] = g[x]
  BY DEF HeldFor
<1> HIDE DEF f, g
<1>3. SumOf(g, PickOrders) + f[o] = SumOf(f, PickOrders) + g[o]
  BY <1>1, <1>2, SumChange
<1> QED BY <1>3 DEF f, g

LEMMA PickOrderKeeps ==
    ASSUME WhInv, NEW o \in PickOrders,
           \/ PlacePickOrder(o) \/ ReservationLapses(o)
           \/ \E status \in {"fulfilled", "cancelled"} : ClosePickOrder(o, status)
    PROVE  WhInv'
<1> USE DEF WhInv
<1>1. /\ onHand \in Nat /\ heldBack \in Nat /\ goods \in Nat
      /\ SumOf(HeldFor, PickOrders) \in Nat
      /\ heldBack = SumOf(HeldFor, PickOrders) /\ onHand + heldBack <= goods
      /\ pickOrder \in
           [PickOrders -> {"none", "reserved", "expired", "fulfilled", "cancelled"}]
  BY HeldType DEF WhTypeOK, LedgerWithinGoods
<1>2. /\ goods' = goods /\ UNCHANGED <<binQty, assigned, putaway, pick>>
      /\ pickOrder' \in
           [PickOrders -> {"none", "reserved", "expired", "fulfilled", "cancelled"}]
      /\ \A x \in PickOrders \ {o} : pickOrder'[x] = pickOrder[x]
  BY <1>1 DEF PlacePickOrder, ReservationLapses, ClosePickOrder
<1>3. HeldFor[o] <= heldBack /\ HeldFor[o] \in Nat
  BY <1>1, HeldType, SumAtLeast
<1>4. \/ /\ HeldFor[o] = 0 /\ HeldFor'[o] = Need
         /\ onHand >= Need /\ onHand' = onHand - Need /\ heldBack' = heldBack + Need
      \/ /\ HeldFor[o] = Need /\ HeldFor'[o] = 0
         /\ onHand' \in {onHand, onHand + Need} /\ heldBack' = heldBack - Need
      \/ /\ HeldFor[o] = HeldFor'[o] /\ onHand' = onHand /\ heldBack' = heldBack
  BY <1>1 DEF PlacePickOrder, ReservationLapses, ClosePickOrder, HeldFor
<1>5. onHand' \in Nat /\ heldBack' \in Nat /\ onHand' + heldBack' <= goods'
  BY <1>1, <1>2, <1>3, <1>4
<1>6. WhTypeOK'
  BY <1>1, <1>2, <1>5 DEF WhTypeOK
<1>7. SumOf(HeldFor, PickOrders)' = heldBack'
  <2>1. SumOf(HeldFor, PickOrders)' + HeldFor[o] = SumOf(HeldFor, PickOrders) + HeldFor'[o]
    BY <1>2, <1>6, HeldChange
  <2>2. SumOf(HeldFor, PickOrders)' \in Nat
    <3>1. SumOf(HeldFor', PickOrders) \in Nat
      <4>1. \A x \in PickOrders : HeldFor'[x] \in Nat
        BY DEF HeldFor
      <4> QED BY <4>1, SumType
    <3> QED BY <3>1
  <2> DEFINE s == SumOf(HeldFor, PickOrders)
             t == SumOf(HeldFor, PickOrders)'
             a == HeldFor[o]
             b == HeldFor'[o]
  <2>3. t + a = s + b /\ t \in Nat /\ s \in Nat /\ s = heldBack
    BY <1>1, <2>1, <2>2
  <2>4. \/ a = 0 /\ b = Need /\ heldBack' = heldBack + Need
        \/ a = Need /\ b = 0 /\ heldBack' = heldBack - Need
        \/ a = b /\ heldBack' = heldBack
    BY <1>4
  <2>5. a \in Nat
    BY <1>3
  <2> HIDE DEF s, t, a, b
  <2>6. t = heldBack'
    BY <1>1, <2>3, <2>4, <2>5
  <2> QED BY <2>6 DEF t
<1>8. LedgerWithinGoods'
  BY <1>5, <1>7 DEF LedgerWithinGoods
<1> QED BY <1>1, <1>2, <1>5, <1>8, LedgerStep

LEMMA PickListKeeps ==
    ASSUME WhInv, NEW o \in PickOrders, CreatePickList(o) \/ CompletePickList(o)
    PROVE  WhInv'
<1> USE DEF WhInv
<1>1. Suggested \in Bins \cup {NoBin}
  <2>1. \A S \in SUBSET Bins : FirstOf(S) \in Bins \cup {NoBin}
    <3> SUFFICES ASSUME NEW S \in SUBSET Bins, S # {} PROVE Min(S) \in Bins
      BY DEF FirstOf
    <3>1. S \in SUBSET Nat
      OBVIOUS
    <3> QED BY <3>1, LeastBin
  <2>2. assigned \in SUBSET Bins
    BY DEF WhTypeOK
  <2> QED BY <2>1, <2>2 DEF Suggested
<1>2. UNCHANGED <<onHand, heldBack, binQty, assigned, goods, putaway, pickOrder>>
  BY DEF CreatePickList, CompletePickList
<1>3. pick' \in [PickOrders -> [status : {"none", "open", "completed"},
                                bin : Bins \cup {NoBin}, picked : 0 .. Need]]
  BY <1>1 DEF CreatePickList, CompletePickList, WhTypeOK
<1>4. WhTypeOK'
  BY <1>2, <1>3 DEF WhTypeOK
<1> QED BY <1>2, <1>4, BinStep DEF BinsWithinGoods, PutawayFits, Binned

LEMMA AssignBinKeeps ==
    ASSUME WhInv, NEW b \in Bins, AssignBin(b)
    PROVE  WhInv'
<1> USE DEF WhInv, AssignBin
<1>1. WhTypeOK'
  BY DEF WhTypeOK
<1> QED BY <1>1, BinStep DEF BinsWithinGoods, PutawayFits, Binned

\* What may still be binned is on hand, so it came through the door.
LEMMA PutawayReadKeeps ==
    ASSUME WhInv, NEW w \in Workers, NEW b \in Bins, NEW qty \in Nat, PutawayRead(w, b, qty)
    PROVE  WhInv'
<1> USE DEF WhInv, PutawayRead
<1>1. onHand \in Nat /\ heldBack \in Nat /\ goods \in Nat /\ Binned \in Nat
  BY BinnedType DEF WhTypeOK
<1>2. Binned' = Binned
  BY DEF Binned
<1>3. \A x \in Workers : putaway[x] = NoPutaway
  BY DEF TakesLock
<1>4. /\ putaway'[w] = [bin |-> b, qty |-> qty]
      /\ \A x \in Workers \ {w} : putaway'[x] = NoPutaway
  BY <1>3 DEF WhTypeOK
<1>5. WhTypeOK'
  BY <1>1 DEF WhTypeOK
<1>6. BinsWithinGoods'
  BY <1>2 DEF BinsWithinGoods
<1>7. Binned + qty <= goods
  BY <1>1 DEF LedgerWithinGoods
<1>8. PutawayFits'
  BY <1>2, <1>4, <1>7 DEF PutawayFits
<1> QED BY <1>5, <1>6, <1>8, BinStep

\* A change of one bin changes the total by the difference.
LEMMA BinnedChange ==
    ASSUME WhTypeOK, WhTypeOK', NEW b \in Bins,
           \A x \in Bins \ {b} : binQty'[x] = binQty[x]
    PROVE  /\ Binned' + binQty[b] = Binned + binQty'[b]
           /\ Binned \in Nat /\ Binned' \in Nat
<1> DEFINE f == binQty
           g == binQty'
<1>1. \A x \in Bins : f[x] \in Nat /\ g[x] \in Nat
  BY DEF WhTypeOK
<1>2. \A x \in Bins \ {b} : f[x] = g[x]
  OBVIOUS
<1>3. Binned = SumOf(f, Bins) /\ Binned' = SumOf(g, Bins)
  BY DEF Binned
<1> HIDE DEF f, g
<1>4. SumOf(g, Bins) + f[b] = SumOf(f, Bins) + g[b]
  BY <1>1, <1>2, SumChange
<1>5. SumOf(f, Bins) \in Nat /\ SumOf(g, Bins) \in Nat
  BY <1>1, SumType
<1> QED BY <1>3, <1>4, <1>5 DEF f, g

LEMMA PutawayWriteKeeps ==
    ASSUME WhInv, NEW w \in Workers, PutawayWrite(w)
    PROVE  WhInv'
<1> USE DEF WhInv, PutawayWrite
<1> DEFINE b == putaway[w].bin
           n == putaway[w].qty
<1>1. b \in Bins /\ n \in Nat /\ goods \in Nat /\ Binned + n <= goods
  BY DEF WhTypeOK, PutawayFits
<1>2. \A x \in Workers : putaway'[x] = NoPutaway
  BY DEF PutawayFits, WhTypeOK
<1>a. binQty' = [binQty EXCEPT ![b] = binQty[b] + n] /\ binQty \in [Bins -> Nat]
  BY DEF WhTypeOK
<1> HIDE DEF b, n, PutawayWrite
<1>b. binQty[b] + n \in Nat
  BY <1>1, <1>a
<1>3. /\ binQty' \in [Bins -> Nat] /\ binQty'[b] = binQty[b] + n
      /\ \A x \in Bins \ {b} : binQty'[x] = binQty[x]
      /\ binQty[b] \in Nat
  BY <1>1, <1>a, <1>b
<1>4. WhTypeOK'
  BY <1>3 DEF WhTypeOK, PutawayWrite
<1>5. Binned' = Binned + n
  <2>1. /\ Binned' + binQty[b] = Binned + binQty'[b]
        /\ Binned \in Nat /\ Binned' \in Nat
    BY <1>1, <1>3, <1>4, BinnedChange
  <2> QED BY <1>1, <1>3, <2>1
<1>6. BinsWithinGoods' /\ PutawayFits'
  <2>1. goods' = goods
    BY DEF PutawayWrite
  <2> QED BY <1>1, <1>2, <1>5, <2>1 DEF BinsWithinGoods, PutawayFits
<1> QED BY <1>4, <1>6, BinStep DEF PutawayWrite

\* A step that takes out of the bins, or moves between them.
LEMMA NothingBinned ==
    ASSUME WhInv, WhTypeOK', Binned' \in Nat, Binned' <= Binned,
           UNCHANGED <<onHand, heldBack, goods, putaway, pickOrder>>
    PROVE  WhInv'
<1> USE DEF WhInv
<1>1. Binned \in Nat /\ goods \in Nat
  BY BinnedType DEF WhTypeOK
<1>2. BinsWithinGoods'
  BY <1>1 DEF BinsWithinGoods
<1>3. PutawayFits'
  <2> SUFFICES ASSUME NEW w \in Workers, putaway[w] # NoPutaway
               PROVE  /\ \A x \in Workers \ {w} : putaway[x] = NoPutaway
                      /\ Binned' + putaway[w].qty <= goods
    BY DEF PutawayFits
  <2>1. putaway[w].qty \in Nat /\ Binned + putaway[w].qty <= goods
    BY DEF PutawayFits, WhTypeOK
  <2> QED BY <1>1, <2>1 DEF PutawayFits
<1> QED BY <1>2, <1>3, BinStep

LEMMA MoveBinKeeps ==
    ASSUME WhInv, NEW from \in Bins, NEW to \in Bins, NEW qty \in Nat, MoveBin(from, to, qty)
    PROVE  WhInv'
<1> USE DEF WhInv, MoveBin
<1>1. binQty' \in [Bins -> Nat]
  BY DEF WhTypeOK
<1>2. WhTypeOK'
  BY <1>1 DEF WhTypeOK
<1> DEFINE f == binQty
           h == binQty'
<1>3. f[from] + f[to] = h[from] + h[to]
  BY DEF WhTypeOK
<1>b. \A x \in Bins \ {from, to} : f[x] = h[x]
  BY DEF WhTypeOK
<1>c. from # to
  OBVIOUS
<1>d. IsFiniteSet(Bins) /\ from \in Bins /\ to \in Bins
  OBVIOUS
<1>4. \A x \in Bins : f[x] \in Nat /\ h[x] \in Nat
  BY <1>1 DEF WhTypeOK
<1>5. Binned = SumOf(f, Bins) /\ Binned' = SumOf(h, Bins)
  BY DEF Binned
<1>6. UNCHANGED <<onHand, heldBack, goods, putaway, pickOrder>>
  OBVIOUS
<1> HIDE DEF f, h, MoveBin
<1>7. SumOf(h, Bins) = SumOf(f, Bins)
  BY ONLY <1>3, <1>4, <1>b, <1>c, <1>d, SumMove
<1>8. Binned' = Binned /\ Binned \in Nat
  BY <1>5, <1>7, BinnedType
<1> QED BY <1>2, <1>6, <1>8, NothingBinned

LEMMA RecordPickKeeps ==
    ASSUME WhInv, NEW o \in PickOrders, NEW n \in 0 .. Need, RecordPick(o, n)
    PROVE  WhInv'
<1> USE DEF WhInv
<1> DEFINE b == pick[o].bin
           delta == IF n > pick[o].picked THEN n - pick[o].picked ELSE 0
<1>1. /\ UNCHANGED <<onHand, heldBack, assigned, goods, putaway, pickOrder>>
      /\ pick' = [pick EXCEPT ![o].picked = n]
      /\ binQty' = IF b = NoBin THEN binQty ELSE [binQty EXCEPT ![b] = Left(b, delta)]
  BY DEF RecordPick
<1>2. b \in Bins \cup {NoBin} /\ delta \in Nat /\ binQty \in [Bins -> Nat]
  BY DEF WhTypeOK
<1> HIDE DEF b, delta
<1>3. CASE b = NoBin
  <2>1. WhTypeOK' /\ binQty' = binQty
    BY <1>1, <1>3 DEF WhTypeOK
  <2>2. Binned' = Binned /\ Binned \in Nat
    BY <2>1, BinnedType DEF Binned
  <2> QED BY <1>1, <2>1, <2>2, NothingBinned
<1>4. CASE b # NoBin
  <2>1. b \in Bins /\ Left(b, delta) \in Nat /\ Left(b, delta) <= binQty[b] /\ binQty[b] \in Nat
    BY <1>2, <1>4 DEF Left
  <2>2. /\ binQty' \in [Bins -> Nat] /\ binQty'[b] = Left(b, delta)
        /\ \A x \in Bins \ {b} : binQty'[x] = binQty[x]
    BY <1>1, <1>2, <1>4, <2>1
  <2>3. WhTypeOK'
    BY <1>1, <2>2 DEF WhTypeOK
  <2>4. /\ Binned' + binQty[b] = Binned + binQty'[b]
        /\ Binned \in Nat /\ Binned' \in Nat
    BY <2>1, <2>2, <2>3, BinnedChange
  <2>5. Binned' <= Binned
    BY <2>1, <2>2, <2>4
  <2> QED BY <1>1, <2>3, <2>4, <2>5, NothingBinned
<1> QED BY <1>3, <1>4

LEMMA WhStep ==
    ASSUME WhInv, [WhNext]_whVars
    PROVE  WhInv'
<1>0. \A n \in 1 .. MaxReceived : n \in Nat
  OBVIOUS
<1>1. CASE GoodsIn \/ SaleOverCounter
  BY <1>1, CounterKeeps
<1>2. CASE \E o \in PickOrders :
             \/ PlacePickOrder(o) \/ ReservationLapses(o)
             \/ \E status \in {"fulfilled", "cancelled"} : ClosePickOrder(o, status)
  BY <1>2, PickOrderKeeps
<1>3. CASE \E o \in PickOrders : CreatePickList(o) \/ CompletePickList(o)
  BY <1>3, PickListKeeps
<1>4. CASE \E o \in PickOrders, n \in 0 .. Need : RecordPick(o, n)
  BY <1>4, RecordPickKeeps
<1>5. CASE \E b \in Bins : AssignBin(b)
  BY <1>5, AssignBinKeeps
<1>6. CASE \E w \in Workers, b \in Bins, qty \in 1 .. MaxReceived : PutawayRead(w, b, qty)
  BY <1>0, <1>6, PutawayReadKeeps
<1>7. CASE \E w \in Workers : PutawayWrite(w)
  BY <1>7, PutawayWriteKeeps
<1>8. CASE \E from, to \in Bins, qty \in 1 .. MaxReceived : MoveBin(from, to, qty)
  BY <1>0, <1>8, MoveBinKeeps
<1>9. CASE UNCHANGED whVars
  <2>1. UNCHANGED <<onHand, heldBack, binQty, assigned, goods, putaway, pickOrder, pick>>
    BY <1>9 DEF whVars
  <2>2. WhTypeOK'
    BY <2>1 DEF WhInv, WhTypeOK
  <2> QED BY <2>1, <2>2, BinStep DEF WhInv, BinsWithinGoods, PutawayFits, Binned
<1> QED BY <1>1, <1>2, <1>3, <1>4, <1>5, <1>6, <1>7, <1>8, <1>9 DEF WhNext

\* No quantity of the ledger, of a bin or of a pick list becomes negative.
THEOREM WhTypeCorrect == WhSpec => []WhTypeOK
<1>1. WhInit => WhInv
  BY WhInitially
<1>2. WhInv /\ [WhNext]_whVars => WhInv'
  BY WhStep
<1>3. WhInv => WhTypeOK
  BY DEF WhInv
<1> QED BY <1>1, <1>2, <1>3, PTL DEF WhSpec

\* Whatever is sold, reserved, put away, moved and picked at once, and in any
\* number of bins, the bins never claim more than came through the door.
THEOREM BinsNeverExceedGoods == WhSpec => []BinsWithinGoods
<1>1. WhInit => WhInv
  BY WhInitially
<1>2. WhInv /\ [WhNext]_whVars => WhInv'
  BY WhStep
<1>3. WhInv => BinsWithinGoods
  BY DEF WhInv
<1> QED BY <1>1, <1>2, <1>3, PTL DEF WhSpec

USE UnitLifeAssumption

-----------------------------------------------------------------------------
(* Serialized units: the inductive invariant                               *)

\* The units of a transfer under way are on their way to its destination, and
\* no unit is on two transfers.
TransfersCarry ==
    /\ \A t \in Transfers : transfer[t].status = "dispatched" =>
         /\ transfer[t].to \in Places
         /\ \A u \in transfer[t].moved :
              unit[u] = [state |-> "in_transit", loc |-> transfer[t].to]
    /\ \A t, s \in Transfers :
         /\ t # s
         /\ transfer[t].status = "dispatched" /\ transfer[s].status = "dispatched"
         => transfer[t].moved \cap transfer[s].moved = {}

\* No operation leaves a unit in the state of a damaged one.
NeverDamaged == \A u \in Units : unit[u].state # "damaged"

UnitInv == UnitTypeOK /\ UnitsMatchLedger /\ TransfersCarry /\ NeverDamaged

\* A side of a movement names a bucket of a location, or is left out.
IsSide(side) == side = Nowhere \/ \E p \in Places, b \in Bucket : side = At(p, b)

\* What a side changes at one location.
Share(side, p, b, n) == IF side = At(p, b) THEN n ELSE 0

\* The levels after a movement of n things from one side to the other, bucket
\* by bucket.
LevelsMove(from, to, n) ==
    /\ unitLevel' \in [Places -> [Bucket -> Nat]]
    /\ \A p \in Places, b \in Bucket :
         unitLevel'[p][b] + Share(from, p, b, n) = unitLevel[p][b] + Share(to, p, b, n)

LEMMA PostedLevels ==
    ASSUME UnitTypeOK, NEW type, NEW n \in Nat, NEW approved,
           NEW from, IsSide(from),
           NEW to, IsSide(to),
           Post(Movement(type, n, from, to, approved))
    PROVE  LevelsMove(from, to, n)
<1> USE DEF IsSide, Share
<1> DEFINE m == Movement(type, n, from, to, approved)
           debited == Debited(unitLevel, m)
<1>1. m.from = from /\ m.to = to /\ m.qty = n
  BY DEF Movement
<1>2. /\ unitLevel' = Credited(debited, m)
      /\ from # Nowhere => unitLevel[from.place][from.bucket] >= n
  BY <1>1 DEF Post, CanPost, Posted
<1>3. unitLevel \in [Places -> [Bucket -> Nat]]
  BY DEF UnitTypeOK
<1>4. \A p, q \in Places, b, c \in Bucket :
        /\ At(p, b) = At(q, c) <=> p = q /\ b = c
        /\ At(p, b).place = p /\ At(p, b).bucket = b /\ At(p, b) # Nowhere
  BY DEF At, Nowhere, Bucket
<1>5. /\ debited \in [Places -> [Bucket -> Nat]]
      /\ \A p \in Places, b \in Bucket :
           debited[p][b] + (IF from = At(p, b) THEN n ELSE 0) = unitLevel[p][b]
  <2>1. CASE from = Nowhere
    <3>1. debited = unitLevel
      BY <1>1, <2>1 DEF Debited
    <3> QED BY <1>3, <1>4, <2>1, <3>1
  <2>2. ASSUME NEW q \in Places, NEW c \in Bucket, from = At(q, c)
        PROVE  <1>5!1 /\ <1>5!2
    <3>1. /\ debited = [unitLevel EXCEPT ![q][c] = unitLevel[q][c] - n]
          /\ unitLevel[q][c] >= n
      <4>1. m.from.place = q /\ m.from.bucket = c /\ m.from # Nowhere /\ m.qty = n
        BY <1>1, <1>4, <2>2
      <4>2. from.place = q /\ from.bucket = c /\ from # Nowhere
        BY <1>4, <2>2
      <4> HIDE DEF m
      <4> QED BY <1>2, <4>1, <4>2 DEF Debited
    <3>2. unitLevel[q][c] - n \in Nat
      BY <1>3, <3>1
    <3>3. debited \in [Places -> [Bucket -> Nat]]
      BY <1>3, <3>1, <3>2
    <3> QED BY <1>3, <1>4, <2>2, <3>1, <3>2, <3>3
  <2> QED BY <2>1, <2>2
<1> HIDE DEF debited
<1>6. /\ unitLevel' \in [Places -> [Bucket -> Nat]]
      /\ \A p \in Places, b \in Bucket :
           unitLevel'[p][b] = debited[p][b] + (IF to = At(p, b) THEN n ELSE 0)
  <2>1. CASE to = Nowhere
    <3>1. unitLevel' = debited
      BY <1>1, <1>2, <2>1 DEF Credited
    <3> QED BY <1>4, <1>5, <2>1, <3>1
  <2>2. ASSUME NEW q \in Places, NEW c \in Bucket, to = At(q, c)
        PROVE  <1>6!1 /\ <1>6!2
    <3>1. unitLevel' = [debited EXCEPT ![q][c] = debited[q][c] + n]
      <4>1. m.to.place = q /\ m.to.bucket = c /\ m.to # Nowhere /\ m.qty = n
        BY <1>1, <1>4, <2>2
      <4> HIDE DEF m
      <4> QED BY <1>2, <4>1 DEF Credited
    <3>2. debited[q][c] + n \in Nat
      BY <1>5
    <3>3. unitLevel' \in [Places -> [Bucket -> Nat]]
      BY <1>5, <3>1, <3>2
    <3> QED BY <1>4, <1>5, <2>2, <3>1, <3>2, <3>3
  <2> QED BY <2>1, <2>2
<1> QED BY <1>3, <1>5, <1>6 DEF LevelsMove

\* What k units of a record count for among the states at a place.
Among(rec, p, states, k) == IF rec.loc = p /\ rec.state \in states THEN k ELSE 0

GroupGoes(us, old, new) ==
    /\ \A u \in us : unit[u] = old /\ unit'[u] = new
    /\ \A u \in Units \ us : unit'[u] = unit[u]

GroupCounts(us, old, new, p, states) ==
    /\ InState(p, states)' + Among(old, p, states, Cardinality(us))
         = InState(p, states) + Among(new, p, states, Cardinality(us))
    /\ InState(p, states) \in Nat /\ InState(p, states)' \in Nat
    /\ Cardinality(us) \in Nat

\* A group of units that changes its state and place together leaves one count
\* and enters another.
LEMMA GroupMoves ==
    ASSUME NEW us \in SUBSET Units, NEW old, NEW new, GroupGoes(us, old, new),
           NEW p, NEW states
    PROVE  GroupCounts(us, old, new, p, states)
<1> USE DEF GroupGoes, GroupCounts, Among
<1> DEFINE A == {u \in Units : unit[u].loc = p /\ unit[u].state \in states}
           B == {u \in Units : unit'[u].loc = p /\ unit'[u].state \in states}
           C == A \ us
<1>1. InState(p, states) = Cardinality(A) /\ InState(p, states)' = Cardinality(B)
  BY DEF InState
<1>2. IsFiniteSet(us) /\ IsFiniteSet(A) /\ IsFiniteSet(B) /\ IsFiniteSet(C)
  <2>1. us \in SUBSET Units /\ A \in SUBSET Units /\ B \in SUBSET Units /\ C \in SUBSET Units
    OBVIOUS
  <2> QED BY <2>1, FS_Subset
<1>3. C \cap us = {} /\ C = B \ us
  OBVIOUS
<1>4. /\ A = IF old.loc = p /\ old.state \in states THEN C \cup us ELSE C
      /\ B = IF new.loc = p /\ new.state \in states THEN C \cup us ELSE C
  OBVIOUS
<1> HIDE DEF A, B, C
<1>5. Cardinality(C \cup us) = Cardinality(C) + Cardinality(us)
  <2>1. Cardinality(C \cup us)
          = Cardinality(C) + Cardinality(us) - Cardinality(C \cap us)
    BY <1>2, FS_Union
  <2>2. Cardinality(C \cap us) = 0
    BY <1>3, FS_EmptySet
  <2>3. Cardinality(C) \in Nat /\ Cardinality(us) \in Nat
    BY <1>2, FS_CardinalityType
  <2> QED BY <2>1, <2>2, <2>3
<1>6. /\ Cardinality(A) \in Nat /\ Cardinality(B) \in Nat
      /\ Cardinality(C) \in Nat /\ Cardinality(us) \in Nat
  BY <1>2, FS_CardinalityType
<1> QED BY <1>1, <1>4, <1>5, <1>6

\* The drift makes up for what a movement of n pieces and k units whose record
\* changes from old to new put apart, bucket by bucket.
Balanced(from, to, n, old, new, k) ==
    \A p \in Places :
        /\ drift'[p]["on_hand"]
             + Share(from, p, "on_hand", n) + Share(from, p, "reserved", n)
             + Among(new, p, {"in_stock"}, k)
           = drift[p]["on_hand"]
             + Share(to, p, "on_hand", n) + Share(to, p, "reserved", n)
             + Among(old, p, {"in_stock"}, k)
        /\ drift'[p]["in_transit"]
             + Share(from, p, "in_transit", n) + Among(new, p, {"in_transit"}, k)
           = drift[p]["in_transit"]
             + Share(to, p, "in_transit", n) + Among(old, p, {"in_transit"}, k)
        /\ drift'[p]["damaged"]
             + Share(from, p, "damaged", n) + Among(new, p, {"in_repair", "damaged"}, k)
           = drift[p]["damaged"]
             + Share(to, p, "damaged", n) + Among(old, p, {"in_repair", "damaged"}, k)
        /\ drift'[p]["returned_pending"]
             + Share(from, p, "returned_pending", n) + Among(new, p, {"returned_pending"}, k)
           = drift[p]["returned_pending"]
             + Share(to, p, "returned_pending", n) + Among(old, p, {"returned_pending"}, k)

\* The buckets of the states of a unit that is in the house.
BucketsOf ==
    [in_stock |-> {"on_hand", "reserved"}, in_transit |-> {"in_transit"},
     in_repair |-> {"damaged"}, damaged |-> {"damaged"},
     returned_pending |-> {"returned_pending"}]

\* The side of a movement that says of the units what their record says.
Files(side, rec) ==
    IF rec.state \in DOMAIN BucketsOf
      THEN \E b \in BucketsOf[rec.state] : side = At(rec.loc, b)
      ELSE side = Nowhere

LEMMA SidesApart ==
    /\ \A p, q, b, c : At(p, b) = At(q, c) <=> p = q /\ b = c
    /\ \A p : \A b \in Bucket : At(p, b) # Nowhere
BY DEF At, Nowhere, Bucket

LEMMA ShareOfBucket ==
    ASSUME NEW side, NEW rec, Files(side, rec), NEW n \in Nat, NEW p
    PROVE  /\ Share(side, p, "on_hand", n) + Share(side, p, "reserved", n)
                = Among(rec, p, {"in_stock"}, n)
           /\ Share(side, p, "in_transit", n) = Among(rec, p, {"in_transit"}, n)
           /\ Share(side, p, "damaged", n) = Among(rec, p, {"in_repair", "damaged"}, n)
           /\ Share(side, p, "returned_pending", n) = Among(rec, p, {"returned_pending"}, n)
<1> USE DEF Among
<1>d. DOMAIN BucketsOf
        = {"in_stock", "in_transit", "in_repair", "damaged", "returned_pending"}
  BY DEF BucketsOf
<1>1. CASE rec.state \notin DOMAIN BucketsOf
  BY <1>1, <1>d, SidesApart DEF Files, Share, Bucket
<1>2. CASE rec.state \in DOMAIN BucketsOf
  <2>1. /\ rec.state \in {"in_stock", "in_transit", "in_repair", "damaged", "returned_pending"}
        /\ \E b \in BucketsOf[rec.state] : side = At(rec.loc, b)
    BY <1>2, <1>d DEF Files
  <2>2. CASE rec.state = "in_stock"
    BY <2>1, <2>2, SidesApart DEF BucketsOf, Share
  <2>3. CASE rec.state = "in_transit"
    BY <2>1, <2>3, SidesApart DEF BucketsOf, Share
  <2>4. CASE rec.state \in {"in_repair", "damaged"}
    BY <2>1, <2>4, SidesApart DEF BucketsOf, Share
  <2>5. CASE rec.state = "returned_pending"
    BY <2>1, <2>5, SidesApart DEF BucketsOf, Share
  <2> QED BY <2>1, <2>2, <2>3, <2>4, <2>5
<1> QED BY <1>1, <1>2

\* A movement of as many pieces as units, filed under what they were and what
\* they become, needs no drift.
LEMMA FiledBalances ==
    ASSUME drift \in [Places -> [Bucket -> Int]], drift' = drift, NEW n \in Nat,
           NEW from, NEW to, NEW old, NEW new, Files(from, old), Files(to, new)
    PROVE  Balanced(from, to, n, old, new, n)
<1> SUFFICES ASSUME NEW p \in Places
             PROVE  Balanced(from, to, n, old, new, n)!(p)
  BY DEF Balanced
<1>1. \A b \in {"on_hand", "in_transit", "damaged", "returned_pending"} :
        drift'[p][b] = drift[p][b] /\ drift[p][b] \in Int
  BY DEF Bucket
<1>2. /\ Share(from, p, "on_hand", n) + Share(from, p, "reserved", n)
           = Among(old, p, {"in_stock"}, n)
      /\ Share(from, p, "in_transit", n) = Among(old, p, {"in_transit"}, n)
      /\ Share(from, p, "damaged", n) = Among(old, p, {"in_repair", "damaged"}, n)
      /\ Share(from, p, "returned_pending", n) = Among(old, p, {"returned_pending"}, n)
  BY ShareOfBucket
<1>3. /\ Share(to, p, "on_hand", n) + Share(to, p, "reserved", n)
           = Among(new, p, {"in_stock"}, n)
      /\ Share(to, p, "in_transit", n) = Among(new, p, {"in_transit"}, n)
      /\ Share(to, p, "damaged", n) = Among(new, p, {"in_repair", "damaged"}, n)
      /\ Share(to, p, "returned_pending", n) = Among(new, p, {"returned_pending"}, n)
  BY ShareOfBucket
<1>4. /\ \A side, b : Share(side, p, b, n) \in Nat
      /\ \A rec, states : Among(rec, p, states, n) \in Nat
  BY DEF Share, Among
<1> QED BY ONLY <1>1, <1>2, <1>3, <1>4

\* What the drift makes up for keeps every bucket in agreement.
LEMMA MovementKeeps ==
    ASSUME UnitTypeOK, \A p \in Places : Agree(p),
           NEW us \in SUBSET Units, NEW old, NEW new,
           \A u \in us : unit[u] = old /\ unit'[u] = new,
           \A u \in Units \ us : unit'[u] = unit[u],
           NEW type, NEW approved, NEW n \in Nat,
           NEW from, IsSide(from),
           NEW to, IsSide(to),
           Post(Movement(type, n, from, to, approved)),
           drift' \in [Places -> [Bucket -> Int]],
           Balanced(from, to, n, old, new, Cardinality(us))
    PROVE  unitLevel' \in [Places -> [Bucket -> Nat]] /\ \A p \in Places : Agree(p)'
<1> DEFINE m == Cardinality(us)
<1>n. m \in Nat
  <2>1. IsFiniteSet(us)
    BY FS_Subset
  <2> QED BY <2>1, FS_CardinalityType
<1>b. Balanced(from, to, n, old, new, m)
  OBVIOUS
<1> HIDE DEF m
<1>1. /\ unitLevel' \in [Places -> [Bucket -> Nat]]
      /\ \A p \in Places, b \in Bucket :
           unitLevel'[p][b] + Share(from, p, b, n) = unitLevel[p][b] + Share(to, p, b, n)
  <2>1. LevelsMove(from, to, n)
    BY PostedLevels
  <2> QED BY <2>1 DEF LevelsMove
<1>2. ASSUME NEW p, NEW states
      PROVE  /\ InState(p, states)' + Among(old, p, states, m)
                = InState(p, states) + Among(new, p, states, m)
             /\ InState(p, states) \in Nat /\ InState(p, states)' \in Nat
  <2>1. us \in SUBSET Units /\ GroupGoes(us, old, new)
    BY DEF GroupGoes
  <2>2. GroupCounts(us, old, new, p, states)
    BY ONLY <2>1, GroupMoves
  <2> QED BY <2>2 DEF m, GroupCounts
<1>3. ASSUME NEW p \in Places
      PROVE  Agree(p)'
  <2> DEFINE f(b) == Share(from, p, b, n)
             t(b) == Share(to, p, b, n)
             x(b) == unitLevel[p][b]
             y(b) == unitLevel'[p][b]
             c(b) == drift[p][b]
             d(b) == drift'[p][b]
             i(S) == InState(p, S)
             j(S) == InState(p, S)'
             k(S) == Among(old, p, S, m)
             l(S) == Among(new, p, S, m)
             Shelf == {"in_stock"}
             Road == {"in_transit"}
             Bench == {"in_repair", "damaged"}
             Back == {"returned_pending"}
  <2>1. \A b \in {"on_hand", "reserved", "in_transit", "damaged", "returned_pending"} :
          /\ y(b) + f(b) = x(b) + t(b)
          /\ x(b) \in Nat /\ y(b) \in Nat /\ f(b) \in Nat /\ t(b) \in Nat
          /\ c(b) \in Int /\ d(b) \in Int
    BY <1>1 DEF UnitTypeOK, Share, Bucket
  <2>2. /\ d("on_hand") + f("on_hand") + f("reserved") + l(Shelf)
             = c("on_hand") + t("on_hand") + t("reserved") + k(Shelf)
        /\ d("in_transit") + f("in_transit") + l(Road) = c("in_transit") + t("in_transit") + k(Road)
        /\ d("damaged") + f("damaged") + l(Bench) = c("damaged") + t("damaged") + k(Bench)
        /\ d("returned_pending") + f("returned_pending") + l(Back)
             = c("returned_pending") + t("returned_pending") + k(Back)
    BY <1>b DEF Balanced
  <2>3. \A S : j(S) + k(S) = i(S) + l(S) /\ i(S) \in Nat /\ j(S) \in Nat
    BY <1>2
  <2>4. \A S : k(S) \in Nat /\ l(S) \in Nat
    BY <1>n DEF Among
  <2>5. /\ x("on_hand") + x("reserved") = i(Shelf) + c("on_hand")
        /\ x("in_transit") = i(Road) + c("in_transit")
        /\ x("damaged") = i(Bench) + c("damaged")
        /\ x("returned_pending") = i(Back) + c("returned_pending")
    BY DEF Agree
  <2>6. /\ y("on_hand") + y("reserved") = j(Shelf) + d("on_hand")
        /\ y("in_transit") = j(Road) + d("in_transit")
        /\ y("damaged") = j(Bench) + d("damaged")
        /\ y("returned_pending") = j(Back) + d("returned_pending")
        => Agree(p)'
    BY DEF Agree
  <2> HIDE DEF f, t, x, y, c, d, i, j, k, l, Shelf, Road, Bench, Back
  <2>7. y("on_hand") + y("reserved") = j(Shelf) + d("on_hand")
    <3>1. /\ j(Shelf) + k(Shelf) = i(Shelf) + l(Shelf)
          /\ i(Shelf) \in Nat /\ j(Shelf) \in Nat /\ k(Shelf) \in Nat /\ l(Shelf) \in Nat
      BY ONLY <2>3, <2>4
    <3>2. /\ y("on_hand") + f("on_hand") = x("on_hand") + t("on_hand")
          /\ x("on_hand") \in Nat /\ y("on_hand") \in Nat /\ f("on_hand") \in Nat /\ t("on_hand") \in Nat
          /\ c("on_hand") \in Int /\ d("on_hand") \in Int
      BY ONLY <2>1
    <3>3. /\ y("reserved") + f("reserved") = x("reserved") + t("reserved")
          /\ x("reserved") \in Nat /\ y("reserved") \in Nat /\ f("reserved") \in Nat /\ t("reserved") \in Nat
          /\ c("reserved") \in Int /\ d("reserved") \in Int
      BY ONLY <2>1
    <3> QED BY ONLY <2>2, <2>5, <3>1, <3>2, <3>3
  <2>8. y("in_transit") = j(Road) + d("in_transit")
    <3> DEFINE x1 == x("in_transit") y1 == y("in_transit") f1 == f("in_transit") t1 == t("in_transit")
               c1 == c("in_transit") d1 == d("in_transit")
               i1 == i(Road) j1 == j(Road) k1 == k(Road) h1 == l(Road)
    <3>1. /\ j1 + k1 = i1 + h1
          /\ i1 \in Nat /\ j1 \in Nat /\ k1 \in Nat /\ h1 \in Nat
      BY ONLY <2>3, <2>4
    <3>2. /\ y1 + f1 = x1 + t1
          /\ x1 \in Nat /\ y1 \in Nat /\ f1 \in Nat /\ t1 \in Nat
          /\ c1 \in Int /\ d1 \in Int
      BY ONLY <2>1
    <3>3. d1 + f1 + h1 = c1 + t1 + k1 /\ x1 = i1 + c1
      BY <2>2, <2>5
    <3> HIDE DEF x1, y1, f1, t1, c1, d1, i1, j1, k1, h1
    <3>4. y1 = j1 + d1
      BY ONLY <3>1, <3>2, <3>3
    <3> QED BY <3>4 DEF y1, j1, d1
  <2>9. y("damaged") = j(Bench) + d("damaged")
    <3> DEFINE x1 == x("damaged") y1 == y("damaged") f1 == f("damaged") t1 == t("damaged")
               c1 == c("damaged") d1 == d("damaged")
               i1 == i(Bench) j1 == j(Bench) k1 == k(Bench) h1 == l(Bench)
    <3>1. /\ j1 + k1 = i1 + h1
          /\ i1 \in Nat /\ j1 \in Nat /\ k1 \in Nat /\ h1 \in Nat
      BY ONLY <2>3, <2>4
    <3>2. /\ y1 + f1 = x1 + t1
          /\ x1 \in Nat /\ y1 \in Nat /\ f1 \in Nat /\ t1 \in Nat
          /\ c1 \in Int /\ d1 \in Int
      BY ONLY <2>1
    <3>3. d1 + f1 + h1 = c1 + t1 + k1 /\ x1 = i1 + c1
      BY <2>2, <2>5
    <3> HIDE DEF x1, y1, f1, t1, c1, d1, i1, j1, k1, h1
    <3>4. y1 = j1 + d1
      BY ONLY <3>1, <3>2, <3>3
    <3> QED BY <3>4 DEF y1, j1, d1
  <2>10. y("returned_pending") = j(Back) + d("returned_pending")
    <3> DEFINE x1 == x("returned_pending") y1 == y("returned_pending") f1 == f("returned_pending") t1 == t("returned_pending")
               c1 == c("returned_pending") d1 == d("returned_pending")
               i1 == i(Back) j1 == j(Back) k1 == k(Back) h1 == l(Back)
    <3>1. /\ j1 + k1 = i1 + h1
          /\ i1 \in Nat /\ j1 \in Nat /\ k1 \in Nat /\ h1 \in Nat
      BY ONLY <2>3, <2>4
    <3>2. /\ y1 + f1 = x1 + t1
          /\ x1 \in Nat /\ y1 \in Nat /\ f1 \in Nat /\ t1 \in Nat
          /\ c1 \in Int /\ d1 \in Int
      BY ONLY <2>1
    <3>3. d1 + f1 + h1 = c1 + t1 + k1 /\ x1 = i1 + c1
      BY <2>2, <2>5
    <3> HIDE DEF x1, y1, f1, t1, c1, d1, i1, j1, k1, h1
    <3>4. y1 = j1 + d1
      BY ONLY <3>1, <3>2, <3>3
    <3> QED BY <3>4 DEF y1, j1, d1
  <2> QED BY <2>6, <2>7, <2>8, <2>9, <2>10
<1> QED BY <1>1, <1>3

-----------------------------------------------------------------------------
(* Serialized units: one lemma per action                                  *)

LEMMA UnitInitially ==
    ASSUME UnitInit
    PROVE  UnitInv
<1> USE DEF UnitInit
<1>1. UnitTypeOK
  BY DEF UnitTypeOK, NoStock, NoTransfer
<1>2. \A p, states : "absent" \notin states => InState(p, states) = 0
  <2> SUFFICES ASSUME NEW p, NEW states, "absent" \notin states
               PROVE  InState(p, states) = 0
    OBVIOUS
  <2>1. {u \in Units : unit[u].loc = p /\ unit[u].state \in states} = {}
    BY DEF Absent
  <2> QED BY <2>1, FS_EmptySet DEF InState
<1>3. ASSUME NEW p \in Places
      PROVE  Agree(p) /\ drift[p]["in_transit"] = 0 /\ drift[p]["damaged"] = 0
  BY <1>2 DEF Agree, NoStock, Bucket
<1>4. TransfersCarry /\ NeverDamaged
  BY DEF TransfersCarry, NoTransfer, NeverDamaged, Absent
<1> QED BY <1>1, <1>3, <1>4 DEF UnitInv, UnitsMatchLedger, DriftKnown

\* A step of one unit that is on no transfer.
LEMMA TransfersUntouched ==
    ASSUME UnitInv, NEW u \in Units, unit[u].state # "in_transit",
           \A v \in Units \ {u} : unit'[v] = unit[v], transfer' = transfer
    PROVE  TransfersCarry'
<1>1. \A t \in Transfers :
        /\ transfer[t].moved \in SUBSET Units
        /\ transfer[t].status = "dispatched" => u \notin transfer[t].moved
  <2> TAKE t \in Transfers
  <2>1. transfer[t].moved \in SUBSET Units
    BY DEF UnitInv, UnitTypeOK
  <2>2. ASSUME transfer[t].status = "dispatched", u \in transfer[t].moved PROVE FALSE
    <3>1. unit[u] = [state |-> "in_transit", loc |-> transfer[t].to]
      BY <2>2 DEF UnitInv, TransfersCarry
    <3> QED BY <3>1
  <2> QED BY <2>1, <2>2
<1> QED BY <1>1 DEF UnitInv, TransfersCarry

\* One unit changes its record and n pieces move: the drift makes up for the
\* difference.
LEMMA OneUnitKeeps ==
    ASSUME UnitInv, NEW u \in Units, NEW new \in [state : UnitState, loc : Places],
           new.state # "damaged",
           unit' = [unit EXCEPT ![u] = new], unit[u].state # "in_transit",
           UNCHANGED transfer,
           NEW n \in Nat, NEW type, NEW approved,
           NEW from, IsSide(from), NEW to, IsSide(to),
           Post(Movement(type, n, from, to, approved)),
           drift' \in [Places -> [Bucket -> Int]], DriftKnown',
           Balanced(from, to, n, unit[u], new, 1)
    PROVE  UnitInv'
<1> USE DEF UnitInv
<1> DEFINE us == {u}
           old == unit[u]
<1>1. us \in SUBSET Units /\ Cardinality(us) = 1
  BY FS_Singleton
<1>2. /\ \A v \in us : unit[v] = old /\ unit'[v] = new
      /\ \A v \in Units \ us : unit'[v] = unit[v]
  BY DEF UnitTypeOK
<1>3. /\ UnitTypeOK /\ \A p \in Places : Agree(p)
      /\ IsSide(from) /\ IsSide(to) /\ n \in Nat
      /\ Post(Movement(type, n, from, to, approved))
      /\ drift' \in [Places -> [Bucket -> Int]]
      /\ Balanced(from, to, n, old, new, 1)
  BY DEF UnitsMatchLedger
<1>t. TransfersCarry'
  BY <1>2, TransfersUntouched
<1>d. NeverDamaged'
  BY <1>2 DEF NeverDamaged
<1> HIDE DEF us, old
<1>4. Balanced(from, to, n, old, new, Cardinality(us))
  BY <1>1, <1>3
<1>5. unitLevel' \in [Places -> [Bucket -> Nat]] /\ \A p \in Places : Agree(p)'
  BY ONLY <1>1, <1>2, <1>3, <1>4, MovementKeeps
<1>6. UnitTypeOK'
  BY <1>5 DEF UnitTypeOK
<1> QED BY <1>5, <1>6, <1>t, <1>d DEF UnitsMatchLedger

\* Pieces move and no unit does.
LEMMA NoUnitKeeps ==
    ASSUME UnitInv, UNCHANGED <<unit, transfer>>,
           NEW n \in Nat, NEW type, NEW approved,
           NEW from, IsSide(from), NEW to, IsSide(to),
           Post(Movement(type, n, from, to, approved)),
           drift' \in [Places -> [Bucket -> Int]], DriftKnown',
           Balanced(from, to, n, Absent, Absent, 0)
    PROVE  UnitInv'
<1> USE DEF UnitInv
<1> DEFINE us == {}
<1>1. us \in SUBSET Units /\ Cardinality(us) = 0
  BY FS_EmptySet
<1>2. /\ \A v \in us : unit[v] = Absent /\ unit'[v] = Absent
      /\ \A v \in Units \ us : unit'[v] = unit[v]
  OBVIOUS
<1>3. /\ UnitTypeOK /\ \A p \in Places : Agree(p)
      /\ IsSide(from) /\ IsSide(to) /\ n \in Nat
      /\ Post(Movement(type, n, from, to, approved))
      /\ drift' \in [Places -> [Bucket -> Int]]
      /\ Balanced(from, to, n, Absent, Absent, 0)
  BY DEF UnitsMatchLedger
<1>t. TransfersCarry' /\ NeverDamaged'
  BY DEF TransfersCarry, NeverDamaged
<1> HIDE DEF us
<1>4. Balanced(from, to, n, Absent, Absent, Cardinality(us))
  BY <1>1, <1>3
<1>5. unitLevel' \in [Places -> [Bucket -> Nat]] /\ \A p \in Places : Agree(p)'
  BY ONLY <1>1, <1>2, <1>3, <1>4, MovementKeeps
<1>6. UnitTypeOK'
  BY <1>5 DEF UnitTypeOK
<1> QED BY <1>5, <1>6, <1>t DEF UnitsMatchLedger

\* A step that files one unit where its record says: the drift stays.
LEMMA FiledUnitKeeps ==
    ASSUME UnitInv, NEW u \in Units, NEW new \in [state : UnitState, loc : Places],
           new.state # "damaged",
           unit' = [unit EXCEPT ![u] = new], unit[u].state # "in_transit",
           UNCHANGED <<transfer, drift>>,
           NEW type, NEW approved, NEW from, IsSide(from), NEW to, IsSide(to),
           Post(Movement(type, 1, from, to, approved)),
           Files(from, unit[u]), Files(to, new)
    PROVE  UnitInv'
<1> DEFINE n == 1
<1>1. drift \in [Places -> [Bucket -> Int]] /\ DriftKnown /\ drift' = drift
  BY DEF UnitInv, UnitTypeOK, UnitsMatchLedger
<1>2. drift' \in [Places -> [Bucket -> Int]] /\ DriftKnown'
  BY <1>1 DEF DriftKnown
<1>3. Balanced(from, to, n, unit[u], new, n)
  BY <1>1, FiledBalances
<1> QED BY <1>2, <1>3, OneUnitKeeps

\* What the records of a unit can say of it.
LEMMA Where ==
    ASSUME UnitTypeOK, NEW u \in Units
    PROVE  unit[u] = Absent \/ (unit[u].state \in UnitState /\ unit[u].loc \in Places)
BY DEF UnitTypeOK

LEMMA SidesNamed ==
    /\ IsSide(Nowhere)
    /\ \A p \in Places : \A b \in Bucket : IsSide(At(p, b))
BY DEF IsSide

LEMMA ReceiveUnitKeeps ==
    ASSUME UnitInv, NEW u \in Units, NEW p \in Places, ReceiveUnit(u, p)
    PROVE  UnitInv'
<1> DEFINE new == [state |-> "in_stock", loc |-> p]
<1>1. /\ unit[u] = Absent /\ unit' = [unit EXCEPT ![u] = new]
      /\ Post(Movement("receipt", 1, Nowhere, At(p, "on_hand"), FALSE))
      /\ UNCHANGED <<transfer, drift>>
  BY DEF ReceiveUnit, Known, Moves
<1>3. /\ new \in [state : UnitState, loc : Places] /\ new.state # "damaged"
      /\ unit[u].state # "in_transit"
  BY <1>1 DEF UnitState, Absent
<1>4. Files(Nowhere, unit[u])
  BY <1>1 DEF Files, Absent, BucketsOf
<1>5. Files(At(p, "on_hand"), new)
  BY DEF Files, BucketsOf
<1>6. IsSide(Nowhere) /\ IsSide(At(p, "on_hand"))
  BY SidesNamed DEF Bucket
<1> HIDE DEF new
<1> QED BY <1>1, <1>3, <1>4, <1>5, <1>6, FiledUnitKeeps

LEMMA SellUnitKeeps ==
    ASSUME UnitInv, NEW u \in Units, NEW bucket \in {"on_hand", "reserved"},
           SellUnit(u, bucket)
    PROVE  UnitInv'
<1> DEFINE p == unit[u].loc
           new == [state |-> "sold", loc |-> p]
<1>1. /\ unit[u].state = "in_stock" /\ unit' = [unit EXCEPT ![u] = new]
      /\ Post(Movement("sale", 1, At(p, bucket), Nowhere, FALSE))
      /\ UNCHANGED <<transfer, drift>>
  BY DEF SellUnit, Moves
<1>p. p \in Places
  BY <1>1, Where DEF UnitInv, Absent
<1>3. /\ new \in [state : UnitState, loc : Places] /\ new.state # "damaged"
      /\ unit[u].state # "in_transit"
  BY <1>1, <1>p DEF UnitState
<1>4. Files(At(p, bucket), unit[u])
  BY <1>1 DEF Files, BucketsOf
<1>5. Files(Nowhere, new)
  BY DEF Files, BucketsOf
<1>6. IsSide(Nowhere) /\ IsSide(At(p, bucket))
  BY <1>p, SidesNamed DEF Bucket
<1> HIDE DEF new, p
<1> QED BY <1>1, <1>3, <1>4, <1>5, <1>6, FiledUnitKeeps

LEMMA ReturnToOriginKeeps ==
    ASSUME UnitInv, NEW u \in Units, ReturnToOrigin(u)
    PROVE  UnitInv'
<1> DEFINE p == unit[u].loc
           new == [state |-> "returned_pending", loc |-> p]
           to == At(p, "returned_pending")
<1>1. /\ unit[u].state = "sold" /\ unit' = [unit EXCEPT ![u] = new]
      /\ Post(Movement("return_in", 1, Nowhere, to, FALSE))
      /\ UNCHANGED <<transfer, drift>>
  BY DEF ReturnToOrigin, Moves
<1>p. p \in Places
  BY <1>1, Where DEF UnitInv, Absent
<1>3. /\ new \in [state : UnitState, loc : Places] /\ new.state # "damaged"
      /\ unit[u].state # "in_transit"
  BY <1>1, <1>p DEF UnitState
<1>4. Files(Nowhere, unit[u])
  BY <1>1 DEF Files, BucketsOf
<1>5. Files(to, new)
  BY DEF Files, BucketsOf
<1>6. IsSide(Nowhere) /\ IsSide(to)
  BY <1>p, SidesNamed DEF Bucket
<1> HIDE DEF new, p, to
<1> QED BY <1>1, <1>3, <1>4, <1>5, <1>6, FiledUnitKeeps

\* Writing n more at one bucket of a place.
LEMMA DriftedIs ==
    ASSUME NEW d \in [Places -> [Bucket -> Int]], NEW p \in Places, NEW b \in Bucket,
           NEW n \in Int
    PROVE  /\ Drifted(d, p, b, n) \in [Places -> [Bucket -> Int]]
           /\ \A q \in Places, c \in Bucket :
                Drifted(d, p, b, n)[q][c] = IF q = p /\ c = b THEN d[q][c] + n ELSE d[q][c]
BY DEF Drifted

\* The same, named.
DriftsTo(e, d, p, b, n) ==
    /\ e \in [Places -> [Bucket -> Int]]
    /\ \A q \in Places, c \in Bucket : e[q][c] = IF q = p /\ c = b THEN d[q][c] + n ELSE d[q][c]

\* The history after a posting that the rows did not go through.
LEMMA DriftsWritten ==
    \A d \in [Places -> [Bucket -> Int]], p \in Places, b \in Bucket, n \in Int :
      DriftsTo(Drifted(d, p, b, n), d, p, b, n)
BY DriftedIs DEF DriftsTo

\* A refund of a unit that was sold changes its row where it was sold and posts
\* n pieces at the place of the order; of any other unit, the pieces only.
LEMMA RefundUnitKeeps ==
    ASSUME UnitInv, NEW u \in Units, NEW p \in Places, NEW n \in Nat, RefundUnit(u, p, n)
    PROVE  UnitInv'
<1> DEFINE rack == "returned_pending"
           to == At(p, rack)
           more == Drifted(drift, p, rack, n)
<1>0. drift \in [Places -> [Bucket -> Int]] /\ DriftKnown
  BY DEF UnitInv, UnitTypeOK, UnitsMatchLedger
<1>1. /\ unit[u] # Absent
      /\ Post(Movement("return_in", n, Nowhere, to, TRUE))
      /\ unit' = [unit EXCEPT ![u] = TakenBack(u)]
      /\ drift' = IF unit[u].state = "sold" THEN Drifted(more, unit[u].loc, rack, -1)
                  ELSE more
      /\ transfer' = transfer
  BY DEF RefundUnit, Known
<1>m. /\ more \in [Places -> [Bucket -> Int]]
      /\ \A q \in Places, c \in Bucket :
           more[q][c] = IF q = p /\ c = rack THEN drift[q][c] + n ELSE drift[q][c]
  <2>1. rack \in Bucket /\ n \in Int
    BY DEF Bucket
  <2> QED BY ONLY <1>0, <2>1, p \in Places, DriftedIs
<1>2. IsSide(Nowhere) /\ IsSide(to)
  BY SidesNamed DEF Bucket
<1>3. \A q \in Places : /\ \A b \in Bucket \ {rack} : Share(to, q, b, n) = 0
                        /\ Share(to, q, rack, n) = IF q = p THEN n ELSE 0
                        /\ \A b \in Bucket : Share(Nowhere, q, b, n) = 0
  BY SidesApart DEF Share, Bucket
<1>k. unit[u].state \in UnitState /\ unit[u].loc \in Places
  BY <1>1, Where DEF UnitInv
<1> HIDE DEF more, to
<1>4. CASE unit[u].state = "sold"
  <2> DEFINE q == unit[u].loc
             new == [state |-> rack, loc |-> q]
  <2>1. TakenBack(u) = new
    <3>1. unit[u] \in [state : UnitState, loc : Places]
      BY <1>1 DEF UnitInv, UnitTypeOK
    <3> QED BY <1>4, <3>1 DEF TakenBack
  <2>2. /\ new \in [state : UnitState, loc : Places] /\ new.state # "damaged"
        /\ unit[u].state # "in_transit"
    BY <1>4, <1>k DEF UnitState
  <2>3. /\ drift' \in [Places -> [Bucket -> Int]]
        /\ \A r \in Places, c \in Bucket :
             drift'[r][c] = IF r = q /\ c = rack THEN more[r][c] + (-1) ELSE more[r][c]
    <3>1. rack \in Bucket /\ -1 \in Int /\ drift' = Drifted(more, q, rack, -1)
      BY <1>1, <1>4 DEF Bucket
    <3> DEFINE less == -1
    <3>2. /\ rack \in Bucket /\ less \in Int /\ drift' = Drifted(more, q, rack, less)
          /\ q \in Places /\ more \in [Places -> [Bucket -> Int]]
      BY <1>k, <1>m, <3>1
    <3> HIDE DEF less, q, rack
    <3>3. DriftsTo(Drifted(more, q, rack, less), more, q, rack, less)
      BY ONLY <3>2, DriftsWritten, Zenon
    <3>4. DriftsTo(drift', more, q, rack, less)
      BY ONLY <3>2, <3>3
    <3> QED BY <3>4 DEF less, q, rack, DriftsTo
  <2>4. DriftKnown'
    BY <1>0, <1>m, <2>3 DEF DriftKnown, Bucket
  <2>5. Balanced(Nowhere, to, n, unit[u], new, 1)
    BY <1>0, <1>3, <1>4, <1>m, <2>3 DEF Balanced, Among, Bucket
  <2> HIDE DEF new
  <2> QED BY <1>1, <1>2, <2>1, <2>2, <2>3, <2>4, <2>5, OneUnitKeeps
<1>5. CASE unit[u].state # "sold"
  <2>1. unit' = unit
    BY <1>1, <1>5 DEF TakenBack, UnitInv, UnitTypeOK
  <2>2. drift' = more
    BY <1>1, <1>5
  <2>3. drift' \in [Places -> [Bucket -> Int]] /\ DriftKnown'
    BY <1>0, <1>m, <2>2 DEF DriftKnown, Bucket
  <2>4. Balanced(Nowhere, to, n, Absent, Absent, 0)
    BY <1>0, <1>3, <1>m, <2>2 DEF Balanced, Among, Bucket
  <2> QED BY <1>1, <1>2, <2>1, <2>3, <2>4, NoUnitKeeps
<1> QED BY <1>4, <1>5

\* Pieces that enter the sales floor, or leave it, past every unit.
LEMMA QuantityKeeps ==
    ASSUME UnitInv, NEW p \in Places, NEW n \in Nat,
           RefundQuantity(p, n) \/ CountMore(p, n) \/ CountLess(p, n)
    PROVE  UnitInv'
<1> DEFINE floor == At(p, "on_hand")
<1>0. drift \in [Places -> [Bucket -> Int]] /\ DriftKnown
  BY DEF UnitInv, UnitTypeOK, UnitsMatchLedger
<1>1. UNCHANGED <<unit, transfer>>
  BY DEF RefundQuantity, CountMore, CountLess
<1>2. IsSide(Nowhere) /\ IsSide(floor)
  BY SidesNamed DEF Bucket
<1>3. \A q \in Places : /\ \A b \in Bucket \ {"on_hand"} : Share(floor, q, b, n) = 0
                        /\ Share(floor, q, "on_hand", n) = IF q = p THEN n ELSE 0
                        /\ \A b \in Bucket : Share(Nowhere, q, b, n) = 0
  BY SidesApart DEF Share, Bucket
<1> HIDE DEF floor
<1>4. CASE RefundQuantity(p, n) \/ CountMore(p, n)
  <2>1. /\ drift' = Drifted(drift, p, "on_hand", n)
        /\ \E type : Post(Movement(type, n, Nowhere, floor, TRUE))
    BY <1>4 DEF RefundQuantity, CountMore, floor
  <2>2. /\ drift' \in [Places -> [Bucket -> Int]]
        /\ \A q \in Places, c \in Bucket :
             drift'[q][c] = IF q = p /\ c = "on_hand" THEN drift[q][c] + n ELSE drift[q][c]
    <3>1. "on_hand" \in Bucket /\ n \in Int
      BY DEF Bucket
    <3> QED BY ONLY <1>0, <2>1, <3>1, p \in Places, DriftedIs
  <2>3. DriftKnown'
    BY <1>0, <2>2 DEF DriftKnown, Bucket
  <2>4. Balanced(Nowhere, floor, n, Absent, Absent, 0)
    BY <1>0, <1>3, <2>2 DEF Balanced, Among, Bucket
  <2> QED BY <1>1, <1>2, <2>1, <2>2, <2>3, <2>4, NoUnitKeeps
<1>5. CASE CountLess(p, n)
  <2>1. /\ drift' = Drifted(drift, p, "on_hand", -n)
        /\ Post(Movement("count_correction", n, floor, Nowhere, TRUE))
    BY <1>5 DEF CountLess, floor
  <2>2. /\ drift' \in [Places -> [Bucket -> Int]]
        /\ \A q \in Places, c \in Bucket :
             drift'[q][c] = IF q = p /\ c = "on_hand" THEN drift[q][c] + (-n) ELSE drift[q][c]
    <3>1. "on_hand" \in Bucket /\ -n \in Int
      BY DEF Bucket
    <3> QED BY ONLY <1>0, <2>1, <3>1, p \in Places, DriftedIs
  <2>3. DriftKnown'
    BY <1>0, <2>2 DEF DriftKnown, Bucket
  <2>4. Balanced(floor, Nowhere, n, Absent, Absent, 0)
    BY <1>0, <1>3, <2>2 DEF Balanced, Among, Bucket
  <2> QED BY <1>1, <1>2, <2>1, <2>2, <2>3, <2>4, NoUnitKeeps
<1> QED BY <1>4, <1>5

\* A unit of the stock is filed where it goes; one from the returns shelf drifts
\* out of its bucket, and the sales floor short of one.
LEMMA RepairOutKeeps ==
    ASSUME UnitInv, NEW u \in Units, RepairOut(u)
    PROVE  UnitInv'
<1> DEFINE p == unit[u].loc
           new == [state |-> "in_repair", loc |-> p]
           from == At(p, "on_hand")
           to == At(p, "damaged")
           rack == "returned_pending"
           less == Drifted(drift, p, "on_hand", -1)
<1>0. drift \in [Places -> [Bucket -> Int]] /\ DriftKnown
  BY DEF UnitInv, UnitTypeOK, UnitsMatchLedger
<1>1. /\ Known(u) /\ CanTransition(unit[u].state, "in_repair")
      /\ unit' = [unit EXCEPT ![u] = new]
      /\ Post(Movement("repair_out", 1, from, to, FALSE))
      /\ \/ unit[u].state = "in_stock" /\ drift' = drift
         \/ /\ unit[u].state # "in_stock"
            /\ drift' = Drifted(less, p, unit[u].state, 1)
      /\ transfer' = transfer
  BY DEF RepairOut, Moves
<1>p. p \in Places /\ unit[u].state \in UnitState
  BY <1>1, Where DEF UnitInv, Known
<1>s. unit[u].state \in {"in_stock", "returned_pending"}
  BY <1>1, <1>p DEF CanTransition, UnitTransitions, UnitState, UnitInv, NeverDamaged
<1>3. /\ new \in [state : UnitState, loc : Places] /\ new.state # "damaged"
      /\ unit[u].state # "in_transit"
  BY <1>p, <1>s DEF UnitState
<1>6. IsSide(from) /\ IsSide(to)
  BY <1>p, SidesNamed DEF Bucket
<1>7. CASE unit[u].state = "in_stock"
  <2>1. Files(from, unit[u]) /\ Files(to, new)
    BY <1>7 DEF Files, BucketsOf
  <2>2. UNCHANGED <<transfer, drift>>
    BY <1>1, <1>7
  <2> HIDE DEF new, p, from, to
  <2> QED BY <1>1, <1>3, <1>6, <2>1, <2>2, FiledUnitKeeps
<1>8. CASE unit[u].state = rack
  <2>1. drift' = Drifted(less, p, rack, 1)
    BY <1>1, <1>8
  <2>2. /\ less \in [Places -> [Bucket -> Int]]
        /\ \A q \in Places, c \in Bucket :
             less[q][c] = IF q = p /\ c = "on_hand" THEN drift[q][c] + (-1) ELSE drift[q][c]
    <3>1. "on_hand" \in Bucket /\ -1 \in Int
      BY DEF Bucket
    <3> DEFINE minus == -1
    <3>2. minus \in Int /\ less = Drifted(drift, p, "on_hand", minus)
      OBVIOUS
    <3> HIDE DEF minus, less
    <3>3. /\ less \in [Places -> [Bucket -> Int]]
          /\ \A q \in Places, c \in Bucket :
               less[q][c] = IF q = p /\ c = "on_hand" THEN drift[q][c] + minus
                            ELSE drift[q][c]
      BY ONLY <1>0, <1>p, <3>1, <3>2, DriftedIs
    <3> QED BY <3>3 DEF minus
  <2> HIDE DEF less
  <2>3. /\ drift' \in [Places -> [Bucket -> Int]]
        /\ \A q \in Places, c \in Bucket :
             drift'[q][c] = IF q = p /\ c = rack THEN less[q][c] + 1 ELSE less[q][c]
    <3>1. rack \in Bucket /\ 1 \in Int
      BY DEF Bucket
    <3> HIDE DEF rack, p
    <3>2. DriftsTo(Drifted(less, p, rack, 1), less, p, rack, 1)
      BY ONLY <1>p, <2>2, <3>1, DriftsWritten, Zenon
    <3>3. DriftsTo(drift', less, p, rack, 1)
      BY ONLY <2>1, <3>2
    <3> QED BY <3>3 DEF DriftsTo
  <2>4. DriftKnown'
    BY <1>0, <2>2, <2>3 DEF DriftKnown, Bucket
  <2>5. \A q \in Places :
          /\ \A b \in Bucket \ {"on_hand"} : Share(from, q, b, 1) = 0
          /\ Share(from, q, "on_hand", 1) = IF q = p THEN 1 ELSE 0
          /\ \A b \in Bucket \ {"damaged"} : Share(to, q, b, 1) = 0
          /\ Share(to, q, "damaged", 1) = IF q = p THEN 1 ELSE 0
    BY SidesApart DEF Share, Bucket
  <2> HIDE DEF from, to
  <2>6. Balanced(from, to, 1, unit[u], new, 1)
    BY <1>0, <1>8, <2>2, <2>3, <2>5 DEF Balanced, Among, Bucket
  <2> HIDE DEF new, p
  <2> QED BY <1>1, <1>3, <1>6, <2>3, <2>4, <2>6, OneUnitKeeps
<1> QED BY <1>s, <1>7, <1>8

LEMMA RepairInKeeps ==
    ASSUME UnitInv, NEW u \in Units, RepairIn(u)
    PROVE  UnitInv'
<1> DEFINE p == unit[u].loc
           new == [state |-> "in_stock", loc |-> p]
           from == At(p, "damaged")
           to == At(p, "on_hand")
<1>1. /\ unit[u].state = "in_repair" /\ unit' = [unit EXCEPT ![u] = new]
      /\ Post(Movement("repair_in", 1, from, to, FALSE))
      /\ UNCHANGED <<transfer, drift>>
  BY DEF RepairIn, Repaired, Moves
<1>p. p \in Places
  BY <1>1, Where DEF UnitInv, Absent
<1>3. /\ new \in [state : UnitState, loc : Places] /\ new.state # "damaged"
      /\ unit[u].state # "in_transit"
  BY <1>1, <1>p DEF UnitState
<1>4. Files(from, unit[u])
  BY <1>1 DEF Files, BucketsOf
<1>5. Files(to, new)
  BY DEF Files, BucketsOf
<1>6. IsSide(from) /\ IsSide(to)
  BY <1>p, SidesNamed DEF Bucket
<1> HIDE DEF new, p, from, to
<1> QED BY <1>1, <1>3, <1>4, <1>5, <1>6, FiledUnitKeeps

\* A reservation, or its release, names no unit: it moves a quantity from one
\* bucket of the shelf to the other.
LEMMA ShelfKeeps ==
    ASSUME UnitInv, NEW p \in Places, UNCHANGED <<unit, transfer, drift>>,
           NEW b \in {"on_hand", "reserved"}, NEW c \in {"on_hand", "reserved"}, b # c,
           NEW type, NEW approved, Post(Movement(type, 1, At(p, b), At(p, c), approved))
    PROVE  UnitInv'
<1> DEFINE from == At(p, b)
           to == At(p, c)
<1>0. drift \in [Places -> [Bucket -> Int]] /\ DriftKnown
  BY DEF UnitInv, UnitTypeOK, UnitsMatchLedger
<1>1. drift' \in [Places -> [Bucket -> Int]] /\ DriftKnown'
  BY <1>0 DEF DriftKnown
<1>2. IsSide(from) /\ IsSide(to)
  BY SidesNamed DEF Bucket
<1>3. \A q \in Places :
        /\ Share(from, q, "on_hand", 1) + Share(from, q, "reserved", 1)
             = (IF q = p THEN 1 ELSE 0)
        /\ Share(to, q, "on_hand", 1) + Share(to, q, "reserved", 1)
             = (IF q = p THEN 1 ELSE 0)
        /\ \A d \in {"in_transit", "damaged", "returned_pending"} :
             Share(from, q, d, 1) = 0 /\ Share(to, q, d, 1) = 0
        /\ \A d \in {"on_hand", "reserved"} :
             Share(from, q, d, 1) \in Nat /\ Share(to, q, d, 1) \in Nat
  BY SidesApart DEF Share
<1>4. Post(Movement(type, 1, from, to, approved))
  OBVIOUS
<1> HIDE DEF from, to
<1>5. Balanced(from, to, 1, Absent, Absent, 0)
  BY <1>0, <1>3 DEF Balanced, Among, Bucket
<1> QED BY <1>1, <1>2, <1>4, <1>5, NoUnitKeeps

LEMMA ReservationKeeps ==
    ASSUME UnitInv, NEW p \in Places, ReserveOne(p) \/ ReleaseOne(p)
    PROVE  UnitInv'
<1>1. UNCHANGED <<unit, transfer, drift>>
  BY DEF ReserveOne, ReleaseOne
<1>2. CASE ReserveOne(p)
  <2>1. Post(Movement("reservation", 1, At(p, "on_hand"), At(p, "reserved"), FALSE))
    BY <1>2 DEF ReserveOne
  <2> QED BY <1>1, <2>1, ShelfKeeps
<1>3. CASE ReleaseOne(p)
  <2>1. Post(Movement("release", 1, At(p, "reserved"), At(p, "on_hand"), FALSE))
    BY <1>3 DEF ReleaseOne
  <2> QED BY <1>1, <2>1, ShelfKeeps
<1> QED BY <1>2, <1>3

LEMMA DispatchTransferKeeps ==
    ASSUME UnitInv, NEW t \in Transfers, NEW p \in Places, NEW q \in Places,
           NEW us \in SUBSET Units, DispatchTransfer(t, p, q, us)
    PROVE  UnitInv'
<1> USE DEF UnitInv
<1> DEFINE old == [state |-> "in_stock", loc |-> p]
           new == [state |-> "in_transit", loc |-> q]
           from == At(p, "on_hand")
           to == At(q, "in_transit")
<1>1. /\ \A u \in us : unit[u] = old
      /\ unit' = [u \in Units |-> IF u \in us THEN new ELSE unit[u]]
      /\ Post(Movement("transfer_out", Cardinality(us), from, to, FALSE))
      /\ transfer' = [transfer EXCEPT ![t] = [status |-> "dispatched", to |-> q, moved |-> us]]
      /\ drift' = drift
  BY DEF DispatchTransfer, DispatchedUnit
<1>2. /\ \A u \in us : unit[u] = old /\ unit'[u] = new
      /\ \A u \in Units \ us : unit'[u] = unit[u]
  BY <1>1
<1>3. /\ Files(from, old) /\ Files(to, new)
      /\ IsSide(from) /\ IsSide(to)
  BY SidesNamed DEF Files, Bucket, BucketsOf
<1>4. /\ UnitTypeOK /\ us \in SUBSET Units /\ Cardinality(us) \in Nat
      /\ \A r \in Places : Agree(r)
      /\ drift \in [Places -> [Bucket -> Int]] /\ DriftKnown
  <2>1. IsFiniteSet(us)
    BY FS_Subset
  <2> QED BY <2>1, FS_CardinalityType DEF UnitsMatchLedger, UnitTypeOK
<1>n. NeverDamaged'
  BY <1>2 DEF NeverDamaged
<1>5. unit' \in [Units -> [state : UnitState, loc : Places] \cup {Absent}]
  BY <1>1 DEF UnitTypeOK, UnitState
<1>6. transfer' \in [Transfers -> [status : {"none", "dispatched", "received"},
                                   to : Places \cup {"nowhere"}, moved : SUBSET Units]]
  BY <1>1 DEF UnitTypeOK
<1>7. TransfersCarry'
  <2>1. /\ transfer'[t] = [status |-> "dispatched", to |-> q, moved |-> us]
        /\ \A s \in Transfers \ {t} : transfer'[s] = transfer[s]
    BY <1>1 DEF UnitTypeOK
  <2>2. \A s \in Transfers : transfer[s].status = "dispatched" =>
          transfer[s].moved \in SUBSET Units /\ us \cap transfer[s].moved = {}
    <3> SUFFICES ASSUME NEW s \in Transfers, transfer[s].status = "dispatched"
                 PROVE  transfer[s].moved \in SUBSET Units /\ us \cap transfer[s].moved = {}
      OBVIOUS
    <3>1. transfer[s].moved \in SUBSET Units
      BY DEF UnitTypeOK
    <3>2. ASSUME NEW u \in us, u \in transfer[s].moved PROVE FALSE
      <4>1. unit[u] = [state |-> "in_transit", loc |-> transfer[s].to]
        BY <3>2 DEF TransfersCarry
      <4>2. unit[u] = [state |-> "in_stock", loc |-> p]
        BY <1>1
      <4> QED BY <4>1, <4>2
    <3> QED BY <3>1, <3>2
  <2>3. \A s \in Transfers : transfer'[s].status = "dispatched" =>
          /\ transfer'[s].to \in Places
          /\ \A u \in transfer'[s].moved :
               unit'[u] = [state |-> "in_transit", loc |-> transfer'[s].to]
    <3> SUFFICES ASSUME NEW s \in Transfers, transfer'[s].status = "dispatched"
                 PROVE  /\ transfer'[s].to \in Places
                        /\ \A u \in transfer'[s].moved :
                             unit'[u] = [state |-> "in_transit", loc |-> transfer'[s].to]
      OBVIOUS
    <3>1. CASE s = t
      BY <1>2, <2>1, <3>1
    <3>2. CASE s # t
      <4>1. /\ transfer'[s] = transfer[s] /\ transfer[s].to \in Places
            /\ transfer[s].moved \in SUBSET Units /\ us \cap transfer[s].moved = {}
            /\ \A u \in transfer[s].moved :
                 unit[u] = [state |-> "in_transit", loc |-> transfer[s].to]
        BY <2>1, <2>2, <3>2 DEF TransfersCarry
      <4> QED BY <1>2, <4>1
    <3> QED BY <3>1, <3>2
  <2>4. \A s, r \in Transfers :
          /\ s # r
          /\ transfer'[s].status = "dispatched" /\ transfer'[r].status = "dispatched"
          => transfer'[s].moved \cap transfer'[r].moved = {}
    BY <2>1, <2>2 DEF TransfersCarry
  <2> QED BY <2>3, <2>4 DEF TransfersCarry
<1> HIDE DEF old, new, from, to
<1>a. Balanced(from, to, Cardinality(us), old, new, Cardinality(us))
  BY ONLY <1>1, <1>3, <1>4, FiledBalances
<1>b. drift' \in [Places -> [Bucket -> Int]] /\ DriftKnown'
  BY ONLY <1>1, <1>4 DEF DriftKnown
<1>8. unitLevel' \in [Places -> [Bucket -> Nat]] /\ \A r \in Places : Agree(r)'
  BY ONLY <1>1, <1>2, <1>3, <1>4, <1>a, <1>b, MovementKeeps
<1>9. UnitTypeOK'
  BY <1>1, <1>5, <1>6, <1>8, <1>b DEF UnitTypeOK
<1> QED BY <1>7, <1>8, <1>9, <1>b, <1>n DEF UnitsMatchLedger

\* Every unit that was sent is still on its way: nothing else moves it.
LEMMA ReceiveTransferKeeps ==
    ASSUME UnitInv, NEW t \in Transfers, ReceiveTransfer(t)
    PROVE  UnitInv'
<1> USE DEF UnitInv
<1> DEFINE q == transfer[t].to
           us == transfer[t].moved
           old == [state |-> "in_transit", loc |-> q]
           new == [state |-> "in_stock", loc |-> q]
           from == At(q, "in_transit")
           to == At(q, "on_hand")
<1>0. /\ transfer[t].status = "dispatched"
      /\ Post(Movement("transfer_in", Cardinality(us), from, to, FALSE))
      /\ unit' = [u \in Units |-> IF u \in us /\ unit[u].state = "in_transit" THEN new
                                  ELSE unit[u]]
      /\ transfer' = [transfer EXCEPT ![t].status = "received"]
      /\ drift' = drift
  BY DEF ReceiveTransfer
<1>1. us \in SUBSET Units /\ q \in Places /\ \A u \in us : unit[u] = old
  BY <1>0 DEF UnitTypeOK, TransfersCarry
<1>2. /\ \A u \in us : unit[u] = old /\ unit'[u] = new
      /\ \A u \in Units \ us : unit'[u] = unit[u]
  BY <1>0, <1>1
<1>3. /\ Files(from, old) /\ Files(to, new)
      /\ IsSide(from) /\ IsSide(to)
  BY <1>1, SidesNamed DEF Files, Bucket, BucketsOf
<1>4. /\ UnitTypeOK /\ us \in SUBSET Units /\ Cardinality(us) \in Nat
      /\ \A r \in Places : Agree(r)
      /\ drift \in [Places -> [Bucket -> Int]] /\ DriftKnown
  <2>1. IsFiniteSet(us)
    BY <1>1, FS_Subset
  <2> QED BY <1>1, <2>1, FS_CardinalityType DEF UnitsMatchLedger, UnitTypeOK
<1>n. NeverDamaged'
  BY <1>2 DEF NeverDamaged
<1>5. unit' \in [Units -> [state : UnitState, loc : Places] \cup {Absent}]
  BY <1>0, <1>1 DEF UnitTypeOK, UnitState
<1>6. transfer' \in [Transfers -> [status : {"none", "dispatched", "received"},
                                   to : Places \cup {"nowhere"}, moved : SUBSET Units]]
  BY <1>0 DEF UnitTypeOK
<1>7. TransfersCarry'
  <2>1. /\ transfer'[t].status = "received"
        /\ \A s \in Transfers \ {t} : transfer'[s] = transfer[s]
    BY <1>0 DEF UnitTypeOK
  <2>2. \A s \in Transfers : transfer'[s].status = "dispatched" =>
          /\ s # t /\ transfer'[s] = transfer[s] /\ transfer[s].to \in Places
          /\ transfer[s].moved \in SUBSET Units /\ us \cap transfer[s].moved = {}
          /\ \A u \in transfer[s].moved :
               unit[u] = [state |-> "in_transit", loc |-> transfer[s].to]
    BY <1>0, <2>1 DEF TransfersCarry, UnitTypeOK
  <2>3. \A s \in Transfers : transfer'[s].status = "dispatched" =>
          \A u \in transfer[s].moved :
             unit'[u] = [state |-> "in_transit", loc |-> transfer[s].to]
    BY <1>2, <2>2
  <2> QED BY <2>1, <2>2, <2>3 DEF TransfersCarry
<1> HIDE DEF q, us, old, new, from, to
<1>a. Balanced(from, to, Cardinality(us), old, new, Cardinality(us))
  BY ONLY <1>0, <1>3, <1>4, FiledBalances
<1>b. drift' \in [Places -> [Bucket -> Int]] /\ DriftKnown'
  BY ONLY <1>0, <1>4 DEF DriftKnown
<1>8. unitLevel' \in [Places -> [Bucket -> Nat]] /\ \A r \in Places : Agree(r)'
  BY ONLY <1>0, <1>2, <1>3, <1>4, <1>a, <1>b, MovementKeeps
<1>9. UnitTypeOK'
  BY <1>0, <1>5, <1>6, <1>8, <1>b DEF UnitTypeOK
<1> QED BY <1>7, <1>8, <1>9, <1>b, <1>n DEF UnitsMatchLedger

LEMMA UnitStep ==
    ASSUME UnitInv, [UnitNext]_unitVars
    PROVE  UnitInv'
<1>1. CASE \E u \in Units, p \in Places : ReceiveUnit(u, p)
  BY <1>1, ReceiveUnitKeeps
<1>2. CASE \E u \in Units, bucket \in {"on_hand", "reserved"} : SellUnit(u, bucket)
  BY <1>2, SellUnitKeeps
<1>3. CASE \E u \in Units : ReturnToOrigin(u)
  BY <1>3, ReturnToOriginKeeps
<1>r. CASE \E u \in Units, p \in Places, n \in 1..MaxDrift : RefundUnit(u, p, n)
  BY <1>r, RefundUnitKeeps
<1>q. CASE \E p \in Places, n \in 1..MaxDrift :
             RefundQuantity(p, n) \/ CountMore(p, n) \/ CountLess(p, n)
  BY <1>q, QuantityKeeps
<1>4. CASE \E u \in Units : RepairOut(u)
  BY <1>4, RepairOutKeeps
<1>5. CASE \E u \in Units : RepairIn(u)
  BY <1>5, RepairInKeeps
<1>6. CASE \E p \in Places : ReserveOne(p) \/ ReleaseOne(p)
  BY <1>6, ReservationKeeps
<1>7. CASE \E t \in Transfers, p, q \in Places, us \in SUBSET Units :
             DispatchTransfer(t, p, q, us)
  BY <1>7, DispatchTransferKeeps
<1>8. CASE \E t \in Transfers : ReceiveTransfer(t)
  BY <1>8, ReceiveTransferKeeps
<1>9. CASE UNCHANGED unitVars
  <2>1. UNCHANGED <<unit, unitLevel, transfer, drift>>
    BY <1>9 DEF unitVars
  <2>2. UnitTypeOK' /\ NeverDamaged' /\ DriftKnown'
    BY <2>1 DEF UnitInv, UnitTypeOK, NeverDamaged, UnitsMatchLedger, DriftKnown
  <2>3. \A p \in Places : Agree(p)' = Agree(p)
    BY <2>1 DEF Agree, InState
  <2>6. TransfersCarry'
    BY <2>1 DEF UnitInv, TransfersCarry
  <2> QED BY <2>2, <2>3, <2>6 DEF UnitInv, UnitsMatchLedger
<1> QED BY <1>1, <1>2, <1>3, <1>r, <1>q, <1>4, <1>5, <1>6, <1>7, <1>8, <1>9 DEF UnitNext

\* For any number of phones, locations and transfers: every bucket of every
\* location holds the phones whose rows say so plus what refunds, counts and
\* repairs from the returns shelf are known to have put there past the rows.
THEOREM UnitsFollowLedger == UnitSpec => []UnitsMatchLedger
<1>1. UnitInit => UnitInv
  BY UnitInitially
<1>2. UnitInv /\ [UnitNext]_unitVars => UnitInv'
  BY UnitStep
<1>3. UnitInv => UnitsMatchLedger
  BY DEF UnitInv
<1> QED BY <1>1, <1>2, <1>3, PTL DEF UnitSpec

\* No bucket of the ledger becomes negative while phones move, and every phone,
\* transfer and number stays in its type.
THEOREM UnitTypeCorrect == UnitSpec => []UnitTypeOK
<1>1. UnitInit => UnitInv
  BY UnitInitially
<1>2. UnitInv /\ [UnitNext]_unitVars => UnitInv'
  BY UnitStep
<1>3. UnitInv => UnitTypeOK
  BY DEF UnitInv
<1> QED BY <1>1, <1>2, <1>3, PTL DEF UnitSpec

-----------------------------------------------------------------------------
(* Stock room: movements                                                   *)

USE StockRoomAssumption
USE DEF Staff, Adjusters, Approvers

RoomPlaces == {Shop, Depot}
RoomLevels == [RoomPlaces -> [Bucket -> Nat]]

\* The debit of a movement the ledger accepts leaves no bucket negative.
LEMMA MovedLevels ==
    ASSUME NEW stock \in RoomLevels, NEW m, m.qty \in Nat,
           m.from = Nowhere \/ (m.from.place \in RoomPlaces /\ m.from.bucket \in Bucket),
           m.to = Nowhere \/ (m.to.place \in RoomPlaces /\ m.to.bucket \in Bucket),
           CanPost(stock, m)
    PROVE  Posted(stock, m) \in RoomLevels
<1>1. Debited(stock, m) \in RoomLevels
  <2>1. CASE m.from = Nowhere
    BY <2>1 DEF Debited
  <2>2. CASE m.from # Nowhere
    <3>1. stock[m.from.place][m.from.bucket] - m.qty \in Nat
      BY <2>2 DEF CanPost, RoomLevels
    <3> QED BY <2>2, <3>1 DEF Debited, RoomLevels
  <2> QED BY <2>1, <2>2
<1>2. \A levels \in RoomLevels : Credited(levels, m) \in RoomLevels
  BY DEF Credited, RoomLevels
<1> QED BY <1>1, <1>2 DEF Posted

\* A movement of staff names buckets of the shop or the depot.
LEMMA PostRoomLevels ==
    ASSUME level \in RoomLevels, NEW type, NEW qty \in Nat, NEW from, NEW to, NEW approved,
           from = Nowhere \/ (from.place \in RoomPlaces /\ from.bucket \in Bucket),
           to = Nowhere \/ (to.place \in RoomPlaces /\ to.bucket \in Bucket),
           PostRoom(Movement(type, qty, from, to, approved))
    PROVE  level' \in RoomLevels
  BY MovedLevels DEF PostRoom, Movement

LEMMA Sides ==
    /\ OnShelf.place \in RoomPlaces /\ OnShelf.bucket \in Bucket /\ OnShelf # Nowhere
    /\ \A place \in RoomPlaces, bucket \in Bucket :
         /\ At(place, bucket).place = place /\ At(place, bucket).bucket = bucket
         /\ At(place, bucket) # Nowhere
  BY DEF OnShelf, At, Nowhere, RoomPlaces, Bucket

-----------------------------------------------------------------------------
(* Stock room: the inductive invariant                                     *)

Entries == [qty : -1 .. MaxStock, booked : Nat, gap : Int]

CountRows ==
    [status : {"none", "open", "review", "posted", "review_rejected"},
     expected : Nat, counted : Entries, delta : Int]

AdjustmentRows ==
    [status : {"none", "pending", "approved", "rejected"},
     by : Adjusters \cup {"none"}, approver : Approvers \cup {"none"},
     qty : 0 .. MaxStock, from : Bucket, posts : Nat]

RowsOK ==
    /\ level \in RoomLevels
    /\ received \in 0 .. MaxStock
    /\ shelf \in 0 .. received
    /\ onWay \in 0 .. MaxStock
    /\ count \in [Counts -> CountRows]
    /\ entry \in [Counts -> Entries]
    /\ adjustment \in [Adjustments -> AdjustmentRows]

\* Whoever decided is not who asked; nothing is posted without a decision.
DecisionsKept ==
    \A a \in Adjustments :
        /\ adjustment[a].status # "none" => adjustment[a].by \in Adjusters
        /\ adjustment[a].status = "approved" =>
             adjustment[a].approver \in Approvers \ {adjustment[a].by}
        /\ adjustment[a].status # "approved" => adjustment[a].posts = 0
        /\ adjustment[a].posts <= 1

\* A count that waits for its approval was counted, and what was counted
\* differs from the ledger of that moment by the gap there was.
TallyTrue(tally) == tally # Uncounted => tally.gap = tally.qty - tally.booked

CountsTrue ==
    \A c \in Counts :
        /\ TallyTrue(entry[c]) /\ TallyTrue(count[c].counted)
        /\ count[c].status = "review" => count[c].counted # Uncounted

RoomInv == RowsOK /\ DecisionsKept /\ CountsTrue

LEMMA RoomInitially == RoomInit => RoomInv
<1> SUFFICES ASSUME RoomInit PROVE RoomInv
  OBVIOUS
<1>1. level \in RoomLevels
  BY DEF RoomInit, NoStock, RoomLevels, RoomPlaces
<1>2. Uncounted \in Entries
  BY DEF Uncounted, Tally, Entries
<1>3. NoCount \in CountRows
  BY <1>2 DEF NoCount, CountRows
<1>4. NoAdjustment \in AdjustmentRows
  BY DEF NoAdjustment, AdjustmentRows, Bucket
<1>5. RowsOK
  BY <1>1, <1>2, <1>3, <1>4 DEF RoomInit, RowsOK
<1>6. DecisionsKept
  BY DEF RoomInit, NoAdjustment, DecisionsKept
<1>7. CountsTrue
  BY DEF RoomInit, NoCount, CountsTrue, TallyTrue
<1> QED BY <1>5, <1>6, <1>7 DEF RoomInv

-----------------------------------------------------------------------------
(* Goods                                                                   *)

LEMMA GoodsMove ==
    ASSUME RoomInv, level' \in RoomLevels, received' \in 0 .. MaxStock,
           shelf' \in 0 .. received', onWay' \in 0 .. MaxStock,
           UNCHANGED <<count, entry, adjustment>>
    PROVE  RoomInv'
<1>1. RowsOK'
  BY DEF RoomInv, RowsOK
<1>2. DecisionsKept' /\ CountsTrue'
  BY DEF RoomInv, DecisionsKept, CountsTrue
<1> QED BY <1>1, <1>2 DEF RoomInv

LEMMA ReceiveInv == ASSUME RoomInv, Receive PROVE RoomInv'
<1>1. level' \in RoomLevels
  BY PostRoomLevels, Sides DEF RoomInv, RowsOK, Receive
<1> QED BY <1>1, GoodsMove DEF RoomInv, RowsOK, Receive

LEMMA SellInv == ASSUME RoomInv, Sell PROVE RoomInv'
<1>1. level' \in RoomLevels
  BY PostRoomLevels, Sides DEF RoomInv, RowsOK, Sell
<1> QED BY <1>1, GoodsMove DEF RoomInv, RowsOK, Sell

LEMMA StealInv == ASSUME RoomInv, Steal PROVE RoomInv'
  BY GoodsMove DEF RoomInv, RowsOK, Steal

LEMMA DispatchBulkInv ==
    ASSUME RoomInv, NEW qty \in 1 .. MaxStock, DispatchBulk(qty)
    PROVE  RoomInv'
<1>1. level' \in RoomLevels
  <2>1. At(Depot, "in_transit").place \in RoomPlaces /\ At(Depot, "in_transit").bucket \in Bucket
    BY DEF At, RoomPlaces, Bucket
  <2>2. PostRoom(Movement("transfer_out", qty, OnShelf, At(Depot, "in_transit"), FALSE))
    BY DEF DispatchBulk
  <2>3. qty \in Nat /\ level \in RoomLevels
    BY DEF RoomInv, RowsOK
  <2> QED BY <2>1, <2>2, <2>3, PostRoomLevels, Sides
<1> QED BY <1>1, GoodsMove DEF RoomInv, RowsOK, DispatchBulk

LEMMA ReceiveBulkInv == ASSUME RoomInv, ReceiveBulk PROVE RoomInv'
<1>1. level' \in RoomLevels
  <2>1. At(Depot, "in_transit").place \in RoomPlaces /\ At(Depot, "in_transit").bucket \in Bucket
        /\ At(Depot, "on_hand").place \in RoomPlaces /\ At(Depot, "on_hand").bucket \in Bucket
    BY DEF At, RoomPlaces, Bucket
  <2>2. onWay \in Nat
    BY DEF RoomInv, RowsOK
  <2> QED BY <2>1, <2>2, PostRoomLevels DEF RoomInv, RowsOK, ReceiveBulk
<1> QED BY <1>1, GoodsMove DEF RoomInv, RowsOK, ReceiveBulk

-----------------------------------------------------------------------------
(* Counts                                                                  *)

LEMMA CountsMove ==
    ASSUME RoomInv, level' \in RoomLevels, count' \in [Counts -> CountRows],
           entry' \in [Counts -> Entries], CountsTrue',
           UNCHANGED <<shelf, onWay, adjustment, received>>
    PROVE  RoomInv'
<1>1. RowsOK'
  BY DEF RoomInv, RowsOK
<1>2. DecisionsKept'
  BY DEF RoomInv, DecisionsKept
<1> QED BY <1>1, <1>2 DEF RoomInv

LEMMA CreateCountInv ==
    ASSUME RoomInv, NEW c \in Counts, CreateCount(c)
    PROVE  RoomInv'
<1>1. level[Shop]["on_hand"] \in Nat
  BY DEF RoomInv, RowsOK, RoomLevels, RoomPlaces, Bucket
<1>2. Uncounted \in Entries
  BY DEF Uncounted, Tally, Entries
<1>3. count' \in [Counts -> CountRows]
  <2> DEFINE row == [status |-> "open", expected |-> ExpectedNow,
                     counted |-> Uncounted, delta |-> 0]
  <2>1. row \in CountRows
    BY <1>1, <1>2 DEF CountRows, ExpectedNow
  <2>2. count' = [count EXCEPT ![c] = row]
    BY DEF CreateCount
  <2> HIDE DEF row
  <2> QED BY <2>1, <2>2 DEF RoomInv, RowsOK
<1>4. CountsTrue'
  BY DEF RoomInv, RowsOK, CountsTrue, TallyTrue, CreateCount, NoCount
<1> QED BY <1>3, <1>4, CountsMove DEF RoomInv, RowsOK, CreateCount

LEMMA RecordCheckInv ==
    ASSUME RoomInv, NEW c \in Counts, RecordCheck(c)
    PROVE  RoomInv'
<1> DEFINE tally == Tally(shelf, level[Shop]["on_hand"], Gap)
<1>1. level[Shop]["on_hand"] \in Nat
  BY DEF RoomInv, RowsOK, RoomLevels, RoomPlaces, Bucket
<1>2. tally \in Entries /\ TallyTrue(tally)
  BY <1>1 DEF RoomInv, RowsOK, Tally, Entries, Gap, TallyTrue
<1>3. entry' = [entry EXCEPT ![c] = tally]
  BY DEF RecordCheck
<1> HIDE DEF tally
<1>4. entry' \in [Counts -> Entries]
  BY <1>2, <1>3 DEF RoomInv, RowsOK
<1>5. CountsTrue'
  BY <1>2, <1>3 DEF RoomInv, RowsOK, CountsTrue, RecordCheck
<1> QED BY <1>4, <1>5, CountsMove DEF RoomInv, RowsOK, RecordCheck

LEMMA RecordWriteInv ==
    ASSUME RoomInv, NEW c \in Counts, RecordWrite(c)
    PROVE  RoomInv'
<1>1. Uncounted \in Entries
  BY DEF Uncounted, Tally, Entries
<1>2. count' \in [Counts -> CountRows] /\ entry' \in [Counts -> Entries]
  <2> DEFINE old == count[c]
             tally == entry[c]
             row == [old EXCEPT !.counted = tally]
  <2>1. old \in CountRows /\ tally \in Entries
    BY DEF RoomInv, RowsOK
  <2>2. row \in CountRows
    <3> HIDE DEF old, tally
    <3> QED BY <2>1 DEF CountRows
  <2>3. count' = [count EXCEPT ![c] = row] /\ entry' = [entry EXCEPT ![c] = Uncounted]
    BY DEF RoomInv, RowsOK, RecordWrite
  <2> HIDE DEF row
  <2> QED BY <1>1, <2>2, <2>3 DEF RoomInv, RowsOK
<1>3. TallyTrue(Uncounted)
  BY DEF TallyTrue
<1>4. CountsTrue'
  <2> SUFFICES ASSUME NEW x \in Counts
               PROVE  /\ TallyTrue(entry'[x]) /\ TallyTrue(count'[x].counted)
                      /\ count'[x].status = "review" => count'[x].counted # Uncounted
    BY DEF CountsTrue
  <2>1. CASE x = c
    <3>1. entry'[x] = Uncounted /\ count'[x].counted = entry[c] /\ entry[c] # Uncounted
      BY <2>1 DEF RoomInv, RowsOK, RecordWrite, CountRows
    <3> QED BY <1>3, <3>1 DEF RoomInv, CountsTrue
  <2>2. CASE x # c
    <3>1. entry'[x] = entry[x] /\ count'[x] = count[x]
      BY <2>2 DEF RoomInv, RowsOK, RecordWrite
    <3> QED BY <3>1 DEF RoomInv, CountsTrue
  <2> QED BY <2>1, <2>2
<1> QED BY <1>2, <1>4, CountsMove DEF RoomInv, RowsOK, RecordWrite

LEMMA SubmitCountInv ==
    ASSUME RoomInv, NEW c \in Counts, SubmitCount(c)
    PROVE  RoomInv'
<1>1. count[c].counted.qty - count[c].expected \in Int
  BY DEF RoomInv, RowsOK, CountRows, Entries
<1>2. count' \in [Counts -> CountRows]
  BY <1>1 DEF RoomInv, RowsOK, SubmitCount, CountRows
<1>3. \A x \in Counts : /\ count'[x].counted = count[x].counted
                        /\ count'[x].status = "review"
                             => x = c \/ count[x].status = "review"
  BY DEF RoomInv, RowsOK, SubmitCount, CountRows
<1>4. CountsTrue'
  BY <1>3 DEF RoomInv, CountsTrue, SubmitCount
<1> QED BY <1>2, <1>4, CountsMove DEF RoomInv, RowsOK, SubmitCount

LEMMA ApproveCountInv ==
    ASSUME RoomInv, NEW c \in Counts, ApproveCount(c)
    PROVE  RoomInv'
<1>1. level' \in RoomLevels
  <2>1. count[c].delta \in Int
    BY DEF RoomInv, RowsOK, CountRows
  <2>2. level \in RoomLevels /\ PostRoom(Correction(count[c].delta))
    BY DEF RoomInv, RowsOK, ApproveCount
  <2> DEFINE delta == count[c].delta
  <2> HIDE DEF delta
  <2>3. delta \in Int /\ PostRoom(Correction(delta))
    BY <2>1, <2>2 DEF delta
  <2>4. CASE delta > 0
    <3>1. PostRoom(Movement("count_correction", delta, Nowhere, OnShelf, TRUE))
      BY <2>3, <2>4 DEF Correction
    <3>2. delta \in Nat
      BY <2>3, <2>4
    <3> QED BY <2>2, <3>1, <3>2, PostRoomLevels, Sides
  <2>5. CASE ~(delta > 0)
    <3>1. PostRoom(Movement("count_correction", 0 - delta, OnShelf, Nowhere, TRUE))
      BY <2>3, <2>5 DEF Correction
    <3>2. 0 - delta \in Nat
      BY <2>3, <2>5
    <3> QED BY <2>2, <3>1, <3>2, PostRoomLevels, Sides
  <2> QED BY <2>4, <2>5
<1>2. count' \in [Counts -> CountRows]
  BY DEF RoomInv, RowsOK, ApproveCount, CountRows
<1>3. \A x \in Counts : /\ count'[x].counted = count[x].counted
                        /\ count'[x].status = "review" => count[x].status = "review"
  BY DEF RoomInv, RowsOK, ApproveCount, CountRows
<1>4. CountsTrue'
  BY <1>3 DEF RoomInv, CountsTrue, ApproveCount
<1> QED BY <1>1, <1>2, <1>4, CountsMove DEF RoomInv, RowsOK, ApproveCount

LEMMA RejectCountInv ==
    ASSUME RoomInv, NEW c \in Counts, RejectCount(c)
    PROVE  RoomInv'
<1>1. count' \in [Counts -> CountRows]
  BY DEF RoomInv, RowsOK, RejectCount, CountRows
<1>2. \A x \in Counts : /\ count'[x].counted = count[x].counted
                        /\ count'[x].status = "review" => count[x].status = "review"
  BY DEF RoomInv, RowsOK, RejectCount, CountRows
<1>3. CountsTrue'
  BY <1>2 DEF RoomInv, CountsTrue, RejectCount
<1> QED BY <1>1, <1>3, CountsMove DEF RoomInv, RowsOK, RejectCount

-----------------------------------------------------------------------------
(* Adjustments                                                             *)

LEMMA AdjustmentsMove ==
    ASSUME RoomInv, level' \in RoomLevels, adjustment' \in [Adjustments -> AdjustmentRows],
           DecisionsKept', UNCHANGED <<shelf, onWay, count, entry, received>>
    PROVE  RoomInv'
<1>1. RowsOK'
  BY DEF RoomInv, RowsOK
<1>2. CountsTrue'
  BY DEF RoomInv, CountsTrue
<1> QED BY <1>1, <1>2 DEF RoomInv

LEMMA RequestAdjustmentInv ==
    ASSUME RoomInv, NEW a \in Adjustments, NEW who \in Staff, NEW qty \in 1 .. MaxStock,
           NEW from \in {"on_hand", "damaged", "returned_pending"},
           RequestAdjustment(a, who, qty, from)
    PROVE  RoomInv'
<1>1. adjustment' \in [Adjustments -> AdjustmentRows]
  <2> DEFINE row == [status |-> "pending", by |-> who, approver |-> "none",
                     qty |-> qty, from |-> from, posts |-> 0]
  <2>1. who \in Adjusters /\ adjustment' = [adjustment EXCEPT ![a] = row]
    BY DEF RequestAdjustment
  <2>2. row \in AdjustmentRows
    BY <2>1 DEF AdjustmentRows, Bucket
  <2> HIDE DEF row
  <2> QED BY <2>1, <2>2 DEF RoomInv, RowsOK
<1>2. DecisionsKept'
  BY DEF RoomInv, RowsOK, DecisionsKept, RequestAdjustment, NoAdjustment
<1> QED BY <1>1, <1>2, AdjustmentsMove DEF RoomInv, RowsOK, RequestAdjustment

LEMMA DecideAdjustmentInv ==
    ASSUME RoomInv, NEW a \in Adjustments, NEW who \in Staff,
           NEW verdict \in {"approved", "rejected"}, DecideAdjustment(a, who, verdict)
    PROVE  RoomInv'
<1> DEFINE old == adjustment[a]
           row == [old EXCEPT !.status = verdict, !.approver = who]
<1>1. old \in AdjustmentRows /\ who \in Approvers /\ who # old.by /\ old.status = "pending"
  BY DEF RoomInv, RowsOK, DecideAdjustment, MayDecide
<1>2. adjustment' = [adjustment EXCEPT ![a] = row]
  BY DEF RoomInv, RowsOK, DecideAdjustment
<1>3. /\ row \in AdjustmentRows
      /\ row.status = verdict /\ row.approver = who
      /\ row.by = old.by /\ row.posts = old.posts
  <2> HIDE DEF old
  <2> QED BY <1>1 DEF AdjustmentRows
<1>4. old.by \in Adjusters /\ old.posts = 0
  BY <1>1 DEF RoomInv, DecisionsKept
<1> HIDE DEF row
<1>5. adjustment' \in [Adjustments -> AdjustmentRows]
  BY <1>2, <1>3 DEF RoomInv, RowsOK
<1>6. DecisionsKept'
  <2> SUFFICES ASSUME NEW x \in Adjustments
               PROVE  /\ adjustment'[x].status # "none" => adjustment'[x].by \in Adjusters
                      /\ adjustment'[x].status = "approved" =>
                           adjustment'[x].approver \in Approvers \ {adjustment'[x].by}
                      /\ adjustment'[x].status # "approved" => adjustment'[x].posts = 0
                      /\ adjustment'[x].posts <= 1
    BY DEF DecisionsKept
  <2>1. CASE x = a
    <3>1. adjustment'[x] = row
      BY <1>2, <2>1 DEF RoomInv, RowsOK
    <3> QED BY <1>1, <1>3, <1>4, <3>1
  <2>2. CASE x # a
    <3>1. adjustment'[x] = adjustment[x]
      BY <1>2, <2>2 DEF RoomInv, RowsOK
    <3> QED BY <3>1 DEF RoomInv, DecisionsKept
  <2> QED BY <2>1, <2>2
<1> QED BY <1>5, <1>6, AdjustmentsMove DEF RoomInv, RowsOK, DecideAdjustment

LEMMA PostAdjustmentInv ==
    ASSUME RoomInv, NEW a \in Adjustments, NEW who \in Staff, PostAdjustment(a, who)
    PROVE  RoomInv'
<1>1. level' \in RoomLevels
  <2>1. adjustment[a].qty \in Nat /\ adjustment[a].from \in Bucket /\ Shop \in RoomPlaces
    BY DEF RoomInv, RowsOK, AdjustmentRows, RoomPlaces
  <2>2. At(Shop, adjustment[a].from).place \in RoomPlaces
        /\ At(Shop, adjustment[a].from).bucket \in Bucket
    BY <2>1, Sides
  <2> QED BY <2>1, <2>2, PostRoomLevels DEF RoomInv, RowsOK, PostAdjustment
<1> DEFINE old == adjustment[a]
           row == [old EXCEPT !.posts = @ + 1]
<1>2. old \in AdjustmentRows /\ old.status = "approved" /\ old.posts = 0
  BY DEF RoomInv, RowsOK, PostAdjustment, Spendable
<1>3. adjustment' = [adjustment EXCEPT ![a] = row]
  BY DEF RoomInv, RowsOK, PostAdjustment
<1>4. /\ row \in AdjustmentRows
      /\ row.status = old.status /\ row.approver = old.approver
      /\ row.by = old.by /\ row.posts = 1
  <2> HIDE DEF old
  <2> QED BY <1>2 DEF AdjustmentRows
<1> HIDE DEF row
<1>5. adjustment' \in [Adjustments -> AdjustmentRows]
  BY <1>3, <1>4 DEF RoomInv, RowsOK
<1>6. DecisionsKept'
  <2> SUFFICES ASSUME NEW x \in Adjustments
               PROVE  /\ adjustment'[x].status # "none" => adjustment'[x].by \in Adjusters
                      /\ adjustment'[x].status = "approved" =>
                           adjustment'[x].approver \in Approvers \ {adjustment'[x].by}
                      /\ adjustment'[x].status # "approved" => adjustment'[x].posts = 0
                      /\ adjustment'[x].posts <= 1
    BY DEF DecisionsKept
  <2>1. CASE x = a
    <3>1. adjustment'[x] = row
      BY <1>3, <2>1 DEF RoomInv, RowsOK
    <3> QED BY <1>2, <1>4, <3>1 DEF RoomInv, DecisionsKept
  <2>2. CASE x # a
    <3>1. adjustment'[x] = adjustment[x]
      BY <1>3, <2>2 DEF RoomInv, RowsOK
    <3> QED BY <3>1 DEF RoomInv, DecisionsKept
  <2> QED BY <2>1, <2>2
<1> QED BY <1>1, <1>5, <1>6, AdjustmentsMove DEF RoomInv, RowsOK, PostAdjustment

LEMMA RoomStep == RoomInv /\ [RoomNext]_roomVars => RoomInv'
<1> SUFFICES ASSUME RoomInv, [RoomNext]_roomVars PROVE RoomInv'
  OBVIOUS
<1>1. CASE Receive \/ Sell \/ Steal \/ ReceiveBulk
  BY <1>1, ReceiveInv, SellInv, StealInv, ReceiveBulkInv
<1>2. ASSUME NEW qty \in 1 .. MaxStock, DispatchBulk(qty) PROVE RoomInv'
  BY <1>2, DispatchBulkInv
<1>3. ASSUME NEW c \in Counts,
             \/ CreateCount(c) \/ RecordCheck(c) \/ RecordWrite(c)
             \/ SubmitCount(c) \/ ApproveCount(c) \/ RejectCount(c)
      PROVE  RoomInv'
  BY <1>3, CreateCountInv, RecordCheckInv, RecordWriteInv, SubmitCountInv,
     ApproveCountInv, RejectCountInv
<1>4. ASSUME NEW a \in Adjustments, NEW who \in Staff, NEW qty \in 1 .. MaxStock,
             NEW from \in {"on_hand", "damaged", "returned_pending"},
             RequestAdjustment(a, who, qty, from)
      PROVE  RoomInv'
  BY <1>4, RequestAdjustmentInv
<1>5. ASSUME NEW a \in Adjustments, NEW who \in Staff,
             \/ \E verdict \in {"approved", "rejected"} : DecideAdjustment(a, who, verdict)
             \/ PostAdjustment(a, who)
      PROVE  RoomInv'
  BY <1>5, DecideAdjustmentInv, PostAdjustmentInv
<1>6. CASE UNCHANGED roomVars
  BY <1>6, GoodsMove DEF roomVars, RoomInv, RowsOK
<1> QED BY <1>1, <1>2, <1>3, <1>4, <1>5, <1>6 DEF RoomNext

-----------------------------------------------------------------------------
(* The theorems                                                            *)

\* The inductive invariant holds in every reachable state.
THEOREM RoomInvariance == RoomSpec => []RoomInv
<1>1. RoomInit => RoomInv
  BY RoomInitially
<1>2. RoomInv /\ [RoomNext]_roomVars => RoomInv'
  BY RoomStep
<1> QED BY <1>1, <1>2, PTL DEF RoomSpec

\* No bucket of the ledger becomes negative and the bounds of the model hold
\* (PgInventoryService.postMovementWith).
THEOREM RoomTypeCorrect == RoomSpec => []RoomTypeOK
<1>1. RoomInv => RoomTypeOK
  BY DEF RoomInv, RowsOK, RoomLevels, RoomPlaces, CountRows, AdjustmentRows, Entries, RoomTypeOK
<1> QED BY <1>1, RoomInvariance, PTL

\* Stock leaves the books as an adjustment once, for a request that somebody
\* else with the rank to do it approved (decide, postAdjustment).
THEOREM LossesAreSignedOff == RoomSpec => []LossesSignedOff
<1>1. RoomInv => LossesSignedOff
  BY DEF RoomInv, RowsOK, AdjustmentRows, DecisionsKept, LossesSignedOff
<1> QED BY <1>1, RoomInvariance, PTL

\* The step that posts a count is its approval, and it moves the ledger by the
\* difference that was counted.
LEMMA ApprovalCorrects ==
    ASSUME RoomInv, NEW c \in Counts, ApproveCount(c)
    PROVE  Gap' = Gap - count[c].delta
<1> DEFINE delta == count[c].delta
<1>1. delta \in Int /\ shelf \in Int /\ shelf' = shelf
  BY DEF RoomInv, RowsOK, CountRows, ApproveCount
<1>2. level \in RoomLevels /\ Shop \in RoomPlaces /\ "on_hand" \in Bucket
      /\ level[Shop]["on_hand"] \in Nat
  BY DEF RoomInv, RowsOK, RoomLevels, RoomPlaces, Bucket
<1>3. level' = Posted(level, Correction(delta))
  BY DEF ApproveCount, PostRoom
<1> HIDE DEF delta
<1>4. OnShelf # Nowhere /\ OnShelf.place = Shop /\ OnShelf.bucket = "on_hand"
  BY DEF OnShelf, At, Nowhere
<1>5. level'[Shop]["on_hand"] = level[Shop]["on_hand"] + delta
  <2>1. CASE delta > 0
    <3>1. level' = [level EXCEPT ![Shop]["on_hand"] = @ + delta]
      BY <1>3, <1>4, <2>1 DEF Correction, Posted, Debited, Credited, Movement
    <3> QED BY <1>2, <3>1 DEF RoomLevels
  <2>2. CASE ~(delta > 0)
    <3>1. level' = [level EXCEPT ![Shop]["on_hand"] = @ - (0 - delta)]
      BY <1>3, <1>4, <2>2 DEF Correction, Posted, Debited, Credited, Movement
    <3> QED BY <1>1, <1>2, <3>1 DEF RoomLevels
  <2> QED BY <2>1, <2>2
<1> QED BY <1>1, <1>2, <1>5 DEF Gap, delta

LEMMA StepClosesGap ==
    ASSUME RoomInv, [RoomNext]_roomVars, NEW c \in Counts,
           count[c].status = "review", count'[c].status = "posted",
           count[c].counted.booked = count[c].expected,
           count[c].delta = count[c].counted.qty - count[c].expected
    PROVE  Gap' = Gap - count[c].counted.gap
<1>1. count[c].counted.gap = count[c].delta
  BY DEF RoomInv, CountsTrue, TallyTrue
<1>2. ApproveCount(c)
  <2>1. ASSUME NEW x \in Counts,
               \/ CreateCount(x) \/ RecordCheck(x) \/ RecordWrite(x)
               \/ SubmitCount(x) \/ RejectCount(x)
        PROVE  FALSE
    BY <2>1 DEF RoomInv, RowsOK, CountRows, CreateCount, RecordCheck, RecordWrite,
                SubmitCount, RejectCount, NoCount
  <2>2. ASSUME NEW x \in Counts, ApproveCount(x) PROVE x = c
    BY <2>2 DEF RoomInv, RowsOK, CountRows, ApproveCount
  <2>3. UNCHANGED count => FALSE
    OBVIOUS
  <2> QED BY <2>1, <2>2, <2>3 DEF RoomNext, roomVars, Receive, Sell, Steal, ReceiveBulk,
             DispatchBulk, RequestAdjustment, DecideAdjustment, PostAdjustment
<1> QED BY <1>1, <1>2, ApprovalCorrects

\* If nothing was booked between snapshot and count, approving the count takes
\* from the error of the ledger what was counted (submitCount, decide).
THEOREM CountsCloseTheGap == RoomSpec => CountClosesGap
<1>1. RoomInv /\ [RoomNext]_roomVars
      => [\A c \in Counts :
            /\ count[c].status = "review"
            /\ count'[c].status = "posted"
            /\ count[c].counted.booked = count[c].expected
            /\ count[c].delta = count[c].counted.qty - count[c].expected
            => Gap' = Gap - count[c].counted.gap]_roomVars
  BY StepClosesGap
<1> QED BY <1>1, RoomInvariance, PTL DEF RoomSpec, CountClosesGap

-----------------------------------------------------------------------------
(* The parts together                                                      *)

\* Only the part whose desk it is moves, so its own invariant is all there is
\* to keep.
PartsInv ==
    /\ desk = "units" => UnitInv
    /\ desk = "room" => RoomInv
    /\ desk = "warehouse" => WhInv
    /\ desk = "purchasing" => PoInv
    /\ desk = "feed" => FeedCore
    /\ desk = "imports" => ImportInv /\ FeedUnderImport
    /\ desk = "books" => BooksInv

LEMMA PartsInitially == Init => PartsInv
<1> SUFFICES ASSUME Init PROVE PartsInv
  OBVIOUS
<1>1. UnitInv /\ RoomInv /\ WhInv /\ PoInv
  BY UnitInitially, RoomInitially, WhInitially, PoInitially DEF Init
<1>2. FeedCore /\ ImportInv /\ FeedUnderImport
  BY ImportInitOK, FeedInitOK DEF Init, ImportInit, FeedUnderImport
<1>3. BooksInv
  BY BooksInitInv DEF Init
<1> QED BY <1>1, <1>2, <1>3 DEF PartsInv

LEMMA ImportsStep ==
    ASSUME ImportInv, FeedUnderImport, [ImportNext]_<<feedVars, importVars>>
    PROVE  ImportInv' /\ FeedUnderImport'
<1>1. ImportInv'
  BY ImportInvStays
<1>2. CASE ImportStep
  BY <1>1, <1>2, ImportStepFeeds
<1>3. CASE FeedNext /\ UNCHANGED importVars
  BY <1>1, <1>3, FeedStep DEF FeedUnderImport, importVars
<1>4. CASE UNCHANGED <<feedVars, importVars>>
  BY <1>1, <1>4, FeedStutter DEF FeedUnderImport, importVars
<1> QED BY <1>2, <1>3, <1>4 DEF ImportNext

LEMMA PartsStep ==
    ASSUME PartsInv, [Next]_<<desk, stockVars, bookVars>>
    PROVE  PartsInv'
<1>1. CASE AtUnits
  <2>1. UnitInv' /\ desk' = "units"
    BY <1>1, UnitStep DEF AtUnits, PartsInv
  <2> QED BY <2>1 DEF PartsInv
<1>2. CASE AtRoom
  <2>1. RoomInv' /\ desk' = "room"
    BY <1>2, RoomStep DEF AtRoom, PartsInv
  <2> QED BY <2>1 DEF PartsInv
<1>3. CASE AtWarehouse
  <2>1. WhInv' /\ desk' = "warehouse"
    BY <1>3, WhStep DEF AtWarehouse, PartsInv
  <2> QED BY <2>1 DEF PartsInv
<1>4. CASE AtPurchasing
  <2>1. PoInv' /\ desk' = "purchasing"
    BY <1>4, PoStep DEF AtPurchasing, PartsInv
  <2> QED BY <2>1 DEF PartsInv
<1>5. CASE AtFeed
  <2>1. FeedCore' /\ desk' = "feed"
    BY <1>5, FeedStep DEF AtFeed, PartsInv
  <2> QED BY <2>1 DEF PartsInv
<1>6. CASE AtImports
  <2>1. ImportInv' /\ FeedUnderImport' /\ desk' = "imports"
    BY <1>6, ImportsStep DEF AtImports, PartsInv
  <2> QED BY <2>1 DEF PartsInv
<1>7. CASE AtBooks
  <2>1. BooksInv' /\ desk' = "books"
    BY <1>7, BooksStep DEF AtBooks, PartsInv
  <2> QED BY <2>1 DEF PartsInv
<1>8. CASE UNCHANGED <<desk, stockVars, bookVars>>
  <2>1. UNCHANGED <<desk, unitVars, roomVars, whVars, poVars, feedVars, importVars, bookVars>>
    BY <1>8 DEF stockVars, channelVars
  <2>2. /\ UnitInv => UnitInv'
        /\ RoomInv => RoomInv'
        /\ WhInv => WhInv'
        /\ PoInv => PoInv'
        /\ BooksInv => BooksInv'
    BY <2>1, UnitStep, RoomStep, WhStep, PoStep, BooksStep
  <2>3. /\ FeedCore => FeedCore'
        /\ ImportInv /\ FeedUnderImport => ImportInv' /\ FeedUnderImport'
    BY <2>1, FeedStutter, ImportsStep
  <2> QED BY <2>1, <2>2, <2>3 DEF PartsInv
<1> QED BY <1>1, <1>2, <1>3, <1>4, <1>5, <1>6, <1>7, <1>8 DEF Next

LEMMA PartsInvariance == Spec => []PartsInv
<1>1. Init => PartsInv
  BY PartsInitially
<1>2. PartsInv /\ [Next]_<<desk, stockVars, bookVars>> => PartsInv'
  BY PartsStep
<1> QED BY <1>1, <1>2, PTL DEF Spec

\* Whichever part moves, no quantity of stock becomes negative, no job of the
\* queue is doubled and every document of the books stays in its type.
THEOREM StockTypeCorrect == Spec => []StockTypeOK
<1>1. PartsInv => StockTypeOK
  <2>1. RoomInv => RoomTypeOK
    BY DEF RoomInv, RowsOK, RoomLevels, RoomPlaces, CountRows, AdjustmentRows, Entries, RoomTypeOK
  <2>3. (UnitInv => UnitTypeOK) /\ (WhInv => WhTypeOK) /\ (PoInv => PoTypeOK)
    BY DEF UnitInv, WhInv, PoInv
  <2>4. FeedCore \/ FeedUnderImport => FeedTypeOK
    BY CoreImplies DEF FeedUnderImport
  <2> QED BY <2>1, <2>3, <2>4, BooksTyped DEF PartsInv, StockTypeOK
<1> QED BY <1>1, PartsInvariance, PTL

\* VAT is left to the buyer only on devices and only on a verified declaration
\* that was in force when the sale read it, and credit notes give back what the
\* invoice charged; the journal has one entry per source, balances, and agrees
\* with the payments and, but for half a fils each, with the VAT of the refunds:
\* for any sales, lines, rates and refunds, in any order of postings.
THEOREM BooksAlwaysAccounted == Spec => []BooksAccounted
<1>1. PartsInv => BooksAccounted
  BY ChargesSupported, BooksInBalance DEF PartsInv, BooksAccounted
<1> QED BY <1>1, PartsInvariance, PTL
=============================================================================
