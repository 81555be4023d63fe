----------------------------- MODULE SaleQueue -----------------------------
(***************************************************************************)
(* The till's offline sale queue and the server it replays to.             *)
(*                                                                         *)
(* A sale is posted directly; if the network fails it goes to the pending  *)
(* list in local storage, which a timer flushes to the server in order.  A *)
(* post and its answer are separate steps: while either caller waits, the  *)
(* other one runs, the connection may break before or after the server     *)
(* booked the sale, a request that was given up may still arrive, and the  *)
(* page may be reloaded.  Storage accepts every write.                     *)
(***************************************************************************)
EXTENDS Naturals, Sequences, SequencesExt

CONSTANT Sales      \* client-generated sale ids

VARIABLES
    till,       \* till[s]: what the cashier was told about sale s
    pending,    \* the pending list in local storage
    rejected,   \* the rejected list in local storage
    flushing,   \* the flag of the running flush
    snapshot,   \* the flush's own copy of the pending list, <<>> if none runs
    call,       \* call[c]: state of the request caller c waits for
    late,       \* requests nobody waits for that may still reach the server
    booked,     \* booked[s]: orders the server recorded for sale s
    resolved,   \* sales a human took off the rejected list
    overlapped  \* sales that were enqueued while a flush was running

vars == <<till, pending, rejected, flushing, snapshot, call, late, booked,
          resolved, overlapped>>

Callers == {"till", "flush"}
TillStatus == {"none", "posting", "submitted", "queued", "refused", "cut_off"}
CallStatus == {"none", "sent", "ok", "refused", "error"}

Init ==
    /\ till = [s \in Sales |-> "none"]
    /\ pending = <<>>
    /\ rejected = {}
    /\ flushing = FALSE
    /\ snapshot = <<>>
    /\ call = [c \in Callers |-> "none"]
    /\ late = {}
    /\ booked = [s \in Sales |-> 0]
    /\ resolved = {}
    /\ overlapped = {}

-----------------------------------------------------------------------------
(* The server: createPosSale behind POST /v1/pos/sales                     *)

\* The sale a caller waits for.
Posted(c, s) ==
    \/ c = "till" /\ till[s] = "posting"
    \/ c = "flush" /\ flushing /\ s = Head(snapshot)

\* Mutant: the sale id is not the key of the order.
BookAgain(s) == [booked EXCEPT ![s] = @ + 1]

\* One transaction, keyed by the sale's id; a replay finds the order there.
Book(s) == IF booked[s] = 0 THEN [booked EXCEPT ![s] = 1] ELSE booked

\* The sale is booked (or was before), is refused, or fails.  A replay of a
\* booked sale may be refused too: the price check and the check that the
\* scanned unit is in stock come before the duplicate is noticed.
Serve(c, s) ==
    /\ call[c] = "sent"
    /\ Posted(c, s)
    /\ \/ /\ booked' = Book(s)
          /\ call' = [call EXCEPT ![c] = "ok"]
       \/ /\ \E answer \in {"refused", "error"} :
                call' = [call EXCEPT ![c] = answer]
          /\ UNCHANGED booked
    /\ UNCHANGED <<till, pending, rejected, flushing, snapshot, late,
                   resolved, overlapped>>

\* A request its caller gave up on.
ServeLate(s) ==
    /\ s \in late
    /\ late' = late \ {s}
    /\ booked' \in {booked, Book(s)}
    /\ UNCHANGED <<till, pending, rejected, flushing, snapshot, call,
                   resolved, overlapped>>

\* What may still reach the server when a caller stops waiting.
Abandon(c, s) == IF call[c] = "sent" THEN late \cup {s} ELSE late

-----------------------------------------------------------------------------
(* submit, from the tender buttons                                         *)

\* One tender at a time.
Submit(s) ==
    /\ till[s] = "none"
    /\ call["till"] = "none"
    /\ till' = [till EXCEPT ![s] = "posting"]
    /\ call' = [call EXCEPT !["till"] = "sent"]
    /\ UNCHANGED <<pending, rejected, flushing, snapshot, late, booked,
                   resolved, overlapped>>

\* The server answered: done, or its refusal is shown to the cashier.
SubmitAnswered(s) ==
    /\ till[s] = "posting"
    /\ call["till"] \in {"ok", "refused", "error"}
    /\ till' = [till EXCEPT ![s] =
                  IF call["till"] = "ok" THEN "submitted" ELSE "refused"]
    /\ call' = [call EXCEPT !["till"] = "none"]
    /\ UNCHANGED <<pending, rejected, flushing, snapshot, late, booked,
                   resolved, overlapped>>

\* A network error, whatever became of the request: the sale is queued.
Enqueue(s) ==
    /\ till[s] = "posting"
    /\ till' = [till EXCEPT ![s] = "queued"]
    /\ pending' = IF Contains(pending, s) THEN pending ELSE Append(pending, s)
    /\ overlapped' = IF flushing THEN overlapped \cup {s} ELSE overlapped
    /\ late' = Abandon("till", s)
    /\ call' = [call EXCEPT !["till"] = "none"]
    /\ UNCHANGED <<rejected, flushing, snapshot, booked, resolved>>

-----------------------------------------------------------------------------
(* flush, from the timer and the browser's online event                    *)

\* Mutant: an ended flush keeps its flag.
ContinueFlagged(rest) ==
    /\ snapshot' = rest
    /\ flushing' = TRUE
    /\ call' = [call EXCEPT !["flush"] = IF rest = <<>> THEN "none" ELSE "sent"]

\* The flush goes on with the rest of its own copy, or ends.
Continue(rest) ==
    /\ snapshot' = rest
    /\ flushing' = (rest # <<>>)
    /\ call' = [call EXCEPT !["flush"] = IF rest = <<>> THEN "none" ELSE "sent"]

FlushStart ==
    /\ ~flushing
    /\ pending # <<>>
    /\ Continue(pending)
    /\ UNCHANGED <<till, pending, rejected, late, booked, resolved, overlapped>>

\* Mutant: the list that was read is written back.
WithHead(list) == list

\* The list that is written back after an answer.
WithoutHead(list) == Tail(list)

FlushSubmitted ==
    /\ call["flush"] = "ok"
    /\ pending' = WithoutHead(snapshot)
    /\ Continue(Tail(snapshot))
    /\ UNCHANGED <<till, rejected, late, booked, resolved, overlapped>>

\* Mutant: a refused sale is dropped.
Drop(s) == rejected \ {s}

Retain(s) == rejected \cup {s}

FlushRejected ==
    /\ call["flush"] = "refused"
    /\ rejected' = Retain(Head(snapshot))
    /\ pending' = WithoutHead(snapshot)
    /\ Continue(Tail(snapshot))
    /\ UNCHANGED <<till, late, booked, resolved, overlapped>>

\* Mutant: the sale that failed goes to the end of the line.
Requeued(list) == Append(Tail(list), Head(list))

\* The list a failed attempt writes back (with one more attempt noted).
KeptQueued(list) == list

\* A network error or a 5xx ends the flush; the list stays as it was read.
FlushStops ==
    /\ call["flush"] # "none"
    /\ pending' = KeptQueued(snapshot)
    /\ late' = Abandon("flush", Head(snapshot))
    /\ Continue(<<>>)
    /\ UNCHANGED <<till, rejected, booked, resolved, overlapped>>

-----------------------------------------------------------------------------

\* A human settles a rejected sale.
ResolveRejected(s) ==
    /\ s \in rejected
    /\ rejected' = rejected \ {s}
    /\ resolved' = resolved \cup {s}
    /\ UNCHANGED <<till, pending, flushing, snapshot, call, late, booked,
                   overlapped>>

\* The page is reloaded: storage stays, whoever was waiting is gone.
Reload ==
    /\ \E c \in Callers : call[c] # "none"
    /\ till' = [s \in Sales |-> IF till[s] = "posting" THEN "cut_off" ELSE till[s]]
    /\ late' = late \cup {s \in Sales : \E c \in Callers :
                             call[c] = "sent" /\ Posted(c, s)}
    /\ flushing' = FALSE
    /\ snapshot' = <<>>
    /\ call' = [c \in Callers |-> "none"]
    /\ UNCHANGED <<pending, rejected, booked, resolved, overlapped>>

Next ==
    \/ \E s \in Sales :
         \/ Submit(s) \/ SubmitAnswered(s) \/ Enqueue(s)
         \/ ServeLate(s) \/ ResolveRejected(s)
         \/ \E c \in Callers : Serve(c, s)
    \/ FlushStart \/ FlushSubmitted \/ FlushRejected \/ FlushStops
    \/ Reload

\* The timer fires, and the browser ends every request: with an answer, or
\* with a broken connection.  Nothing says that a post ever succeeds.
Fairness ==
    /\ WF_vars(FlushStart)
    /\ WF_vars(FlushSubmitted \/ FlushRejected \/ FlushStops)

Spec == Init /\ [][Next]_vars /\ Fairness

-----------------------------------------------------------------------------
(* Properties                                                              *)

Listed(list) == ToSet(list)

\* While a flush runs its copy is not empty, and nobody waits without a post.
TypeOK ==
    /\ till \in [Sales -> TillStatus]
    /\ pending \in Seq(Sales) /\ snapshot \in Seq(Sales)
    /\ rejected \subseteq Sales /\ late \subseteq Sales
    /\ resolved \subseteq Sales /\ overlapped \subseteq Sales
    /\ flushing \in BOOLEAN /\ flushing = (snapshot # <<>>)
    /\ call \in [Callers -> CallStatus]
    /\ flushing = (call["flush"] # "none")
    /\ booked \in [Sales -> Nat]

\* Where a sale the cashier was told is queued can be.
SafeWith(s) ==
    \/ s \in Listed(pending)
    \/ s \in rejected \/ s \in resolved
    \/ booked[s] > 0

\* A queued sale disappears in one way only: it was queued while a flush was
\* waiting for the server, and the flush wrote its older copy of the list.
OnlyFlushLoses ==
    \A s \in Sales : till[s] = "queued" /\ s \notin overlapped => SafeWith(s)

\* A sale is booked at most once, however often it is replayed and however
\* late a request arrives; the two lists never hold a sale twice, not even one
\* in both, unless a flush is between its two writes.
QueueConsistent ==
    /\ TypeOK
    /\ \A s \in Sales : booked[s] <= 1
    /\ \A i, j \in DOMAIN pending : pending[i] = pending[j] => i = j
    /\ ~flushing => Listed(pending) \cap rejected = {}

\* The pending list is in the order of the tenders.
FirstComeFirstServed ==
    [][\A a, b \in Listed(pending) \cap Listed(pending)' :
         LET Before(list) ==
               \E i, j \in DOMAIN list : i < j /\ list[i] = a /\ list[j] = b
         IN Before(pending) => Before(pending)']_vars

\* The flush is about to post h, or waits for its answer.
Trying(h) == snapshot # <<>> /\ Head(snapshot) = h

\* Off the pending list: booked, with a human, or overwritten as OnlyFlushLoses
\* says.
Settled(s) ==
    /\ s \notin Listed(pending)
    /\ booked[s] > 0 \/ s \in rejected \/ s \in resolved \/ s \in overlapped

\* Every pending sale is settled, unless one sale stays at the head of the
\* list for ever although it is posted again and again: one that the server
\* answers with 5xx, or that never gets through, holds up all behind it.
\* Nothing else can keep a sale waiting: no flag left behind, no two sales
\* that take turns at the head.
PendingSalesSettle ==
    \/ \A s \in Sales : s \in Listed(pending) ~> Settled(s)
    \/ \E h \in Sales :
         /\ <>[](pending # <<>> /\ Head(pending) = h)
         /\ []<>Trying(h)

\* What the module's comment promises: a queued sale is replayed or retained,
\* never dropped.
NoSaleLost == \A s \in Sales : till[s] = "queued" => SafeWith(s)
=============================================================================
