--------------------------- MODULE FrontEndProofs ---------------------------
(* What TLAPS proves of the front ends: SaleQueue, for any set of sales;    *)
(* ShopperCart, ShopperSession and RegisterSetup, for any tabs, orders,     *)
(* sessions, tenants and setups; and all of them together, as MCFrontEnds   *)
(* composes them.                                                           *)
EXTENDS MCFrontEnds, SumLemmas

-----------------------------------------------------------------------------
(* The lists                                                               *)

LEMMA InList ==
    ASSUME NEW list \in Seq(Sales), NEW s
    PROVE  /\ s \in Listed(list) <=> \E i \in 1 .. Len(list) : list[i] = s
           /\ s \in Listed(list) => s \in Sales
  BY DEF Listed, ToSet

LEMMA EmptyList == <<>> \in Seq(Sales) /\ Len(<<>>) = 0
  OBVIOUS

LEMMA TailOfList ==
    ASSUME NEW list \in Seq(Sales), list # <<>>
    PROVE  /\ Tail(list) \in Seq(Sales)
           /\ Len(list) \in Nat \ {0} /\ Len(Tail(list)) = Len(list) - 1
           /\ Head(list) = list[1] /\ list[1] \in Sales
           /\ \A i \in 1 .. Len(list) - 1 : Tail(list)[i] = list[i + 1]
  OBVIOUS

LEMMA AppendToList ==
    ASSUME NEW list \in Seq(Sales), NEW s \in Sales
    PROVE  /\ Append(list, s) \in Seq(Sales)
           /\ Len(Append(list, s)) = Len(list) + 1
           /\ \A i \in 1 .. Len(list) : Append(list, s)[i] = list[i]
           /\ Append(list, s)[Len(list) + 1] = s
  OBVIOUS

-----------------------------------------------------------------------------
(* The inductive invariant                                                 *)

\* The lists hold sales the cashier was told are queued, each once and in one
\* list only.
ListsDisjoint ==
    /\ \A i, j \in 1 .. Len(pending) : pending[i] = pending[j] => i = j
    /\ \A i \in 1 .. Len(pending) :
         till[pending[i]] = "queued" /\ pending[i] \notin rejected
    /\ \A s \in rejected : till[s] = "queued"

\* The flush's copy is the beginning of the pending list; what follows was
\* queued while it ran.
CopyIsBeginning ==
    /\ Len(snapshot) <= Len(pending)
    /\ \A i \in 1 .. Len(snapshot) : snapshot[i] = pending[i]
    /\ flushing => \A i \in 1 .. Len(pending) :
                     i > Len(snapshot) => pending[i] \in overlapped

\* The flush is told that its first sale is booked only if it is.
AnswerTrue == call["flush"] = "ok" => booked[Head(snapshot)] = 1

BookedOnce == \A s \in Sales : booked[s] <= 1

QueueInv ==
    /\ TypeOK
    /\ ListsDisjoint
    /\ CopyIsBeginning
    /\ AnswerTrue
    /\ BookedOnce
    /\ OnlyFlushLoses

LEMMA QueueInitially == Init => QueueInv
<1> SUFFICES ASSUME Init PROVE QueueInv
  OBVIOUS
<1>1. TypeOK
  <2>1. flushing = FALSE /\ snapshot = <<>> /\ call["flush"] = "none"
    BY DEF Init, Callers
  <2>2. flushing = (snapshot # <<>>) /\ flushing = (call["flush"] # "none")
    BY <2>1
  <2>3. pending \in Seq(Sales) /\ snapshot \in Seq(Sales)
    BY EmptyList DEF Init
  <2> QED BY <2>2, <2>3 DEF Init, TypeOK, TillStatus, CallStatus, Callers
<1>2. ListsDisjoint /\ CopyIsBeginning
  BY DEF Init, ListsDisjoint, CopyIsBeginning
<1>3. AnswerTrue /\ BookedOnce /\ OnlyFlushLoses
  BY DEF Init, AnswerTrue, BookedOnce, OnlyFlushLoses, Callers
<1> QED BY <1>1, <1>2, <1>3 DEF QueueInv

-----------------------------------------------------------------------------
(* The server                                                              *)

LEMMA BookInv ==
    ASSUME QueueInv, NEW s \in Sales
    PROVE  /\ Book(s) \in [Sales -> Nat]
           /\ \A x \in Sales : Book(s)[x] <= 1 /\ Book(s)[x] >= booked[x]
           /\ Book(s)[s] = 1
  BY DEF QueueInv, TypeOK, BookedOnce, Book

\* A step of the server keeps the lists, and books more than before.
LEMMA ServerKeeps ==
    ASSUME QueueInv, UNCHANGED <<till, pending, rejected, flushing, snapshot,
                             resolved, overlapped>>,
           booked' \in [Sales -> Nat],
           \A x \in Sales : booked'[x] <= 1 /\ booked'[x] >= booked[x]
    PROVE  ListsDisjoint' /\ CopyIsBeginning' /\ BookedOnce' /\ OnlyFlushLoses'
<1>1. ListsDisjoint' /\ CopyIsBeginning' /\ BookedOnce'
  BY DEF QueueInv, ListsDisjoint, CopyIsBeginning, BookedOnce
<1>2. OnlyFlushLoses'
  BY DEF QueueInv, TypeOK, OnlyFlushLoses, SafeWith, Listed
<1> QED BY <1>1, <1>2

LEMMA ServeInv ==
    ASSUME QueueInv, NEW c \in Callers, NEW s \in Sales, Serve(c, s)
    PROVE  QueueInv'
<1>1. booked' \in [Sales -> Nat]
      /\ \A x \in Sales : booked'[x] <= 1 /\ booked'[x] >= booked[x]
  BY BookInv DEF Serve, QueueInv, TypeOK, BookedOnce
<1>2. TypeOK'
  BY <1>1 DEF QueueInv, TypeOK, Serve, CallStatus, Callers
<1>3. ListsDisjoint' /\ CopyIsBeginning' /\ BookedOnce' /\ OnlyFlushLoses'
  BY <1>1, ServerKeeps DEF Serve
<1>4. AnswerTrue'
  <2>1. CASE c = "till"
    <3>1. call'["flush"] = call["flush"]
      BY <2>1 DEF Serve, QueueInv, TypeOK, Callers
    <3>2. call["flush"] = "ok" => Head(snapshot) \in Sales
      BY TailOfList DEF QueueInv, TypeOK
    <3> QED BY <1>1, <3>1, <3>2 DEF AnswerTrue, Serve, QueueInv
  <2>2. CASE c = "flush"
    <3>1. s = Head(snapshot)
      BY <2>2 DEF Serve, Posted
    <3>2. call'["flush"] = "ok" => booked' = Book(s)
      BY <2>2 DEF Serve, QueueInv, TypeOK, Callers
    <3> QED BY <3>1, <3>2, BookInv DEF AnswerTrue, Serve
  <2> QED BY <2>1, <2>2 DEF Callers
<1> QED BY <1>2, <1>3, <1>4 DEF QueueInv

LEMMA ServeLateInv ==
    ASSUME QueueInv, NEW s \in Sales, ServeLate(s)
    PROVE  QueueInv'
<1>1. booked' \in [Sales -> Nat]
      /\ \A x \in Sales : booked'[x] <= 1 /\ booked'[x] >= booked[x]
  BY BookInv DEF ServeLate, QueueInv, TypeOK, BookedOnce
<1>2. TypeOK'
  BY <1>1 DEF QueueInv, TypeOK, ServeLate
<1>3. ListsDisjoint' /\ CopyIsBeginning' /\ BookedOnce' /\ OnlyFlushLoses'
  BY <1>1, ServerKeeps DEF ServeLate
<1>4. AnswerTrue'
  <2>1. call["flush"] = "ok" => Head(snapshot) \in Sales
    BY TailOfList DEF QueueInv, TypeOK
  <2> QED BY <1>1, <2>1 DEF AnswerTrue, ServeLate, QueueInv
<1> QED BY <1>2, <1>3, <1>4 DEF QueueInv

-----------------------------------------------------------------------------
(* The till                                                                *)

\* A sale that is not in the lists gets another status.
LEMMA StatusKeeps ==
    ASSUME QueueInv, till' \in [Sales -> TillStatus],
           \A x \in Sales : till'[x] = "queued" <=> till[x] = "queued",
           UNCHANGED <<pending, rejected, resolved, booked, overlapped>>
    PROVE  ListsDisjoint' /\ BookedOnce' /\ OnlyFlushLoses'
<1>1. ListsDisjoint'
  BY DEF QueueInv, TypeOK, ListsDisjoint
<1>2. BookedOnce' /\ OnlyFlushLoses'
  BY DEF QueueInv, BookedOnce, OnlyFlushLoses, SafeWith, Listed
<1> QED BY <1>1, <1>2

LEMMA SubmitInv ==
    ASSUME QueueInv, NEW s \in Sales, Submit(s)
    PROVE  QueueInv'
<1>1. TypeOK'
  BY DEF QueueInv, TypeOK, Submit, TillStatus, CallStatus, Callers
<1>2. ListsDisjoint' /\ BookedOnce' /\ OnlyFlushLoses'
  BY <1>1, StatusKeeps DEF Submit, QueueInv, TypeOK
<1>3. CopyIsBeginning' /\ AnswerTrue'
  BY DEF QueueInv, TypeOK, Callers, CopyIsBeginning, AnswerTrue, Submit
<1> QED BY <1>1, <1>2, <1>3 DEF QueueInv

LEMMA SubmitAnsweredInv ==
    ASSUME QueueInv, NEW s \in Sales, SubmitAnswered(s)
    PROVE  QueueInv'
<1>1. TypeOK'
  BY DEF QueueInv, TypeOK, SubmitAnswered, TillStatus, CallStatus, Callers
<1>2. ListsDisjoint' /\ BookedOnce' /\ OnlyFlushLoses'
  BY <1>1, StatusKeeps DEF SubmitAnswered, QueueInv, TypeOK
<1>3. CopyIsBeginning' /\ AnswerTrue'
  BY DEF QueueInv, TypeOK, Callers, CopyIsBeginning, AnswerTrue, SubmitAnswered
<1> QED BY <1>1, <1>2, <1>3 DEF QueueInv

\* The sale was never in a list, so it is appended; if a flush runs it
\* overlaps.
LEMMA EnqueueInv ==
    ASSUME QueueInv, NEW s \in Sales, Enqueue(s)
    PROVE  QueueInv'
<1> USE DEF QueueInv
<1>1. ~Contains(pending, s) /\ s \notin rejected
  BY DEF ListsDisjoint, Contains, Enqueue, TypeOK
<1>2. pending' = Append(pending, s)
  BY <1>1 DEF Enqueue
<1>3. /\ pending' \in Seq(Sales) /\ Len(pending') = Len(pending) + 1
      /\ \A i \in 1 .. Len(pending) : pending'[i] = pending[i]
      /\ pending'[Len(pending) + 1] = s
      /\ Len(pending) \in Nat
  BY <1>2, AppendToList DEF TypeOK
<1>4. \A i \in 1 .. Len(pending') : i \in 1 .. Len(pending) \/ i = Len(pending) + 1
  BY <1>3
<1>5. TypeOK'
  BY <1>3 DEF TypeOK, Enqueue, TillStatus, CallStatus, Callers, Abandon
<1>6. ListsDisjoint'
  <2>1. \A i \in 1 .. Len(pending) : pending[i] # s
    BY <1>1 DEF Contains
  <2>2. \A i, j \in 1 .. Len(pending') : pending'[i] = pending'[j] => i = j
    BY <1>3, <1>4, <2>1 DEF ListsDisjoint
  <2>3. till'[s] = "queued" /\ \A x \in Sales : till[x] = "queued" => till'[x] = "queued"
    BY DEF Enqueue, TypeOK
  <2>4. \A i \in 1 .. Len(pending') :
          till'[pending'[i]] = "queued" /\ pending'[i] \notin rejected
    <3> SUFFICES ASSUME NEW i \in 1 .. Len(pending')
                 PROVE  till'[pending'[i]] = "queued" /\ pending'[i] \notin rejected
      OBVIOUS
    <3>1. CASE i = Len(pending) + 1
      BY <1>1, <1>3, <2>3, <3>1
    <3>2. CASE i \in 1 .. Len(pending)
      <4>1. pending'[i] = pending[i]
        BY <1>3, <3>2
      <4>2. pending[i] \in Sales
        <5>1. pending \in Seq(Sales)
          BY DEF TypeOK
        <5> HIDE DEF QueueInv
        <5> QED BY <3>2, <5>1, SMTT(30)
      <4>3. till[pending[i]] = "queued" /\ pending[i] \notin rejected
        BY <3>2 DEF ListsDisjoint
      <4> QED BY <2>3, <4>1, <4>2, <4>3
    <3> QED BY <1>4, <3>1, <3>2
  <2> QED BY <2>2, <2>3, <2>4 DEF ListsDisjoint, Enqueue, TypeOK
<1>7. CopyIsBeginning'
  <2>1. Len(snapshot) \in Nat
    BY DEF TypeOK
  <2>2. Len(snapshot) <= Len(pending') /\ \A i \in 1 .. Len(snapshot) : snapshot[i] = pending'[i]
    BY <1>3, <2>1 DEF CopyIsBeginning
  <2>3. ASSUME flushing, NEW i \in 1 .. Len(pending'), i > Len(snapshot)
        PROVE  pending'[i] \in overlapped'
    BY <1>3, <1>4, <2>3 DEF CopyIsBeginning, Enqueue
  <2> QED BY <2>2, <2>3 DEF CopyIsBeginning, Enqueue
<1>8. AnswerTrue' /\ BookedOnce'
  BY DEF AnswerTrue, BookedOnce, Enqueue, TypeOK, Callers
<1>9. OnlyFlushLoses'
  <2> SUFFICES ASSUME NEW x \in Sales, till'[x] = "queued", x \notin overlapped'
               PROVE  SafeWith(x)'
    BY DEF OnlyFlushLoses
  <2>1. CASE x = s
    <3>1. Len(pending) + 1 \in 1 .. Len(pending')
      BY <1>3
    <3>2. x \in Listed(pending')
      BY <1>3, <2>1, <3>1, InList
    <3> QED BY <3>2 DEF SafeWith
  <2>2. CASE x # s
    <3>1. SafeWith(x)
      BY <2>2 DEF OnlyFlushLoses, Enqueue, TypeOK
    <3>2. ASSUME x \in Listed(pending) PROVE x \in Listed(pending')
      <4>1. PICK i \in 1 .. Len(pending) : pending[i] = x
        BY <3>2, InList DEF TypeOK
      <4>2. i \in 1 .. Len(pending') /\ pending'[i] = x
        BY <1>3, <4>1
      <4> QED BY <1>3, <4>2, InList
    <3> QED BY <3>1, <3>2 DEF SafeWith, Enqueue
  <2> QED BY <2>1, <2>2
<1> QED BY <1>5, <1>6, <1>7, <1>8, <1>9

-----------------------------------------------------------------------------
(* The flush                                                               *)

LEMMA ContinueType ==
    ASSUME QueueInv, NEW rest \in Seq(Sales), Continue(rest),
           pending' \in Seq(Sales), rejected' \subseteq Sales, late' \subseteq Sales,
           UNCHANGED <<till, booked, resolved, overlapped>>
    PROVE  TypeOK' /\ AnswerTrue' /\ BookedOnce'
<1>1. TypeOK'
  BY DEF QueueInv, TypeOK, Continue, Callers, CallStatus
<1>2. AnswerTrue' /\ BookedOnce'
  BY DEF QueueInv, TypeOK, Continue, Callers, AnswerTrue, BookedOnce
<1> QED BY <1>1, <1>2

LEMMA FlushStartInv ==
    ASSUME QueueInv, FlushStart
    PROVE  QueueInv'
<1>1. TypeOK' /\ AnswerTrue' /\ BookedOnce'
  BY ContinueType DEF FlushStart, QueueInv, TypeOK
<1>2. ListsDisjoint' /\ CopyIsBeginning'
  BY DEF QueueInv, TypeOK, ListsDisjoint, CopyIsBeginning, FlushStart, Continue
<1>3. OnlyFlushLoses'
  BY DEF QueueInv, OnlyFlushLoses, SafeWith, Listed, FlushStart
<1> QED BY <1>1, <1>2, <1>3 DEF QueueInv

\* While the flush waits, its copy has a first sale.
LEMMA CopyAtWork ==
    ASSUME QueueInv, call["flush"] # "none"
    PROVE  /\ flushing /\ snapshot \in Seq(Sales) /\ snapshot # <<>>
           /\ Head(snapshot) = snapshot[1] /\ snapshot[1] \in Sales
           /\ Len(snapshot) \in Nat \ {0} /\ Len(pending) \in Nat
           /\ Tail(snapshot) \in Seq(Sales) /\ Len(Tail(snapshot)) = Len(snapshot) - 1
           /\ \A i \in 1 .. Len(snapshot) - 1 : Tail(snapshot)[i] = snapshot[i + 1]
<1>1. flushing
  BY DEF QueueInv, TypeOK
<1>2. flushing = (snapshot # <<>>)
  BY DEF QueueInv, TypeOK
<1>3. snapshot # <<>>
  BY <1>1, <1>2
<1>4. snapshot \in Seq(Sales) /\ Len(pending) \in Nat
  BY DEF QueueInv, TypeOK
<1> QED BY <1>1, <1>3, <1>4, TailOfList

\* The list without its first sale is the rest of the copy; the sales that are
\* no longer in it are the first and those that overlapped.
LEMMA HeadLeaves ==
    ASSUME QueueInv, call["flush"] # "none", pending' = Tail(snapshot), Continue(Tail(snapshot)),
           UNCHANGED <<till, late, booked, resolved, overlapped>>,
           rejected' \in {rejected, rejected \cup {Head(snapshot)}},
           rejected' = rejected => booked[Head(snapshot)] = 1
    PROVE  QueueInv'
<1> USE CopyAtWork DEF QueueInv
<1>1. TypeOK' /\ AnswerTrue' /\ BookedOnce'
  BY ContinueType DEF TypeOK
<1>2. \A i \in 1 .. Len(pending') :
        /\ i + 1 \in 1 .. Len(snapshot) /\ i + 1 \in 1 .. Len(pending)
        /\ pending'[i] = pending[i + 1]
  BY DEF CopyIsBeginning
<1>3. 1 \in 1 .. Len(pending) /\ pending[1] = Head(snapshot)
  BY DEF CopyIsBeginning
<1>4. ListsDisjoint'
  <2>1. \A i, j \in 1 .. Len(pending') : pending'[i] = pending'[j] => i = j
    BY <1>2 DEF ListsDisjoint
  <2>2. \A i \in 1 .. Len(pending') : pending'[i] # Head(snapshot)
    BY <1>2, <1>3 DEF ListsDisjoint
  <2>3. \A i \in 1 .. Len(pending') : till[pending'[i]] = "queued" /\ pending'[i] \notin rejected'
    BY <1>2, <2>2 DEF ListsDisjoint
  <2>4. \A s \in rejected' : till[s] = "queued"
    BY <1>3 DEF ListsDisjoint
  <2> QED BY <2>1, <2>3, <2>4 DEF ListsDisjoint
<1>5. CopyIsBeginning'
  BY DEF CopyIsBeginning, Continue
<1>6. OnlyFlushLoses'
  <2> SUFFICES ASSUME NEW x \in Sales, till[x] = "queued", x \notin overlapped
               PROVE  SafeWith(x)'
    BY DEF OnlyFlushLoses
  <2>1. SafeWith(x)
    BY DEF OnlyFlushLoses
  <2>2. CASE x \notin Listed(pending)
    BY <2>1, <2>2 DEF SafeWith
  <2>3. CASE x \in Listed(pending)
    <3>1. PICK i \in 1 .. Len(pending) : pending[i] = x
      BY <2>3, InList DEF TypeOK
    <3>2. i \in 1 .. Len(snapshot) /\ snapshot[i] = x
      BY <3>1 DEF CopyIsBeginning
    <3>3. CASE i = 1
      BY <3>2, <3>3 DEF SafeWith
    <3>4. CASE i # 1
      <4>1. i - 1 \in 1 .. Len(pending') /\ pending'[i - 1] = x
        BY <3>2, <3>4
      <4> QED BY <4>1, InList DEF SafeWith
    <3> QED BY <3>3, <3>4
  <2> QED BY <2>2, <2>3
<1> QED BY <1>1, <1>4, <1>5, <1>6

LEMMA FlushSubmittedInv ==
    ASSUME QueueInv, FlushSubmitted
    PROVE  QueueInv'
<1>1. booked[Head(snapshot)] = 1
  BY DEF QueueInv, AnswerTrue, FlushSubmitted
<1> QED BY <1>1, HeadLeaves DEF FlushSubmitted, WithoutHead

LEMMA FlushRejectedInv ==
    ASSUME QueueInv, FlushRejected
    PROVE  QueueInv'
<1>1. Head(snapshot) \notin rejected
  BY CopyAtWork DEF QueueInv, FlushRejected, ListsDisjoint, CopyIsBeginning
<1> QED BY <1>1, HeadLeaves DEF FlushRejected, WithoutHead, Retain

LEMMA FlushStopsInv ==
    ASSUME QueueInv, FlushStops
    PROVE  QueueInv'
<1> USE CopyAtWork DEF QueueInv
<1>1. call["flush"] # "none" /\ pending' = snapshot /\ Continue(<<>>)
      /\ UNCHANGED <<till, rejected, booked, resolved, overlapped>>
  BY DEF FlushStops, KeptQueued
<1>2. TypeOK' /\ AnswerTrue' /\ BookedOnce'
  <2>1. late' \subseteq Sales
    BY DEF FlushStops, Abandon, TypeOK
  <2> QED BY <1>1, <2>1, EmptyList, ContinueType DEF TypeOK
<1>3. ListsDisjoint'
  BY <1>1 DEF ListsDisjoint, CopyIsBeginning
<1>4. CopyIsBeginning'
  <2>1. snapshot' = <<>> /\ ~flushing' /\ Len(pending') \in Nat
    BY <1>1 DEF Continue
  <2> QED BY <2>1, EmptyList DEF CopyIsBeginning
<1>5. OnlyFlushLoses'
  <2> SUFFICES ASSUME NEW x \in Sales, till[x] = "queued", x \notin overlapped
               PROVE  SafeWith(x)'
    BY <1>1 DEF OnlyFlushLoses
  <2>1. SafeWith(x)
    BY DEF OnlyFlushLoses
  <2>2. ASSUME x \in Listed(pending) PROVE x \in Listed(snapshot)
    <3>1. PICK i \in 1 .. Len(pending) : pending[i] = x
      BY <2>2, InList DEF TypeOK
    <3>2. i \in 1 .. Len(snapshot) /\ snapshot[i] = x
      BY <1>1, <3>1 DEF CopyIsBeginning
    <3> QED BY <1>1, <3>2, InList
  <2> QED BY <1>1, <2>1, <2>2 DEF SafeWith
<1> QED BY <1>2, <1>3, <1>4, <1>5

-----------------------------------------------------------------------------
(* The manager and the browser                                             *)

LEMMA ResolveRejectedInv ==
    ASSUME QueueInv, NEW s \in Sales, ResolveRejected(s)
    PROVE  QueueInv'
<1>1. TypeOK' /\ ListsDisjoint'
  BY DEF QueueInv, TypeOK, ListsDisjoint, ResolveRejected
<1>2. CopyIsBeginning' /\ AnswerTrue' /\ BookedOnce'
  BY DEF QueueInv, CopyIsBeginning, AnswerTrue, BookedOnce, ResolveRejected
<1>3. OnlyFlushLoses'
  BY DEF QueueInv, OnlyFlushLoses, SafeWith, Listed, ResolveRejected
<1> QED BY <1>1, <1>2, <1>3 DEF QueueInv

LEMMA ReloadInv ==
    ASSUME QueueInv, Reload
    PROVE  QueueInv'
<1>1. TypeOK'
  <2>1. flushing' = FALSE /\ snapshot' = <<>> /\ call'["flush"] = "none"
    BY DEF Reload, Callers
  <2>2. flushing' = (snapshot' # <<>>) /\ flushing' = (call'["flush"] # "none")
    BY <2>1
  <2>3. snapshot' \in Seq(Sales)
    BY <2>1, EmptyList
  <2>4. till' \in [Sales -> TillStatus] /\ call' \in [Callers -> CallStatus]
        /\ late' \subseteq Sales /\ flushing' \in BOOLEAN
    BY <2>1 DEF QueueInv, TypeOK, Reload, TillStatus, CallStatus, Callers
  <2> QED BY <2>2, <2>3, <2>4 DEF QueueInv, TypeOK, Reload
<1>2. \A x \in Sales : till'[x] = "queued" <=> till[x] = "queued"
  BY DEF QueueInv, TypeOK, Reload
<1>3. ListsDisjoint' /\ BookedOnce' /\ OnlyFlushLoses'
  BY <1>1, <1>2, StatusKeeps DEF Reload, TypeOK
<1>4. CopyIsBeginning' /\ AnswerTrue'
  BY DEF QueueInv, TypeOK, CopyIsBeginning, AnswerTrue, Reload, Callers
<1> QED BY <1>1, <1>3, <1>4 DEF QueueInv

LEMMA QueueStep == QueueInv /\ [Next]_vars => QueueInv'
<1> SUFFICES ASSUME QueueInv, [Next]_vars PROVE QueueInv'
  OBVIOUS
<1>1. ASSUME NEW s \in Sales, Submit(s) \/ SubmitAnswered(s) \/ Enqueue(s)
      PROVE  QueueInv'
  BY <1>1, SubmitInv, SubmitAnsweredInv, EnqueueInv
<1>2. ASSUME NEW s \in Sales, ServeLate(s) \/ ResolveRejected(s)
                              \/ \E c \in Callers : Serve(c, s)
      PROVE  QueueInv'
  BY <1>2, ServeLateInv, ResolveRejectedInv, ServeInv
<1>3. ASSUME FlushStart \/ FlushSubmitted \/ FlushRejected \/ FlushStops
      PROVE  QueueInv'
  BY <1>3, FlushStartInv, FlushSubmittedInv, FlushRejectedInv, FlushStopsInv
<1>4. CASE Reload
  BY <1>4, ReloadInv
<1>5. CASE UNCHANGED vars
  BY <1>5 DEF vars, QueueInv, TypeOK, ListsDisjoint, CopyIsBeginning, AnswerTrue,
              BookedOnce, OnlyFlushLoses, SafeWith, Listed
<1> QED BY <1>1, <1>2, <1>3, <1>4, <1>5 DEF Next

-----------------------------------------------------------------------------
(* The theorems                                                            *)

\* The inductive invariant holds in every reachable state.
THEOREM QueueInvariance == Spec => []QueueInv
<1>1. Init => QueueInv
  BY QueueInitially
<1>2. QueueInv /\ [Next]_vars => QueueInv'
  BY QueueStep
<1> QED BY <1>1, <1>2, PTL DEF Spec

\* A sale is booked at most once, however often it is replayed and however late
\* a request arrives, and is in one list only (saleQueue.ts, createPosSale).
THEOREM QueueIsConsistent == Spec => []QueueConsistent
<1>1. QueueInv => QueueConsistent
  <2> SUFFICES ASSUME QueueInv PROVE QueueConsistent
    OBVIOUS
  <2>1. \A i, j \in DOMAIN pending : pending[i] = pending[j] => i = j
    <3>1. DOMAIN pending = 1 .. Len(pending)
      BY DEF QueueInv, TypeOK
    <3> QED BY <3>1 DEF QueueInv, ListsDisjoint
  <2>2. Listed(pending) \cap rejected = {}
    BY InList DEF QueueInv, TypeOK, ListsDisjoint
  <2> QED BY <2>1, <2>2 DEF QueueInv, BookedOnce, QueueConsistent
<1> QED BY <1>1, QueueInvariance, PTL

\* A queued sale is lost only if it was queued while a flush waited for the
\* server (saleQueue.ts, enqueue and flush).
THEOREM FlushAloneLoses == Spec => []OnlyFlushLoses
<1>1. QueueInv => OnlyFlushLoses
  BY DEF QueueInv
<1> QED BY <1>1, QueueInvariance, PTL

-----------------------------------------------------------------------------
(* The order of the pending list                                           *)

Before(list, a, b) ==
    \E i, j \in DOMAIN list : i < j /\ list[i] = a /\ list[j] = b

\* A piece of the pending list that begins at its first or its second sale
\* has the order of the whole.
LEMMA PieceKeepsOrder ==
    ASSUME QueueInv, NEW list \in Seq(Sales), NEW k \in {0, 1},
           \A i \in 1 .. Len(list) :
             i + k \in 1 .. Len(pending) /\ list[i] = pending[i + k],
           NEW a \in Listed(list), NEW b \in Listed(list), Before(pending, a, b)
    PROVE  Before(list, a, b)
<1>0. DOMAIN pending = 1 .. Len(pending)
  BY DEF QueueInv, TypeOK
<1>1. PICK i, j \in 1 .. Len(pending) : i < j /\ pending[i] = a /\ pending[j] = b
  BY <1>0 DEF Before
<1>2. PICK m \in 1 .. Len(list) : list[m] = a
  BY InList
<1>3. PICK n \in 1 .. Len(list) : list[n] = b
  BY InList
<1>4. m + k = i /\ n + k = j
  BY <1>1, <1>2, <1>3 DEF QueueInv, ListsDisjoint
<1>5. m < n
  BY <1>1, <1>4
<1> QED BY <1>2, <1>3, <1>5 DEF Before

LEMMA StepKeepsOrder ==
    ASSUME QueueInv, [Next]_vars, NEW a \in Listed(pending)', NEW b \in Listed(pending)',
           Before(pending, a, b)
    PROVE  Before(pending, a, b)'
<1>1. CASE pending' = pending
  BY <1>1 DEF Before
<1>2. ASSUME NEW s \in Sales, Enqueue(s) PROVE Before(pending, a, b)'
  <2>1. CASE Contains(pending, s)
    BY <1>1, <1>2, <2>1 DEF Enqueue
  <2>2. CASE pending' = Append(pending, s)
    <3>1. /\ pending' \in Seq(Sales) /\ Len(pending') = Len(pending) + 1
          /\ \A i \in 1 .. Len(pending) : pending'[i] = pending[i]
      BY <2>2, AppendToList DEF QueueInv, TypeOK
    <3>2. PICK i, j \in 1 .. Len(pending) : i < j /\ pending[i] = a /\ pending[j] = b
      BY DEF Before, QueueInv, TypeOK
    <3>3. i \in DOMAIN pending' /\ j \in DOMAIN pending'
      BY <3>1
    <3> QED BY <3>1, <3>2, <3>3 DEF Before
  <2> QED BY <1>2, <2>1, <2>2 DEF Enqueue
<1>3. CASE FlushSubmitted \/ FlushRejected
  <2>1. call["flush"] # "none" /\ pending' = Tail(snapshot)
    BY <1>3 DEF FlushSubmitted, FlushRejected, WithoutHead
  <2>2. /\ Tail(snapshot) \in Seq(Sales)
        /\ \A i \in 1 .. Len(Tail(snapshot)) :
             i + 1 \in 1 .. Len(pending) /\ Tail(snapshot)[i] = pending[i + 1]
    BY <2>1, CopyAtWork DEF QueueInv, CopyIsBeginning
  <2> QED BY <2>1, <2>2, PieceKeepsOrder
<1>4. CASE FlushStops
  <2>1. call["flush"] # "none" /\ pending' = snapshot
    BY <1>4 DEF FlushStops, KeptQueued
  <2>2. /\ snapshot \in Seq(Sales)
        /\ \A i \in 1 .. Len(snapshot) :
             i + 0 \in 1 .. Len(pending) /\ snapshot[i] = pending[i + 0]
    BY <2>1, CopyAtWork DEF QueueInv, CopyIsBeginning
  <2> QED BY <2>1, <2>2, PieceKeepsOrder
<1>5. CASE FlushStart \/ Reload \/ UNCHANGED vars
  BY <1>1, <1>5 DEF FlushStart, Reload, vars
<1>6. ASSUME NEW s \in Sales,
             \/ Submit(s) \/ SubmitAnswered(s) \/ ServeLate(s) \/ ResolveRejected(s)
             \/ \E c \in Callers : Serve(c, s)
      PROVE  Before(pending, a, b)'
  BY <1>1, <1>6 DEF Submit, SubmitAnswered, ServeLate, ResolveRejected, Serve
<1> QED BY <1>2, <1>3, <1>4, <1>5, <1>6 DEF Next

\* Sales wait in the order of their tenders, whatever fails in between
\* (saleQueue.ts, flush).
THEOREM TendersStayInOrder == Spec => FirstComeFirstServed
<1>1. QueueInv /\ [Next]_vars
      => [\A a, b \in Listed(pending) \cap Listed(pending)' :
            Before(pending, a, b) => Before(pending, a, b)']_vars
  BY StepKeepsOrder
<1>2. Spec => [][\A a, b \in Listed(pending) \cap Listed(pending)' :
                   Before(pending, a, b) => Before(pending, a, b)']_vars
  BY <1>1, QueueInvariance, PTL DEF Spec
<1> QED BY <1>2 DEF FirstComeFirstServed, Before

-----------------------------------------------------------------------------
(* The cart: the inductive invariant                                       *)

CartLines == [Variants -> Nat]
Submission == [stage : {"none", "flying", "placed", "refused", "cleared", "kept", "missed"},
               tab : Tabs \cup {Nobody}, lines : CartLines]

CartTypes ==
    /\ stored \in CartLines
    /\ wanted \in [Variants -> Int]
    /\ lines \in [Tabs -> CartLines]
    /\ sent \in [Submissions -> Submission]

\* What was put in and not taken out is in the storage or was ordered.
KeptOrOrdered == \A v \in Variants : stored[v] + In(v, {"cleared"}) = wanted[v]

\* One order at a time is under way, and it is for what the storage has.
OneOrderOfCart ==
    /\ \A s, r \in UnderWay : s = r
    /\ \A s \in UnderWay : sent[s].lines = stored

CartInv == CartTypes /\ (trouble = {} => KeptOrOrdered /\ OneOrderOfCart)

LEMMA InType ==
    ASSUME CartTypes, NEW v \in Variants, NEW stages
    PROVE  In(v, stages) \in Nat
<1> DEFINE f == [s \in Submissions |-> IF sent[s].stage \in stages THEN sent[s].lines[v] ELSE 0]
<1>1. \A s \in Submissions : f[s] \in Nat
  BY DEF CartTypes, Submission, CartLines
<1>2. In(v, stages) = SumOf(f, Submissions)
  BY DEF In
<1> HIDE DEF f
<1> QED BY <1>1, <1>2, CartAssumption, SumType

\* A step that clears no submission counts the same orders.
LEMMA InSame ==
    ASSUME \A s \in Submissions :
             \/ sent'[s].stage = sent[s].stage /\ sent'[s].lines = sent[s].lines
             \/ sent[s].stage # "cleared" /\ sent'[s].stage # "cleared"
    PROVE  \A v \in Variants : In(v, {"cleared"})' = In(v, {"cleared"})
<1> TAKE v \in Variants
<1> DEFINE f == [s \in Submissions |-> IF sent[s].stage \in {"cleared"} THEN sent[s].lines[v] ELSE 0]
           g == [s \in Submissions |-> IF sent'[s].stage \in {"cleared"} THEN sent'[s].lines[v] ELSE 0]
<1>1. \A s \in Submissions : f[s] = g[s]
  OBVIOUS
<1>2. In(v, {"cleared"}) = SumOf(f, Submissions) /\ In(v, {"cleared"})' = SumOf(g, Submissions)
  BY DEF In
<1> HIDE DEF f, g
<1> QED BY <1>1, <1>2, SumSame

LEMMA CartInitially ==
    ASSUME CartInit
    PROVE  CartInv
<1> USE DEF CartInit
<1>1. Empty \in CartLines /\ \A v \in Variants : Empty[v] = 0
  BY DEF Empty, CartLines
<1>2. NotSent \in Submission
  BY <1>1 DEF NotSent, Submission
<1>3. CartTypes
  BY <1>1, <1>2 DEF CartTypes, Empty
<1>4. UnderWay = {}
  BY DEF UnderWay, NotSent
<1>5. ASSUME NEW v \in Variants PROVE In(v, {"cleared"}) = 0
  <2> DEFINE f == [s \in Submissions |-> IF sent[s].stage \in {"cleared"} THEN sent[s].lines[v] ELSE 0]
  <2>1. \A s \in Submissions : f[s] \in Nat /\ f[s] = 0
    BY DEF NotSent
  <2>2. In(v, {"cleared"}) = SumOf(f, Submissions)
    BY DEF In
  <2> HIDE DEF f
  <2> QED BY <2>1, <2>2, CartAssumption, SumZero
<1>6. KeptOrOrdered
  BY <1>1, <1>5 DEF KeptOrOrdered
<1> QED BY <1>3, <1>4, <1>6 DEF CartInv, OneOrderOfCart

\* What a commit leaves when nothing went wrong.
LEMMA CommitLeaves ==
    ASSUME CartTypes, NEW t \in Tabs, NEW next \in CartLines, NEW more, CommitLines(t, next, more)
    PROVE  /\ lines' \in [Tabs -> CartLines] /\ stored' \in CartLines
           /\ trouble' = {} => more = {} /\ lines[t] = stored /\ stored' = next
BY DEF CommitLines, CartTypes

LEMMA PutKeeps ==
    ASSUME CartInv, trouble = {},
           NEW t \in Tabs, NEW v \in Variants, NEW quantity \in 0 .. MaxQuantity,
           Put(t, v, quantity)
    PROVE  CartInv'
<1> DEFINE next == [lines[t] EXCEPT ![v] = quantity]
           more == IF UnderWay # {} THEN {"changed while ordering"} ELSE {}
<1>1. lines[t] \in CartLines /\ quantity \in Nat /\ stored \in CartLines
  BY CartAssumption DEF CartInv, CartTypes
<1>2. next \in CartLines
  BY <1>1 DEF CartLines
<1>3. CommitLines(t, next, more) /\ sent' = sent
      /\ wanted' = [wanted EXCEPT ![v] = @ + quantity - lines[t][v]]
  BY DEF Put
<1>4. CartTypes'
  <2>1. lines' \in [Tabs -> CartLines] /\ stored' \in CartLines
    BY <1>2, <1>3, CommitLeaves DEF CartInv
  <2>2. wanted' \in [Variants -> Int]
    <3>1. wanted \in [Variants -> Int] /\ lines[t][v] \in Nat
      BY <1>1 DEF CartInv, CartTypes, CartLines
    <3>2. wanted[v] + quantity - lines[t][v] \in Int
      BY <1>1, <3>1
    <3> QED BY <1>3, <3>1, <3>2
  <2> QED BY <1>3, <2>1, <2>2 DEF CartInv, CartTypes
<1>5. ASSUME trouble' = {} PROVE KeptOrOrdered' /\ OneOrderOfCart'
  <2>1. more = {} /\ lines[t] = stored /\ stored' = next
    BY <1>2, <1>3, <1>5, CommitLeaves DEF CartInv
  <2>2. UnderWay = {} /\ UnderWay' = UnderWay
    BY <1>3, <2>1 DEF UnderWay
  <2>3. \A x \in Variants : In(x, {"cleared"})' = In(x, {"cleared"})
    BY <1>3, InSame
  <2>4. \A x \in Variants : stored[x] \in Nat /\ In(x, {"cleared"}) \in Nat /\ wanted[x] \in Int
                            /\ stored[x] + In(x, {"cleared"}) = wanted[x]
    BY InType DEF CartInv, CartTypes, CartLines, KeptOrOrdered
  <2>5. \A x \in Variants :
          IF x = v THEN stored'[x] = quantity /\ wanted'[x] = wanted[x] + quantity - stored[x]
          ELSE stored'[x] = stored[x] /\ wanted'[x] = wanted[x]
    BY <1>1, <1>3, <2>1 DEF CartInv, CartTypes, CartLines
  <2>6. KeptOrOrdered'
    BY <1>1, <2>3, <2>4, <2>5 DEF KeptOrOrdered
  <2> QED BY <2>2, <2>6 DEF OneOrderOfCart
<1> QED BY <1>4, <1>5 DEF CartInv

\* A step that leaves the lines and clears no submission.
LEMMA SubmissionsMove ==
    ASSUME CartInv, trouble = {}, UNCHANGED <<stored, wanted>>,
           lines' \in [Tabs -> CartLines], sent' \in [Submissions -> Submission],
           \A s \in Submissions :
             \/ sent'[s].stage = sent[s].stage /\ sent'[s].lines = sent[s].lines
             \/ sent[s].stage # "cleared" /\ sent'[s].stage # "cleared",
           trouble' = {} => OneOrderOfCart'
    PROVE  CartInv'
<1>1. \A v \in Variants : In(v, {"cleared"})' = In(v, {"cleared"})
  BY InSame
<1>2. KeptOrOrdered'
  BY <1>1 DEF CartInv, KeptOrOrdered
<1> QED BY <1>2 DEF CartInv, CartTypes

LEMMA ReloadTabKeeps ==
    ASSUME CartInv, trouble = {}, NEW t \in Tabs, ReloadTab(t)
    PROVE  CartInv'
<1>1. \A s \in Submissions :
        /\ sent[s] \in Submission
        /\ sent'[s] = IF sent[s].tab = t THEN [sent[s] EXCEPT !.tab = Nobody] ELSE sent[s]
  BY DEF ReloadTab, CartInv, CartTypes
<1>2. \A s \in Submissions :
        sent'[s] \in Submission /\ sent'[s].stage = sent[s].stage /\ sent'[s].lines = sent[s].lines
  BY <1>1 DEF Submission
<1>3. sent' \in [Submissions -> Submission]
  <2>1. sent' = [s \in Submissions |-> sent'[s]]
    BY DEF ReloadTab
  <2> QED BY <1>2, <2>1
<1>4. lines' \in [Tabs -> CartLines] /\ UNCHANGED <<stored, wanted>>
  BY DEF ReloadTab, CartInv, CartTypes
<1>5. UnderWay' = UnderWay
  BY <1>2 DEF UnderWay
<1>6. OneOrderOfCart'
  <2>1. \A s \in UnderWay : s \in Submissions
    BY DEF UnderWay
  <2> QED BY <1>2, <1>4, <1>5, <2>1 DEF CartInv, OneOrderOfCart
<1> QED BY <1>2, <1>3, <1>4, <1>6, SubmissionsMove

LEMMA SendOrderKeeps ==
    ASSUME CartInv, trouble = {}, NEW t \in Tabs, NEW s \in Submissions, SendOrder(t, s)
    PROVE  CartInv'
<1> DEFINE row == [stage |-> "flying", tab |-> t, lines |-> lines[t]]
<1>1. row \in Submission
  BY DEF CartInv, CartTypes, Submission
<1>2. sent' = [sent EXCEPT ![s] = row] /\ sent[s].stage = "none" /\ UNCHANGED <<stored, lines, wanted>>
  BY DEF SendOrder
<1>3. sent' \in [Submissions -> Submission] /\ sent'[s] = row /\ \A r \in Submissions \ {s} : sent'[r] = sent[r]
  BY <1>1, <1>2 DEF CartInv, CartTypes
<1>4. \A r \in Submissions :
        \/ sent'[r].stage = sent[r].stage /\ sent'[r].lines = sent[r].lines
        \/ sent[r].stage # "cleared" /\ sent'[r].stage # "cleared"
  BY <1>2, <1>3
<1>5. ASSUME trouble' = {} PROVE OneOrderOfCart'
  <2>1. UnderWay = {} /\ lines[t] = stored
    BY <1>5 DEF SendOrder
  <2>2. UnderWay' \subseteq {s}
    BY <1>3, <2>1 DEF UnderWay
  <2> QED BY <1>2, <1>3, <2>1, <2>2 DEF OneOrderOfCart
<1>6. lines' \in [Tabs -> CartLines]
  BY <1>2 DEF CartInv, CartTypes
<1> QED BY <1>2, <1>3, <1>4, <1>5, <1>6, SubmissionsMove

\* A submission goes on, to a stage that is neither under way nor cleared, or
\* from one that is under way to the next.
LEMMA StageMoves ==
    ASSUME CartInv, trouble = {}, NEW s \in Submissions, NEW to,
           to \in {"placed", "refused", "kept", "missed"},
           to = "placed" => s \in UnderWay,
           sent[s].stage # "cleared",
           sent' = [sent EXCEPT ![s].stage = to],
           UNCHANGED <<stored, lines, wanted>>
    PROVE  CartInv'
<1>1. /\ sent' \in [Submissions -> Submission] /\ sent'[s].stage = to /\ sent'[s].lines = sent[s].lines
      /\ \A r \in Submissions \ {s} : sent'[r] = sent[r]
  <2>1. sent[s] \in Submission
    BY DEF CartInv, CartTypes
  <2> DEFINE row == [sent[s] EXCEPT !.stage = to]
  <2>2. row \in Submission /\ row.stage = to /\ row.lines = sent[s].lines
    BY <2>1 DEF Submission
  <2>3. sent' = [sent EXCEPT ![s] = row]
    OBVIOUS
  <2> HIDE DEF row
  <2> QED BY <2>2, <2>3 DEF CartInv, CartTypes
<1>2. \A r \in Submissions :
        \/ sent'[r].stage = sent[r].stage /\ sent'[r].lines = sent[r].lines
        \/ sent[r].stage # "cleared" /\ sent'[r].stage # "cleared"
  BY <1>1
<1>3. OneOrderOfCart'
  <2>1. UnderWay' \subseteq UnderWay
    BY <1>1 DEF UnderWay
  <2>2. \A r \in UnderWay' : sent'[r].lines = sent[r].lines
    BY <1>1, <2>1 DEF UnderWay
  <2> QED BY <2>1, <2>2 DEF CartInv, OneOrderOfCart
<1>4. lines' \in [Tabs -> CartLines]
  BY DEF CartInv, CartTypes
<1> QED BY <1>1, <1>2, <1>3, <1>4, SubmissionsMove

LEMMA ServerAnswersKeeps ==
    ASSUME CartInv, trouble = {}, NEW s \in Submissions, NEW verdict \in {"placed", "refused"},
           ServerAnswers(s, verdict)
    PROVE  CartInv'
<1>1. s \in UnderWay
  BY DEF ServerAnswers, UnderWay
<1> QED BY <1>1, StageMoves DEF ServerAnswers

LEMMA AnsweredKeeps ==
    ASSUME CartInv, trouble = {}, NEW s \in Submissions, Answered(s)
    PROVE  CartInv'
<1>1. CASE sent[s].stage # "placed"
  <2>1. sent' = [sent EXCEPT ![s].stage = "kept"] /\ sent[s].stage = "refused"
        /\ UNCHANGED <<stored, lines, wanted>>
    BY <1>1 DEF Answered, ClearsCart
  <2> QED BY <2>1, StageMoves
<1>2. CASE sent[s].stage = "placed"
  <2> DEFINE t == sent[s].tab
  <2>1. /\ t \in Tabs /\ CommitLines(t, Empty, {}) /\ UNCHANGED wanted
        /\ sent' = [sent EXCEPT ![s].stage = "cleared"]
    BY <1>2 DEF Answered, ClearsCart, CartInv, CartTypes, Submission
  <2>2. Empty \in CartLines /\ \A v \in Variants : Empty[v] = 0
    BY DEF Empty, CartLines
  <2>3. /\ lines' \in [Tabs -> CartLines] /\ stored' \in CartLines
        /\ trouble' = {} => stored' = Empty
    BY <2>1, <2>2, CommitLeaves DEF CartInv
  <2>4. /\ sent' \in [Submissions -> Submission] /\ sent'[s].stage = "cleared"
        /\ sent'[s].lines = sent[s].lines
        /\ \A r \in Submissions \ {s} : sent'[r] = sent[r]
    <3>1. sent[s] \in Submission
      BY DEF CartInv, CartTypes
    <3> DEFINE row == [sent[s] EXCEPT !.stage = "cleared"]
    <3>2. row \in Submission /\ row.stage = "cleared" /\ row.lines = sent[s].lines
      BY <3>1 DEF Submission
    <3>3. sent' = [sent EXCEPT ![s] = row]
      BY <2>1
    <3> HIDE DEF row
    <3> QED BY <3>2, <3>3 DEF CartInv, CartTypes
  <2>5. CartTypes'
    BY <2>1, <2>3, <2>4 DEF CartInv, CartTypes
  <2>6. s \in UnderWay
    BY <1>2 DEF UnderWay
  <2>7. sent[s].lines = stored /\ UnderWay \subseteq {s}
    BY <2>6 DEF CartInv, OneOrderOfCart
  <2>8. UnderWay' = {}
    BY <2>4, <2>7 DEF UnderWay
  <2>9. ASSUME trouble' = {}, NEW v \in Variants PROVE stored'[v] + In(v, {"cleared"})' = wanted'[v]
    <3> DEFINE f == [r \in Submissions |-> IF sent[r].stage \in {"cleared"} THEN sent[r].lines[v] ELSE 0]
               g == [r \in Submissions |-> IF sent'[r].stage \in {"cleared"} THEN sent'[r].lines[v] ELSE 0]
    <3>1. In(v, {"cleared"}) = SumOf(f, Submissions) /\ In(v, {"cleared"})' = SumOf(g, Submissions)
      BY DEF In
    <3>2. \A r \in Submissions : f[r] \in Nat /\ g[r] \in Nat
      BY <2>5 DEF CartInv, CartTypes, Submission, CartLines
    <3>3. \A r \in Submissions \ {s} : f[r] = g[r]
      BY <2>4
    <3>4. f[s] = 0 /\ g[s] = stored[v]
      BY <1>2, <2>4, <2>7
    <3> HIDE DEF f, g
    <3>5. SumOf(g, Submissions) + f[s] = SumOf(f, Submissions) + g[s]
      BY <3>2, <3>3, CartAssumption, SumChange
    <3>6. stored'[v] = 0 /\ stored[v] \in Nat /\ stored[v] + In(v, {"cleared"}) = wanted[v] /\ wanted' = wanted
      BY <2>1, <2>2, <2>3, <2>9 DEF CartInv, CartTypes, CartLines, KeptOrOrdered
    <3>7. SumOf(f, Submissions) \in Nat /\ SumOf(g, Submissions) \in Nat
      BY <3>2, CartAssumption, SumType
    <3> QED BY <3>1, <3>4, <3>5, <3>6, <3>7
  <2> QED BY <2>5, <2>8, <2>9 DEF CartInv, KeptOrOrdered, OneOrderOfCart
<1> QED BY <1>1, <1>2

LEMMA AnswerMissedKeeps ==
    ASSUME CartInv, trouble = {}, NEW s \in Submissions, AnswerMissed(s)
    PROVE  CartInv'
<1> DEFINE to == IF sent[s].stage = "placed" THEN "missed" ELSE "kept"
<1>1. sent' = [sent EXCEPT ![s].stage = to] /\ sent[s].stage # "cleared"
      /\ UNCHANGED <<stored, lines, wanted>>
  BY DEF AnswerMissed
<1>2. to \in {"placed", "refused", "kept", "missed"} /\ to # "placed"
  OBVIOUS
<1> HIDE DEF to
<1> QED BY <1>1, <1>2, StageMoves

LEMMA CartStep ==
    ASSUME CartInv, [CartNext]_cartVars
    PROVE  CartInv'
<1>1. CASE UNCHANGED cartVars
  <2>1. UNCHANGED <<stored, lines, sent, wanted, trouble>>
    BY <1>1 DEF cartVars
  <2>2. \A v \in Variants : In(v, {"cleared"})' = In(v, {"cleared"})
    BY <2>1, InSame
  <2>3. UnderWay' = UnderWay
    BY <2>1 DEF UnderWay
  <2> QED BY <2>1, <2>2, <2>3 DEF CartInv, CartTypes, KeptOrOrdered, OneOrderOfCart
<1>2. ASSUME NEW t \in Tabs, Leave(t) PROVE CartInv'
  <2>1. UNCHANGED <<stored, lines, sent, wanted, trouble>>
    BY <1>2 DEF Leave
  <2>2. \A v \in Variants : In(v, {"cleared"})' = In(v, {"cleared"})
    BY <2>1, InSame
  <2>3. UnderWay' = UnderWay
    BY <2>1 DEF UnderWay
  <2> QED BY <2>1, <2>2, <2>3 DEF CartInv, CartTypes, KeptOrOrdered, OneOrderOfCart
<1> QED BY <1>1, <1>2, PutKeeps, ReloadTabKeeps, SendOrderKeeps, ServerAnswersKeeps,
           AnsweredKeeps, AnswerMissedKeeps DEF CartNext

\* What is under way is no more than what the storage has.
LEMMA CartSound == CartInv => CartAccounted
<1> SUFFICES ASSUME CartInv, trouble = {}, NEW v \in Variants
             PROVE  /\ stored[v] + In(v, {"cleared"}) = wanted[v]
                    /\ In(v, {"flying", "placed"}) <= stored[v]
  BY DEF CartAccounted
<1>1. stored[v] + In(v, {"cleared"}) = wanted[v]
  BY DEF CartInv, KeptOrOrdered
<1> DEFINE f == [s \in Submissions |->
                   IF sent[s].stage \in {"flying", "placed"} THEN sent[s].lines[v] ELSE 0]
           none == [s \in Submissions |-> 0]
<1>2. In(v, {"flying", "placed"}) = SumOf(f, Submissions)
  BY DEF In
<1>3. \A s \in Submissions : f[s] \in Nat /\ none[s] \in Nat /\ none[s] = 0
  BY DEF CartInv, CartTypes, Submission, CartLines
<1>4. \A s \in Submissions : s \in UnderWay \/ f[s] = 0
  BY DEF UnderWay
<1>5. \A s \in UnderWay : s \in Submissions /\ f[s] = stored[v]
  BY DEF UnderWay, CartInv, OneOrderOfCart
<1>6. stored[v] \in Nat
  BY DEF CartInv, CartTypes, CartLines
<1> HIDE DEF f, none
<1>7. CASE UnderWay = {}
  <2>1. SumOf(f, Submissions) = 0
    BY <1>3, <1>4, <1>7, CartAssumption, SumZero
  <2> QED BY <1>1, <1>2, <1>6, <2>1
<1>8. ASSUME NEW s \in UnderWay PROVE SumOf(f, Submissions) = stored[v]
  <2>1. SumOf(none, Submissions) = 0
    BY <1>3, CartAssumption, SumZero
  <2>2. \A r \in Submissions \ {s} : none[r] = f[r]
    BY <1>3, <1>4 DEF CartInv, OneOrderOfCart
  <2>3. SumOf(f, Submissions) + none[s] = SumOf(none, Submissions) + f[s]
    BY <1>3, <1>5, <2>2, CartAssumption, SumChange
  <2>4. SumOf(f, Submissions) \in Nat
    BY <1>3, CartAssumption, SumType
  <2> QED BY <1>3, <1>5, <1>6, <2>1, <2>3, <2>4
<1> QED BY <1>1, <1>2, <1>6, <1>7, <1>8

-----------------------------------------------------------------------------
(* The shopper's session                                                   *)

AwaitedIn(requests) == {r \in requests : ~r.cancelled}

\* What a tab waits for is about the session it holds; a closed one holds none.
TabOwn(v) ==
    /\ \A r \in AwaitedIn(asked[v]) : screen[v] = "account" /\ r.session = memory[v]
    /\ screen[v] = "account" => memory[v] # 0
    /\ screen[v] = "closed" => memory[v] = 0

SessionInv ==
    /\ SessionTypeOK
    /\ \A pair \in turnedOut : pair[1] = pair[2]
    /\ \A v \in Views : TabOwn(v)

LEMMA SessionsAreOwn == SessionInv => SessionsOwn
  BY DEF SessionInv, SessionsOwn, TabOwn, AwaitedIn

LEMMA SessionInitially ==
    ASSUME SessionInit
    PROVE  SessionInv
<1>1. SessionTypeOK
  BY SignInBound DEF SessionInit, SessionTypeOK
<1> QED BY <1>1 DEF SessionInit, SessionInv, TabOwn, AwaitedIn

\* One tab moves, and the others see nothing of it.
LEMMA OneTabMoves ==
    ASSUME SessionInv, NEW v \in Views, SessionTypeOK',
           \A w \in Views \ {v} : /\ screen'[w] = screen[w] /\ memory'[w] = memory[w]
                                  /\ asked'[w] = asked[w],
           TabOwn(v)', \A pair \in turnedOut' : pair[1] = pair[2]
    PROVE  SessionInv'
<1>1. \A w \in Views \ {v} : TabOwn(w)'
  BY DEF SessionInv, TabOwn
<1> QED BY <1>1 DEF SessionInv

\* The page that is shown waits for its own request, if it is an account page
\* with a session; every other request is cancelled.
LEMMA ShowOwn ==
    ASSUME SessionTypeOK, NEW v \in Views, NEW to \in {"shop", "signIn", "account"},
           NEW s \in 0 .. MaxSignIns, Show(v, to, s)
    PROVE  /\ asked' \in [Views -> SUBSET [session : Tokens, cancelled : BOOLEAN]]
           /\ screen' \in [Views -> {"closed", "shop", "signIn", "account"}]
           /\ busy' \subseteq Views
           /\ \A w \in Views \ {v} : screen'[w] = screen[w] /\ asked'[w] = asked[w]
           /\ \A r \in AwaitedIn(asked'[v]) : screen'[v] = "account" /\ r.session = s
           /\ screen'[v] = "account" => s # 0
        /\ screen'[v] # "closed"
      /\ screen'[v] # "closed"
           /\ screen'[v] # "closed"
<1> DEFINE Request == [session : Tokens, cancelled : BOOLEAN]
           own == IF to = "account" /\ s # 0 THEN {Ask(s, FALSE)} ELSE {}
           new == Cancelled(asked[v]) \cup own
           page == IF to = "account" /\ s = 0 THEN "signIn" ELSE to
<1>1. asked \in [Views -> SUBSET Request] /\ screen \in [Views -> {"closed", "shop", "signIn", "account"}]
      /\ busy \subseteq Views
  BY DEF SessionTypeOK
<1>2. Cancelled(asked[v]) \subseteq Request /\ \A r \in Cancelled(asked[v]) : r.cancelled
  <2>1. \A r \in asked[v] : r.session \in Tokens
    BY <1>1
  <2>2. \A r \in asked[v] : Ask(r.session, TRUE) \in Request /\ Ask(r.session, TRUE).cancelled
    BY <2>1 DEF Ask
  <2> HIDE DEF Request
  <2> QED BY <2>2, Zenon DEF Cancelled
<1>3. own \subseteq Request /\ \A r \in own : r.session = s /\ page = "account" /\ ~r.cancelled
  <2>1. s # 0 => s \in Tokens
    BY SignInBound DEF Tokens
  <2>2. s # 0 => /\ Ask(s, FALSE) \in Request /\ Ask(s, FALSE).session = s
                 /\ ~Ask(s, FALSE).cancelled
    BY <2>1 DEF Ask
  <2> HIDE DEF Request
  <2> QED BY <2>2
<1>4. asked' = [asked EXCEPT ![v] = new] /\ screen' = [screen EXCEPT ![v] = page]
  BY DEF Show
<1>5. busy' = busy \/ busy' = busy \ {v}
  BY DEF Show
<1>6. page \in {"shop", "signIn", "account"} /\ (page = "account" => s # 0)
  OBVIOUS
<1>7. new \in SUBSET Request /\ \A r \in AwaitedIn(new) : r \in own
  BY <1>2, <1>3 DEF AwaitedIn
<1> HIDE DEF new, own, page, Request
<1>8. asked'[v] = new /\ screen'[v] = page
  BY <1>1, <1>4
<1>9. asked' \in [Views -> SUBSET Request]
  BY <1>1, <1>4, <1>7
<1>10. \A w \in Views \ {v} : screen'[w] = screen[w] /\ asked'[w] = asked[w]
  BY <1>1, <1>4
<1>11. screen' \in [Views -> {"closed", "shop", "signIn", "account"}]
  BY <1>1, <1>4, <1>6
<1>12. \A r \in AwaitedIn(asked'[v]) : screen'[v] = "account" /\ r.session = s
  BY <1>3, <1>7, <1>8
<1> QED BY <1>1, <1>5, <1>6, <1>8, <1>9, <1>10, <1>11, <1>12 DEF Request

LEMMA TabOpensOrCloses ==
    ASSUME SessionInv, NEW v \in Views, Open(v) \/ Close(v)
    PROVE  SessionInv'
<1>1. SessionTypeOK'
  <2>1. 0 \in 0 .. obtained /\ 0 \in 0 .. MaxSignIns
    BY SignInBound DEF SessionInv, SessionTypeOK
  <2> QED BY <2>1 DEF Open, Close, SessionInv, SessionTypeOK
<1>2. \A w \in Views \ {v} : screen'[w] = screen[w] /\ memory'[w] = memory[w] /\ asked'[w] = asked[w]
  BY DEF Open, Close, SessionInv, SessionTypeOK
<1>3. TabOwn(v)'
  <2>1. screen'[v] # "account"
    BY DEF Open, Close, SessionInv, SessionTypeOK
  <2>2. AwaitedIn(asked'[v]) = {}
    <3>1. CASE Open(v)
      BY <3>1 DEF Open, SessionInv, TabOwn
    <3>2. CASE Close(v)
      BY <3>2 DEF Close, SessionInv, SessionTypeOK, AwaitedIn
    <3> QED BY <3>1, <3>2
  <2>3. screen'[v] = "closed" => memory'[v] = 0
    BY DEF Open, Close, SessionInv, SessionTypeOK
  <2> QED BY <2>1, <2>2, <2>3 DEF TabOwn
<1>4. turnedOut' = turnedOut
  BY DEF Open, Close
<1> QED BY <1>1, <1>2, <1>3, <1>4, OneTabMoves DEF SessionInv

LEMMA VisitKeeps ==
    ASSUME SessionInv, NEW v \in Views, NEW to \in {"shop", "signIn", "account"}, Visit(v, to)
    PROVE  SessionInv'
<1>1. memory[v] \in 0 .. obtained /\ memory[v] \in 0 .. MaxSignIns
  BY SignInBound DEF SessionInv, SessionTypeOK
<1>2. Show(v, to, memory[v]) /\ UNCHANGED <<obtained, lapsed, saved, memory, proving, turnedOut>>
  BY DEF Visit
<1>3. SessionTypeOK
  BY DEF SessionInv
<1>4. /\ asked' \in [Views -> SUBSET [session : Tokens, cancelled : BOOLEAN]]
      /\ screen' \in [Views -> {"closed", "shop", "signIn", "account"}]
      /\ busy' \subseteq Views
      /\ \A w \in Views \ {v} : screen'[w] = screen[w] /\ asked'[w] = asked[w]
      /\ \A r \in AwaitedIn(asked'[v]) : screen'[v] = "account" /\ r.session = memory[v]
      /\ screen'[v] = "account" => memory[v] # 0
      /\ screen'[v] # "closed"
  BY ONLY <1>1, <1>2, <1>3, ShowOwn, v \in Views, to \in {"shop", "signIn", "account"}
<1>5. SessionTypeOK'
  BY <1>2, <1>3, <1>4 DEF SessionTypeOK
<1>6. TabOwn(v)'
  BY <1>2, <1>4 DEF TabOwn
<1> QED BY <1>2, <1>4, <1>5, <1>6, OneTabMoves DEF SessionInv

LEMMA CodeAcceptedKeeps ==
    ASSUME SessionInv, NEW v \in Views, CodeAccepted(v)
    PROVE  SessionInv'
<1> DEFINE s == obtained + 1
<1>1. /\ s \in 0 .. MaxSignIns /\ obtained' = s /\ s \in 0 .. s /\ obtained \in Nat
      /\ \A x \in 0 .. obtained : x \in 0 .. s
  BY SignInBound DEF CodeAccepted, SessionInv, SessionTypeOK
<1>2. /\ Show(v, "account", s) /\ UNCHANGED <<lapsed, turnedOut>>
      /\ memory' = [memory EXCEPT ![v] = s] /\ saved' \in {saved, s}
      /\ proving' = [proving EXCEPT ![v] = @ - 1] /\ proving[v] > 0
  BY DEF CodeAccepted, Store
<1>3. SessionTypeOK
  BY DEF SessionInv
<1> HIDE DEF s
<1>4. /\ asked' \in [Views -> SUBSET [session : Tokens, cancelled : BOOLEAN]]
      /\ screen' \in [Views -> {"closed", "shop", "signIn", "account"}]
      /\ busy' \subseteq Views
      /\ \A w \in Views \ {v} : screen'[w] = screen[w] /\ asked'[w] = asked[w]
      /\ \A r \in AwaitedIn(asked'[v]) : screen'[v] = "account" /\ r.session = s
      /\ screen'[v] = "account" => s # 0
      /\ screen'[v] # "closed"
  BY ONLY <1>1, <1>2, <1>3, ShowOwn, v \in Views
<1>5. memory' \in [Views -> 0 .. s] /\ memory'[v] = s /\ \A w \in Views \ {v} : memory'[w] = memory[w]
  BY <1>1, <1>2, <1>3 DEF SessionTypeOK
<1>6. proving' \in [Views -> 0 .. MaxSignIns]
  <2>1. proving[v] - 1 \in 0 .. MaxSignIns
    BY <1>2, <1>3, SignInBound DEF SessionTypeOK
  <2> QED BY <1>2, <1>3, <2>1 DEF SessionTypeOK
<1>7. saved' \in 0 .. s
  BY <1>1, <1>2, <1>3 DEF SessionTypeOK
<1>8. SessionTypeOK'
  BY <1>1, <1>2, <1>3, <1>4, <1>5, <1>6, <1>7 DEF SessionTypeOK
<1>9. TabOwn(v)'
  BY <1>4, <1>5 DEF TabOwn
<1> QED BY <1>2, <1>4, <1>5, <1>8, <1>9, OneTabMoves DEF SessionInv

LEMMA SignOutKeeps ==
    ASSUME SessionInv, NEW v \in Views, SignOut(v)
    PROVE  SessionInv'
<1>1. SessionTypeOK
  BY DEF SessionInv
<1>2. /\ Show(v, screen[v], 0) /\ memory[v] # 0
      /\ memory' = [memory EXCEPT ![v] = 0] /\ saved' \in {saved, 0}
      /\ UNCHANGED <<obtained, lapsed, proving, turnedOut>>
  BY DEF SignOut, Clear, Store
<1>3. 0 \in 0 .. MaxSignIns /\ 0 \in 0 .. obtained
  BY <1>1, SignInBound DEF SessionTypeOK
<1>4. screen[v] # "closed"
  BY <1>2 DEF SessionInv, TabOwn
<1>5. SessionInv'
  <2>1. screen[v] \in {"shop", "signIn", "account"}
    BY <1>1, <1>4 DEF SessionTypeOK
  <2>2. /\ asked' \in [Views -> SUBSET [session : Tokens, cancelled : BOOLEAN]]
        /\ screen' \in [Views -> {"closed", "shop", "signIn", "account"}]
        /\ busy' \subseteq Views
        /\ \A w \in Views \ {v} : screen'[w] = screen[w] /\ asked'[w] = asked[w]
        /\ \A r \in AwaitedIn(asked'[v]) : screen'[v] = "account" /\ r.session = 0
        /\ screen'[v] = "account" => 0 # 0
        /\ screen'[v] # "closed"
      /\ screen'[v] # "closed"
    BY ONLY <1>1, <1>2, <1>3, <2>1, ShowOwn, v \in Views
  <2>3. memory' \in [Views -> 0 .. obtained] /\ memory'[v] = 0
        /\ \A w \in Views \ {v} : memory'[w] = memory[w]
    BY <1>1, <1>2, <1>3 DEF SessionTypeOK
  <2>4. SessionTypeOK'
    BY <1>1, <1>2, <1>3, <2>2, <2>3 DEF SessionTypeOK
  <2>5. TabOwn(v)'
    BY <2>2, <2>3 DEF TabOwn
  <2> QED BY <1>2, <2>2, <2>3, <2>4, <2>5, OneTabMoves DEF SessionInv
<1> QED BY <1>5

LEMMA CodesKeep ==
    ASSUME SessionInv, NEW v \in Views, SubmitCode(v) \/ CodeRejected(v)
    PROVE  SessionInv'
<1>1. UNCHANGED <<obtained, lapsed, saved, screen, memory, asked, turnedOut>> /\ busy' \subseteq Views
  BY DEF SubmitCode, CodeRejected, SessionInv, SessionTypeOK
<1>2. proving' \in [Views -> 0 .. MaxSignIns]
  <2>1. proving[v] \in Nat /\ obtained \in Nat /\ proving[v] <= MaxSignIns
    BY SignInBound DEF SessionInv, SessionTypeOK
  <2>2. CASE SubmitCode(v)
    <3>1. proving[v] + 1 \in 0 .. MaxSignIns
      BY <2>1, <2>2, SignInBound DEF SubmitCode
    <3> QED BY <2>2, <3>1 DEF SubmitCode, SessionInv, SessionTypeOK
  <2>3. CASE CodeRejected(v)
    <3>1. proving[v] - 1 \in 0 .. MaxSignIns
      BY <2>1, <2>3, SignInBound DEF CodeRejected
    <3> QED BY <2>3, <3>1 DEF CodeRejected, SessionInv, SessionTypeOK
  <2> QED BY <2>2, <2>3
<1>3. SessionTypeOK'
  BY <1>1, <1>2 DEF SessionInv, SessionTypeOK
<1> QED BY <1>1, <1>3, OneTabMoves DEF SessionInv, TabOwn

LEMMA AnswersKeep ==
    ASSUME SessionInv, NEW v \in Views, NEW r \in asked[v], TurnedAway(v, r) \/ Heard(v, r)
    PROVE  SessionInv'
<1>1. SessionTypeOK /\ TabOwn(v)
  BY DEF SessionInv
<1>2. /\ asked' \in [Views -> SUBSET [session : Tokens, cancelled : BOOLEAN]]
      /\ asked'[v] = asked[v] \ {r} /\ \A w \in Views \ {v} : asked'[w] = asked[w]
  BY <1>1 DEF TurnedAway, Heard, Received, SessionTypeOK
<1>3. CASE Heard(v, r)
  <2>1. UNCHANGED <<obtained, lapsed, saved, screen, memory, proving, busy, turnedOut>>
    BY <1>3 DEF Heard
  <2>2. SessionTypeOK'
    BY <1>1, <1>2, <2>1 DEF SessionTypeOK
  <2>3. TabOwn(v)'
    BY <1>1, <1>2, <2>1 DEF TabOwn, AwaitedIn
  <2> QED BY <1>2, <2>1, <2>2, <2>3, OneTabMoves DEF SessionInv
<1>4. CASE TurnedAway(v, r)
  <2>1. /\ ~r.cancelled /\ turnedOut' = turnedOut \cup {<<r.session, memory[v]>>}
        /\ memory' = [memory EXCEPT ![v] = 0] /\ saved' \in {saved, 0}
        /\ screen' = [screen EXCEPT ![v] = "signIn"]
        /\ UNCHANGED <<obtained, lapsed, proving, busy>>
    BY <1>4 DEF TurnedAway, Clear, Store
  <2>2. 0 \in 0 .. obtained
    BY <1>1, SignInBound DEF SessionTypeOK
  <2>3. SessionTypeOK'
    BY <1>1, <1>2, <2>1, <2>2 DEF SessionTypeOK
  <2>4. r \in AwaitedIn(asked[v]) /\ r.session = memory[v]
    BY <1>1, <2>1 DEF TabOwn, AwaitedIn
  <2>5. AwaitedIn(asked'[v]) = {}
    <3>1. \A q \in AwaitedIn(asked[v]) : q = r
      <4> TAKE q \in AwaitedIn(asked[v])
      <4>1. q \in [session : Tokens, cancelled : BOOLEAN] /\ r \in [session : Tokens, cancelled : BOOLEAN]
        BY <1>1 DEF SessionTypeOK, AwaitedIn
      <4>2. q.session = r.session /\ ~q.cancelled /\ ~r.cancelled
        BY <1>1, <2>1, <2>4 DEF TabOwn, AwaitedIn
      <4> QED BY <4>1, <4>2
    <3> QED BY <1>2, <3>1 DEF AwaitedIn
  <2>6. screen'[v] = "signIn"
    BY <1>1, <2>1 DEF SessionTypeOK
  <2>7. TabOwn(v)'
    BY <2>5, <2>6 DEF TabOwn
  <2>8. \A w \in Views \ {v} : screen'[w] = screen[w] /\ memory'[w] = memory[w]
    BY <1>1, <2>1 DEF SessionTypeOK
  <2>9. \A pair \in turnedOut' : pair[1] = pair[2]
    BY <2>1, <2>4 DEF SessionInv
  <2> QED BY <1>2, <2>3, <2>7, <2>8, <2>9, OneTabMoves
<1> QED BY <1>3, <1>4

LEMMA SessionStep ==
    ASSUME SessionInv, [SessionNext]_sessionVars
    PROVE  SessionInv'
<1>1. CASE UNCHANGED sessionVars
  BY <1>1 DEF sessionVars, SessionInv, SessionTypeOK, TabOwn
<1>2. ASSUME NEW s \in 1 .. obtained, Lapse(s) PROVE SessionInv'
  <2>1. s \in Tokens
    BY SignInBound DEF SessionInv, SessionTypeOK, Tokens
  <2> QED BY <1>2, <2>1 DEF Lapse, SessionInv, SessionTypeOK, TabOwn
<1> QED BY <1>1, <1>2, TabOpensOrCloses, VisitKeeps, CodeAcceptedKeeps, SignOutKeeps, CodesKeep,
           AnswersKeep DEF SessionNext

-----------------------------------------------------------------------------
(* The till's setup                                                        *)

Nobodies == Tenants \cup {NoTenant}

SetupInv ==
    /\ signedIn \in Nobodies
    /\ localStorage \in [{"session", "device", "place", "rate"} -> Nobodies]
    /\ setup \in [Setups -> [awaits : {"nothing", "device", "locations"}, token : Nobodies]]
    /\ phase \in [name : {"login", "setup", "pick", "sale"}, place : Nobodies]
    /\ localStorage.session = signedIn
    /\ localStorage.rate \in {signedIn, NoTenant}
    /\ signedIn # NoTenant =>
         /\ vatRate \in {signedIn, "fallback"}
         /\ phase.name \in {"sale", "pick"} => phase.place = signedIn
         /\ phase.name = "setup" => setupError \/ Running # {}
    /\ \A n, m \in Running : n = m
    /\ \A n \in Running : setup[n].token = signedIn /\ signedIn # NoTenant
                          /\ phase.name = "setup" /\ ~setupError

LEMMA SetupIsSound == SetupInv => SetupSound
<1> SUFFICES ASSUME SetupInv PROVE SetupSound
  OBVIOUS
<1>1. Cardinality(Running) = 0 \/ Cardinality(Running) = 1
  <2>1. Running = {} \/ \E n : Running = {n}
    BY DEF SetupInv
  <2> QED BY <2>1, FS_EmptySet, FS_Singleton, Zenon
<1>2. Cardinality(Running) <= 1
  BY <1>1
<1> QED BY <1>2 DEF SetupInv, SetupSound

LEMMA SetupInitially ==
    ASSUME SetupInit
    PROVE  SetupInv
<1>1. Running = {}
  BY DEF SetupInit, Running
<1> QED BY <1>1 DEF SetupInit, SetupInv, Nobodies, NoSetup, Screen

\* A setup that starts is the only one.
LEMMA BootstrapRuns ==
    ASSUME SetupInv, Running = {}, NEW n \in Setups, NEW token \in Nobodies, Bootstrap(n, token)
    PROVE  /\ setup' \in [Setups -> [awaits : {"nothing", "device", "locations"}, token : Nobodies]]
           /\ Running' = {n} /\ setup'[n].token = token
           /\ phase' = Screen("setup", NoTenant)
<1> DEFINE request == FirstRequest(token)
<1>1. request.awaits \in {"device", "locations"} /\ request.token = token
      /\ request \in [awaits : {"nothing", "device", "locations"}, token : Nobodies]
      /\ request # NoSetup
  BY DEF FirstRequest, NoSetup
<1>2. setup' = [setup EXCEPT ![n] = request] /\ phase' = Screen("setup", NoTenant)
  BY DEF Bootstrap
<1> HIDE DEF request
<1>3. setup' \in [Setups -> [awaits : {"nothing", "device", "locations"}, token : Nobodies]]
      /\ setup'[n] = request /\ \A m \in Setups \ {n} : setup'[m] = setup[m]
  BY <1>1, <1>2 DEF SetupInv
<1>4. Running' = {n}
  BY <1>1, <1>3 DEF Running
<1> QED BY <1>1, <1>2, <1>3, <1>4

LEMMA LoggedInKeeps ==
    ASSUME SetupInv, NEW t \in Tenants, LoggedIn(t)
    PROVE  SetupInv'
<1>1. t # NoTenant /\ t \in Nobodies
  BY SetupAssumption DEF Nobodies
<1>2. Running = {} /\ localStorage.rate = NoTenant
  BY DEF LoggedIn, SetupInv
<1>3. PICK cached \in BOOLEAN :
        localStorage' = [localStorage EXCEPT !.session = t, !.rate = IF cached THEN t ELSE @]
  BY DEF LoggedIn
<1>4. /\ localStorage' \in [{"session", "device", "place", "rate"} -> Nobodies]
      /\ localStorage'.session = t /\ localStorage'.rate \in {t, NoTenant}
  BY <1>1, <1>2, <1>3 DEF SetupInv
<1>5. vatRate' \in {t, "fallback"} /\ signedIn' = t /\ setupError' = setupError
  BY <1>4 DEF LoggedIn, resolveVatRate
<1>6. CASE setupError
  <2>1. phase' = Screen("setup", NoTenant) /\ setup' = setup
    BY <1>6 DEF LoggedIn
  <2>2. Running' = {}
    BY <1>2, <2>1 DEF Running
  <2> QED BY <1>1, <1>4, <1>5, <1>6, <2>1, <2>2 DEF SetupInv, Screen, Nobodies
<1>7. CASE ~setupError
  <2>1. PICK n \in Setups : Bootstrap(n, t)
    BY <1>7 DEF LoggedIn
  <2>2. /\ setup' \in [Setups -> [awaits : {"nothing", "device", "locations"}, token : Nobodies]]
        /\ Running' = {n} /\ setup'[n].token = t
        /\ phase' = Screen("setup", NoTenant)
    BY <1>1, <1>2, <2>1, BootstrapRuns
  <2> QED BY <1>1, <1>4, <1>5, <1>7, <2>2 DEF SetupInv, Screen, Nobodies
<1> QED BY <1>6, <1>7

LEMMA RetryKeeps ==
    ASSUME SetupInv, Retry
    PROVE  SetupInv'
<1>1. /\ signedIn # NoTenant /\ setupError' = FALSE /\ Running = {} /\ signedIn \in Nobodies
      /\ UNCHANGED <<localStorage, signedIn, vatRate>>
  BY DEF Retry, SetupInv
<1>2. PICK n \in Setups : Bootstrap(n, signedIn)
  BY DEF Retry
<1>3. /\ setup' \in [Setups -> [awaits : {"nothing", "device", "locations"}, token : Nobodies]]
      /\ Running' = {n} /\ setup'[n].token = signedIn
      /\ phase' = Screen("setup", NoTenant)
  BY <1>1, <1>2, BootstrapRuns
<1> QED BY <1>1, <1>3 DEF SetupInv, Screen, Nobodies

LEMMA DeviceRegisteredKeeps ==
    ASSUME SetupInv, NEW n \in Setups, DeviceRegistered(n)
    PROVE  SetupInv'
<1> DEFINE next == [awaits |-> "locations", token |-> signedIn]
<1>1. n \in Running /\ Running = {n} /\ signedIn \in Nobodies /\ setup[n].token = signedIn
      /\ signedIn # NoTenant /\ ~setupError
  BY DEF DeviceRegistered, Running, NoSetup, SetupInv
<1>2. /\ localStorage' = [localStorage EXCEPT !.device = signedIn]
      /\ phase' = Screen("setup", NoTenant) /\ setup' = [setup EXCEPT ![n] = next]
      /\ UNCHANGED <<signedIn, vatRate, setupError>>
  BY <1>1 DEF DeviceRegistered
<1>3. next \in [awaits : {"nothing", "device", "locations"}, token : Nobodies] /\ next # NoSetup
      /\ next.token = signedIn
  BY <1>1 DEF NoSetup
<1> HIDE DEF next
<1>4. setup' \in [Setups -> [awaits : {"nothing", "device", "locations"}, token : Nobodies]]
      /\ setup'[n] = next /\ \A m \in Setups \ {n} : setup'[m] = setup[m]
  BY <1>2, <1>3 DEF SetupInv
<1>5. Running' = {n}
  BY <1>1, <1>3, <1>4 DEF Running
<1>6. /\ localStorage' \in [{"session", "device", "place", "rate"} -> Nobodies]
      /\ localStorage'.session = localStorage.session /\ localStorage'.rate = localStorage.rate
  BY <1>1, <1>2 DEF SetupInv
<1> QED BY <1>1, <1>2, <1>3, <1>4, <1>5, <1>6 DEF SetupInv, Screen, Nobodies

LEMMA SetupEnds ==
    ASSUME SetupInv, NEW n \in Setups, LocationsListed(n) \/ SetupFails(n)
    PROVE  SetupInv'
<1>1. n \in Running /\ Running = {n} /\ setup[n].token = signedIn /\ signedIn # NoTenant
      /\ signedIn \in Nobodies
  BY DEF LocationsListed, SetupFails, Running, NoSetup, SetupInv
<1>2. setup' = [setup EXCEPT ![n] = NoSetup] /\ UNCHANGED <<localStorage, signedIn, vatRate>>
  BY DEF LocationsListed, SetupFails
<1>3. NoSetup \in [awaits : {"nothing", "device", "locations"}, token : Nobodies]
  BY DEF NoSetup, Nobodies
<1>4. setup' \in [Setups -> [awaits : {"nothing", "device", "locations"}, token : Nobodies]]
      /\ setup'[n] = NoSetup /\ \A m \in Setups \ {n} : setup'[m] = setup[m]
  BY <1>2, <1>3 DEF SetupInv
<1>5. Running' = {}
  BY <1>1, <1>4 DEF Running
<1>6. CASE LocationsListed(n)
  <2>1. phase' = Screen("sale", signedIn) \/ phase' = Screen("pick", signedIn)
    BY <1>1, <1>6 DEF LocationsListed
  <2>2. phase' \in [name : {"login", "setup", "pick", "sale"}, place : Nobodies]
        /\ phase'.place = signedIn /\ phase'.name # "setup"
    BY <1>1, <2>1 DEF Screen
  <2> QED BY <1>1, <1>2, <1>4, <1>5, <2>2 DEF SetupInv
<1>7. CASE SetupFails(n)
  <2>1. phase' = Screen("setup", NoTenant) /\ setupError'
    BY <1>7 DEF SetupFails
  <2>2. phase' \in [name : {"login", "setup", "pick", "sale"}, place : Nobodies]
        /\ phase'.name = "setup"
    BY <2>1 DEF Screen, Nobodies
  <2> QED BY <1>1, <1>2, <1>4, <1>5, <2>1, <2>2 DEF SetupInv
<1> QED BY <1>6, <1>7

LEMMA LocationPickedKeeps ==
    ASSUME SetupInv, LocationPicked
    PROVE  SetupInv'
<1>1. signedIn # NoTenant /\ phase.place = signedIn /\ phase.name = "pick" /\ signedIn \in Nobodies
  BY DEF LocationPicked, SetupInv
<1>2. /\ localStorage' = [localStorage EXCEPT !.place = signedIn]
      /\ phase' \in {phase, Screen("sale", signedIn)}
      /\ UNCHANGED <<signedIn, vatRate, setupError, setup>>
  BY <1>1 DEF LocationPicked
<1>3. Running = {} /\ Running' = {}
  BY <1>1, <1>2 DEF SetupInv, Running
<1>4. phase' \in [name : {"login", "setup", "pick", "sale"}, place : Nobodies]
      /\ phase'.place = signedIn /\ phase'.name # "setup"
  BY <1>1, <1>2 DEF SetupInv, Screen
<1>5. /\ localStorage' \in [{"session", "device", "place", "rate"} -> Nobodies]
      /\ localStorage'.session = localStorage.session /\ localStorage'.rate = localStorage.rate
  BY <1>1, <1>2 DEF SetupInv
<1> QED BY <1>2, <1>3, <1>4, <1>5 DEF SetupInv

LEMMA LogoutKeeps ==
    ASSUME SetupInv, Logout
    PROVE  SetupInv'
<1>1. Running = {}
  BY DEF Logout, MaySignOut, SetupInv
<1>2. /\ localStorage' = Forgotten(localStorage) /\ signedIn' = NoTenant
      /\ phase' = Screen("login", NoTenant) /\ UNCHANGED <<vatRate, setupError, setup>>
  BY DEF Logout
<1>3. Running' = {}
  BY <1>1, <1>2 DEF Running
<1>4. /\ localStorage' \in [{"session", "device", "place", "rate"} -> Nobodies]
      /\ localStorage'.session = NoTenant /\ localStorage'.rate = NoTenant
  BY <1>2 DEF SetupInv, Forgotten, Nobodies
<1> QED BY <1>2, <1>3, <1>4 DEF SetupInv, Screen, Nobodies

LEMMA ReloadTillKeeps ==
    ASSUME SetupInv, ReloadTill
    PROVE  SetupInv'
<1>1. /\ signedIn' = signedIn /\ localStorage' = localStorage /\ setupError' = FALSE
      /\ signedIn \in Nobodies /\ vatRate' \in {signedIn, "fallback"}
      /\ phase' = Screen(IF signedIn = NoTenant THEN "login" ELSE "setup", NoTenant)
  BY DEF ReloadTill, SetupInv, resolveVatRate
<1>2. phase' \in [name : {"login", "setup", "pick", "sale"}, place : Nobodies]
      /\ phase'.name = IF signedIn = NoTenant THEN "login" ELSE "setup"
  BY <1>1 DEF Screen, Nobodies
<1>3. NoSetup \in [awaits : {"nothing", "device", "locations"}, token : Nobodies]
  BY DEF NoSetup, Nobodies
<1>4. CASE signedIn = NoTenant
  <2>1. setup' = [n \in Setups |-> NoSetup]
    BY <1>4 DEF ReloadTill, SetupInv
  <2>2. Running' = {} /\ setup' \in [Setups -> [awaits : {"nothing", "device", "locations"}, token : Nobodies]]
    BY <1>3, <2>1 DEF Running
  <2> QED BY <1>1, <1>2, <1>4, <2>2 DEF SetupInv
<1>5. CASE signedIn # NoTenant
  <2> DEFINE request == FirstRequest(signedIn)
  <2>1. request.token = signedIn /\ request # NoSetup
        /\ request \in [awaits : {"nothing", "device", "locations"}, token : Nobodies]
    BY <1>1 DEF FirstRequest, NoSetup
  <2>2. PICK n \in Setups : setup' = [k \in Setups |-> IF k = n THEN request ELSE NoSetup]
    BY <1>5 DEF ReloadTill, SetupInv
  <2> HIDE DEF request
  <2>3. Running' = {n} /\ setup'[n] = request
        /\ setup' \in [Setups -> [awaits : {"nothing", "device", "locations"}, token : Nobodies]]
    BY <1>3, <2>1, <2>2 DEF Running
  <2> QED BY <1>1, <1>2, <1>5, <2>1, <2>3 DEF SetupInv
<1> QED BY <1>4, <1>5

LEMMA SetupStep ==
    ASSUME SetupInv, [SetupNext]_setupVars
    PROVE  SetupInv'
<1>1. CASE UNCHANGED setupVars
  BY <1>1 DEF setupVars, SetupInv, Running
<1> QED BY <1>1, LoggedInKeeps, RetryKeeps, LocationPickedKeeps, LogoutKeeps, ReloadTillKeeps,
           DeviceRegisteredKeeps, SetupEnds DEF SetupNext

-----------------------------------------------------------------------------
(* The front ends together                                                 *)

ScreensInv ==
    /\ desk = "cart" => CartInv
    /\ desk = "browser" => SessionInv
    /\ desk = "register" => SetupInv

LEMMA ScreensInitially == FrontInit => ScreensInv
  BY CartInitially, SessionInitially, SetupInitially DEF FrontInit, ScreensInv

FrontNext == AtQueue \/ AtCart \/ AtBrowser \/ AtRegister
frontVars == <<desk, vars, cartVars, sessionVars, setupVars>>

LEMMA ScreensStep ==
    ASSUME ScreensInv, [FrontNext]_frontVars
    PROVE  ScreensInv'
<1>1. CASE AtQueue
  BY <1>1 DEF AtQueue, ScreensInv
<1>2. CASE AtCart
  <2>1. CartInv' /\ desk' = "cart"
    BY <1>2, CartStep DEF AtCart, ScreensInv
  <2> QED BY <2>1 DEF ScreensInv
<1>3. CASE AtBrowser
  <2>1. SessionInv' /\ desk' = "browser"
    BY <1>3, SessionStep DEF AtBrowser, ScreensInv
  <2> QED BY <2>1 DEF ScreensInv
<1>4. CASE AtRegister
  <2>1. SetupInv' /\ desk' = "register"
    BY <1>4, SetupStep DEF AtRegister, ScreensInv
  <2> QED BY <2>1 DEF ScreensInv
<1>5. CASE UNCHANGED frontVars
  <2>1. UNCHANGED <<desk, cartVars, sessionVars, setupVars>>
    BY <1>5 DEF frontVars
  <2> QED BY <2>1, CartStep, SessionStep, SetupStep DEF ScreensInv
<1> QED BY <1>1, <1>2, <1>3, <1>4, <1>5 DEF FrontNext

\* With any number of tabs, orders and setups: what a shopper wanted is in the
\* cart or was ordered once, a tab drops no session but the one that was
\* refused and shows nobody else's orders, and the till sells at a location
\* and a rate of the tenant that is signed in.
THEOREM ScreensAlwaysAgree == FrontSpec => []ScreensAgree
<1>1. FrontInit => ScreensInv
  BY ScreensInitially
<1>2. ScreensInv /\ [FrontNext]_frontVars => ScreensInv'
  BY ScreensStep
<1>3. ScreensInv => ScreensAgree
  BY CartSound, SessionsAreOwn, SetupIsSound DEF ScreensInv, ScreensAgree, SessionInv
<1>4. FrontSpec => FrontInit /\ [][FrontNext]_frontVars
  BY DEF FrontSpec, FrontNext, frontVars
<1> QED BY <1>1, <1>2, <1>3, <1>4, PTL
=============================================================================
