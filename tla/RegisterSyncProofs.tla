------------------------- MODULE RegisterSyncProofs -------------------------
(* What TLAPS proves of RegisterSync, for any commands, phones and pages,  *)
(* and of the instance it shares with the other queues.                    *)
EXTENDS MCQueues, NotificationProofs, SumLemmas

-----------------------------------------------------------------------------
(* The overlay                                                             *)

LEMMA InOverlay ==
    ASSUME NEW overlay \in Seq(Commands), NEW c
    PROVE  /\ c \in ToSet(overlay) <=> \E i \in 1 .. Len(overlay) : overlay[i] = c
           /\ c \in ToSet(overlay) <=> Contains(overlay, c)
           /\ c \in ToSet(overlay) => c \in Commands
  BY DEF ToSet, Contains

\* A new command at the end of an overlay that does not have it.
LEMMA AppendedOverlay ==
    ASSUME NEW overlay \in Seq(Commands), NEW c \in Commands,
           IsInjective(overlay), ~Contains(overlay, c)
    PROVE  /\ Append(overlay, c) \in Seq(Commands)
           /\ IsInjective(Append(overlay, c))
           /\ ToSet(Append(overlay, c)) = ToSet(overlay) \cup {c}
<1> DEFINE longer == Append(overlay, c)
           n == Len(overlay)
<1>1. /\ longer \in Seq(Commands) /\ Len(longer) = n + 1 /\ n \in Nat
      /\ DOMAIN longer = 1 .. n + 1 /\ DOMAIN overlay = 1 .. n
      /\ \A i \in 1 .. n : longer[i] = overlay[i]
      /\ longer[n + 1] = c
  OBVIOUS
<1>2. \A i \in 1 .. n : overlay[i] # c
  BY DEF Contains
<1> HIDE DEF longer, n
<1>3. IsInjective(longer)
  <2> SUFFICES ASSUME NEW i \in 1 .. n + 1, NEW j \in 1 .. n + 1, longer[i] = longer[j]
               PROVE  i = j
    BY <1>1 DEF IsInjective
  <2>1. CASE i = n + 1 \/ j = n + 1
    BY <1>1, <1>2, <2>1
  <2>2. CASE i \in 1 .. n /\ j \in 1 .. n
    BY <1>1, <2>2 DEF IsInjective
  <2> QED BY <1>1, <2>1, <2>2
<1>4. ToSet(longer) = ToSet(overlay) \cup {c}
  <2>1. ToSet(longer) = {longer[i] : i \in 1 .. n + 1} /\ ToSet(overlay) = {overlay[i] : i \in 1 .. n}
    BY <1>1 DEF ToSet
  <2>2. 1 .. n + 1 = (1 .. n) \cup {n + 1}
    BY <1>1
  <2> QED BY <1>1, <2>1, <2>2
<1> QED BY <1>1, <1>3, <1>4 DEF longer

\* An overlay without its element i.
LEMMA ShortenedOverlay ==
    ASSUME NEW overlay \in Seq(Commands), NEW i \in 1 .. Len(overlay),
           IsInjective(overlay)
    PROVE  /\ RemoveAt(overlay, i) \in Seq(Commands)
           /\ IsInjective(RemoveAt(overlay, i))
           /\ ToSet(RemoveAt(overlay, i)) = ToSet(overlay) \ {overlay[i]}
<1> DEFINE shorter == RemoveAt(overlay, i)
           n == Len(overlay)
           left == SubSeq(overlay, 1, i - 1)
           right == SubSeq(overlay, i + 1, n)
<1>1. n \in Nat /\ i \in Nat /\ i >= 1 /\ i <= n /\ DOMAIN overlay = 1 .. n
  OBVIOUS
<1>2. /\ left \in Seq(Commands) /\ Len(left) = i - 1
      /\ \A j \in 1 .. i - 1 : left[j] = overlay[j]
  OBVIOUS
<1>3. /\ right \in Seq(Commands) /\ Len(right) = n - i
      /\ \A j \in 1 .. n - i : right[j] = overlay[i + j]
  OBVIOUS
<1>4. shorter = left \o right
  BY DEF RemoveAt
<1> HIDE DEF shorter, left, right, n
<1>5. /\ shorter \in Seq(Commands) /\ Len(shorter) = n - 1 /\ DOMAIN shorter = 1 .. n - 1
      /\ \A j \in 1 .. n - 1 : shorter[j] = IF j < i THEN overlay[j] ELSE overlay[j + 1]
  <2>1. shorter \in Seq(Commands) /\ Len(shorter) = n - 1
    <3>1. shorter \in Seq(Commands) /\ Len(shorter) = Len(left) + Len(right)
      <4>1. left \in Seq(Commands) /\ right \in Seq(Commands)
        BY <1>2, <1>3
      <4> QED BY ONLY <4>1, <1>4
    <3>2. Len(left) = i - 1 /\ Len(right) = n - i
      BY <1>2, <1>3
    <3>3. (i - 1) + (n - i) = n - 1
      BY <1>1
    <3> QED BY <3>1, <3>2, <3>3
  <2>2. \A j \in 1 .. n - 1 : j < i => shorter[j] = overlay[j]
    BY <1>1, <1>2, <1>3, <1>4
  <2>3. \A j \in 1 .. n - 1 : ~(j < i) => shorter[j] = overlay[j + 1]
    <3> SUFFICES ASSUME NEW j \in 1 .. n - 1, ~(j < i)
                 PROVE  shorter[j] = overlay[j + 1]
      OBVIOUS
    <3>1. j \in Len(left) + 1 .. Len(left) + Len(right)
      BY <1>1, <1>2, <1>3
    <3>2. shorter[j] = right[j - Len(left)]
      BY <1>1, <1>2, <1>3, <1>4, <3>1
    <3>3. j - Len(left) \in 1 .. n - i /\ i + (j - Len(left)) = j + 1
      BY <1>1, <1>2, <1>3, <3>1
    <3> QED BY <1>3, <3>2, <3>3
  <2> QED BY <1>1, <2>1, <2>2, <2>3
<1>6. IsInjective(shorter)
  <2> SUFFICES ASSUME NEW j \in 1 .. n - 1, NEW k \in 1 .. n - 1, shorter[j] = shorter[k]
               PROVE  j = k
    BY <1>5 DEF IsInjective
  <2> DEFINE at(x) == IF x < i THEN x ELSE x + 1
  <2>1. at(j) \in 1 .. n /\ at(k) \in 1 .. n /\ overlay[at(j)] = overlay[at(k)]
    BY <1>1, <1>5
  <2>2. at(j) = at(k)
    BY <1>1, <2>1 DEF IsInjective
  <2> QED BY <1>1, <2>2
<1>7. ToSet(shorter) = ToSet(overlay) \ {overlay[i]}
  <2>1. \A j \in 1 .. n - 1 : \E k \in 1 .. n : k # i /\ shorter[j] = overlay[k]
    <3> TAKE j \in 1 .. n - 1
    <3>1. CASE j < i
      BY <1>1, <1>5, <3>1
    <3>2. CASE ~(j < i)
      <4>1. j + 1 \in 1 .. n /\ j + 1 # i /\ shorter[j] = overlay[j + 1]
        BY <1>1, <1>5, <3>2
      <4> QED BY <4>1
    <3> QED BY <3>1, <3>2
  <2>2. \A k \in 1 .. n : k # i => \E j \in 1 .. n - 1 : shorter[j] = overlay[k]
    <3> SUFFICES ASSUME NEW k \in 1 .. n, k # i
                 PROVE  \E j \in 1 .. n - 1 : shorter[j] = overlay[k]
      OBVIOUS
    <3>1. CASE k < i
      BY <1>1, <1>5, <3>1
    <3>2. CASE ~(k < i)
      <4>1. k - 1 \in 1 .. n - 1 /\ ~(k - 1 < i) /\ (k - 1) + 1 = k
        BY <1>1, <3>2
      <4>2. shorter[k - 1] = overlay[k]
        BY <1>5, <4>1
      <4> QED BY <4>1, <4>2
    <3> QED BY <3>1, <3>2
  <2>3. \A k \in 1 .. n : k # i => overlay[k] # overlay[i]
    BY <1>1 DEF IsInjective
  <2>4. /\ \A c : c \in ToSet(shorter) <=> \E j \in 1 .. n - 1 : shorter[j] = c
        /\ \A c : c \in ToSet(overlay) <=> \E k \in 1 .. n : overlay[k] = c
    BY <1>1, <1>5 DEF ToSet
  <2>5. \A c : c \in ToSet(shorter) => c \in ToSet(overlay) /\ c # overlay[i]
    BY <2>1, <2>3, <2>4
  <2>6. \A c : c \in ToSet(overlay) /\ c # overlay[i] => c \in ToSet(shorter)
    BY <2>2, <2>4
  <2> QED BY <2>5, <2>6
<1> QED BY <1>5, <1>6, <1>7 DEF shorter

\* What is discarded is gone, and nothing else.
LEMMA DiscardedOverlay ==
    ASSUME shown \in Seq(Commands), IsInjective(shown), NEW c
    PROVE  /\ Discard(c) \in Seq(Commands)
           /\ IsInjective(Discard(c))
           /\ ToSet(Discard(c)) = ToSet(shown) \ {c}
<1>1. CASE Contains(shown, c)
  <2> DEFINE i == CHOOSE i \in DOMAIN shown : shown[i] = c
  <2>1. i \in 1 .. Len(shown) /\ shown[i] = c
    <3>1. \E j \in DOMAIN shown : shown[j] = c
      BY <1>1 DEF Contains
    <3>2. i \in DOMAIN shown /\ shown[i] = c
      BY <3>1
    <3> QED BY <3>2
  <2>2. Discard(c) = RemoveAt(shown, i)
    BY <1>1 DEF Discard
  <2> HIDE DEF i
  <2> QED BY <2>1, <2>2, ShortenedOverlay
<1>2. CASE ~Contains(shown, c)
  BY <1>2, InOverlay DEF Discard
<1> QED BY <1>1, <1>2

-----------------------------------------------------------------------------
(* The inductive invariant                                                 *)

\* Only other registers insert without committing in the same step.
InsertedByOthers == \A m \in inserted : m.id \in Others

\* What the server answered to this push is so: it has the command, or not.
AnswersTrue ==
    \A c \in Commands :
        /\ results[c] \in Landed => Known(c)
        /\ results[c] = "rejected" => ~Known(c)

\* The server has only what was stored, the store says synced only of what
\* the server has, and a running append is of something not stored yet.
StatusTrue ==
    /\ DOMAIN appending = Commands
    /\ \A c \in Commands :
         /\ Known(c) => commandStatus[c] \in {"pending", "synced"}
         /\ commandStatus[c] = "synced" => Known(c)
         /\ appending[c] > 0 => commandStatus[c] = "none"

\* What is pushed stays pending until it is answered, and what is recorded and
\* dropped was marked first.
PhasesAgree ==
    /\ phase = "push" => \A c \in batch : commandStatus[c] = "pending"
    /\ marked \subseteq Commands
    /\ \A c \in marked : commandStatus[c] \in {"synced", "rejected"}
    /\ phase = "record" => \A c \in marked : commandStatus[c] = "rejected"
    /\ marked # {} => phase \in {"record", "drop"}
    /\ \A c, d \in marked : c = d

SyncInv ==
    /\ RegisterTypeOK
    /\ InsertedByOthers
    /\ AnswersTrue
    /\ StatusTrue
    /\ PhasesAgree
    /\ OverlayIsPending

LEMMA RegisterInitInv == RegisterInit => SyncInv
<1> SUFFICES ASSUME RegisterInit PROVE SyncInv
  OBVIOUS
<1>0. shown = <<>> /\ ToSet(shown) = {}
  BY DEF RegisterInit, ToSet
<1>1. RegisterTypeOK
  BY <1>0 DEF RegisterInit, RegisterTypeOK, CommandStatus, PushStatus, IsInjective
<1>2. InsertedByOthers /\ AnswersTrue /\ StatusTrue /\ PhasesAgree
  BY DEF RegisterInit, InsertedByOthers, AnswersTrue, StatusTrue, PhasesAgree, Known,
         Ids, Landed
<1>3. OverlayIsPending
  BY <1>0 DEF RegisterInit, OverlayIsPending, Pending
<1> QED BY <1>1, <1>2, <1>3 DEF SyncInv

-----------------------------------------------------------------------------
(* CommandLog.append                                                       *)

LEMMA ReadSeqKeeps ==
    ASSUME SyncInv, NEW c \in Commands, ReadSeq(c)
    PROVE  SyncInv'
<1> USE DEF SyncInv, logVars, serverVars, syncVars
<1>1. RegisterTypeOK'
  BY DEF ReadSeq, RegisterTypeOK
<1>2. InsertedByOthers'
  BY DEF ReadSeq, InsertedByOthers
<1>3. AnswersTrue'
  BY DEF ReadSeq, AnswersTrue, Known, Ids, Landed
<1>4. StatusTrue'
  BY DEF ReadSeq, StatusTrue, Known, Ids, RegisterTypeOK
<1>5. PhasesAgree'
  BY DEF ReadSeq, PhasesAgree, RegisterTypeOK
<1>6. OverlayIsPending'
  BY DEF ReadSeq, OverlayIsPending, Pending, RegisterTypeOK
<1> QED BY <1>1, <1>2, <1>3, <1>4, <1>5, <1>6

LEMMA ShowKeeps ==
    ASSUME SyncInv, NEW c \in Commands, Show(c)
    PROVE  SyncInv'
<1> USE DEF SyncInv, logVars, serverVars, syncVars
<1>0. /\ Append(shown, c) \in Seq(Commands) /\ IsInjective(Append(shown, c))
      /\ ToSet(Append(shown, c)) = ToSet(shown) \cup {c}
  BY AppendedOverlay DEF Show, RegisterTypeOK
<1>1. RegisterTypeOK'
  BY <1>0 DEF Show, RegisterTypeOK
<1>2. InsertedByOthers'
  BY DEF Show, InsertedByOthers
<1>3. AnswersTrue'
  BY DEF Show, AnswersTrue, Known, Ids, Landed
<1>4. StatusTrue'
  BY DEF Show, StatusTrue, Known, Ids, RegisterTypeOK
<1>5. PhasesAgree'
  BY DEF Show, PhasesAgree, RegisterTypeOK
<1>6. OverlayIsPending'
  BY <1>0 DEF Show, OverlayIsPending, Pending
<1> QED BY <1>1, <1>2, <1>3, <1>4, <1>5, <1>6

LEMMA TurnDownKeeps ==
    ASSUME SyncInv, NEW c \in Commands, TurnDown(c)
    PROVE  SyncInv'
<1> USE DEF SyncInv, logVars, serverVars, syncVars
<1>0. c \notin ToSet(shown)
  BY InOverlay DEF TurnDown, RegisterTypeOK
<1>1. RegisterTypeOK'
  BY DEF TurnDown, RegisterTypeOK
<1>2. InsertedByOthers'
  BY DEF TurnDown, InsertedByOthers
<1>3. AnswersTrue'
  BY DEF TurnDown, AnswersTrue, Known, Ids, Landed
<1>4. StatusTrue'
  BY DEF TurnDown, StatusTrue, Known, Ids, RegisterTypeOK
<1>5. PhasesAgree'
  BY DEF TurnDown, PhasesAgree, RegisterTypeOK
<1>6. OverlayIsPending'
  BY <1>0 DEF TurnDown, OverlayIsPending, Pending
<1> QED BY <1>1, <1>2, <1>3, <1>4, <1>5, <1>6

LEMMA StoreKeeps ==
    ASSUME SyncInv, NEW c \in Commands, Store(c)
    PROVE  SyncInv'
<1> USE DEF SyncInv, logVars, serverVars, syncVars
<1>0. c \in ToSet(shown)
  BY InOverlay DEF Store, RegisterTypeOK
<1>a. commandStatus[c] = "none" /\ ~Known(c)
  BY DEF Store, StatusTrue
<1>1. RegisterTypeOK'
  BY DEF Store, RegisterTypeOK, CommandStatus
<1>2. InsertedByOthers'
  BY DEF Store, InsertedByOthers
<1>3. AnswersTrue'
  BY DEF Store, AnswersTrue, Known, Ids, Landed
<1>4. StatusTrue'
  BY <1>a DEF Store, StatusTrue, Known, Ids, RegisterTypeOK
<1>5. PhasesAgree'
  BY <1>a DEF Store, PhasesAgree, RegisterTypeOK
<1>6. OverlayIsPending'
  BY <1>0, <1>a DEF Store, OverlayIsPending, Pending, RegisterTypeOK
<1> QED BY <1>1, <1>2, <1>3, <1>4, <1>5, <1>6

LEMMA StoreThrowsKeeps ==
    ASSUME SyncInv, NEW c \in Commands, StoreThrows(c)
    PROVE  SyncInv'
<1> USE DEF SyncInv, logVars, serverVars, syncVars
<1>1. RegisterTypeOK'
  BY DEF StoreThrows, RegisterTypeOK
<1>2. InsertedByOthers'
  BY DEF StoreThrows, InsertedByOthers
<1>3. AnswersTrue'
  BY DEF StoreThrows, AnswersTrue, Known, Ids, Landed
<1>4. StatusTrue'
  BY DEF StoreThrows, StatusTrue, Known, Ids, RegisterTypeOK
<1>5. PhasesAgree'
  BY DEF StoreThrows, PhasesAgree, RegisterTypeOK
<1>6. OverlayIsPending'
  BY DEF StoreThrows, OverlayIsPending, Pending, RegisterTypeOK
<1> QED BY <1>1, <1>2, <1>3, <1>4, <1>5, <1>6

-----------------------------------------------------------------------------
(* The server and the other registers                                      *)

LEMMA InsertKeeps ==
    ASSUME SyncInv, NEW o \in Others, Insert(o)
    PROVE  SyncInv'
<1> USE DEF SyncInv, logVars, serverVars, syncVars
<1>0. /\ nextSeq' = nextSeq + 1 /\ ledger' = ledger
      /\ inserted' = inserted \cup {[id |-> o, seq |-> nextSeq]}
      /\ \A m \in ledger \cup inserted : m.id # o
  BY DEF Insert, Ids
<1>1. RegisterTypeOK'
  <2> DEFINE new == [id |-> o, seq |-> nextSeq]
  <2>1. new.id = o /\ new.seq = nextSeq
    OBVIOUS
  <2>2. \A m \in ledger' \cup inserted' : m = new \/ m \in ledger \cup inserted
    BY <1>0
  <2>3. \A m \in ledger' \cup inserted' : m.seq \in Nat /\ m.seq < nextSeq'
    BY <1>0, <2>1, <2>2 DEF RegisterTypeOK
  <2>4. \A m \in ledger \cup inserted : m.id # new.id /\ m.seq # new.seq
    BY <1>0, <2>1 DEF RegisterTypeOK
  <2>5. \A m, n \in ledger' \cup inserted' : m.id = n.id \/ m.seq = n.seq => m = n
    BY <2>2, <2>4 DEF RegisterTypeOK
  <2>6. UNCHANGED <<commandStatus, shown, history, phase, batch, results>>
    BY DEF Insert
  <2> QED BY <1>0, <2>3, <2>5, <2>6 DEF RegisterTypeOK
<1>2. InsertedByOthers'
  BY <1>0 DEF InsertedByOthers
<1>3. AnswersTrue'
  BY DEF Insert, AnswersTrue, Known, Ids, Landed
<1>4. StatusTrue'
  BY DEF Insert, StatusTrue, Known, Ids, RegisterTypeOK
<1>5. PhasesAgree'
  BY DEF Insert, PhasesAgree, RegisterTypeOK
<1>6. OverlayIsPending'
  BY DEF Insert, OverlayIsPending, Pending, RegisterTypeOK
<1> QED BY <1>1, <1>2, <1>3, <1>4, <1>5, <1>6

LEMMA CommitOtherKeeps ==
    ASSUME SyncInv, NEW m, CommitOther(m)
    PROVE  SyncInv'
<1> USE DEF SyncInv, logVars, serverVars, syncVars
<1>0. /\ m \in inserted /\ m.id \notin Commands
      /\ inserted' = inserted \ {m} /\ ledger' = ledger \cup {m}
  BY SyncAssumption DEF CommitOther, InsertedByOthers
<1>a. \A c \in Commands : Known(c)' <=> Known(c)
  BY <1>0 DEF Known, Ids
<1>1. RegisterTypeOK'
  BY DEF CommitOther, RegisterTypeOK
<1>2. InsertedByOthers'
  BY DEF CommitOther, InsertedByOthers
<1>3. AnswersTrue'
  BY <1>a DEF CommitOther, AnswersTrue
<1>4. StatusTrue'
  BY <1>a DEF CommitOther, StatusTrue
<1>5. PhasesAgree'
  BY DEF CommitOther, PhasesAgree, RegisterTypeOK
<1>6. OverlayIsPending'
  BY DEF CommitOther, OverlayIsPending, Pending, RegisterTypeOK
<1> QED BY <1>1, <1>2, <1>3, <1>4, <1>5, <1>6

\* The server has the commands it had, and the one it applies.
LEMMA HandleAnswers ==
    ASSUME SyncInv, NEW c \in Commands, Handle(c)
    PROVE  /\ phase = "push" /\ results[c] = "none" /\ commandStatus[c] = "pending"
           /\ UNCHANGED <<logVars, inserted, phase, batch, marked, conflicts,
                          abandoned, history>>
           /\ \/ /\ Known(c)
                 /\ results' = [results EXCEPT ![c] = "duplicate"]
                 /\ UNCHANGED <<ledger, nextSeq>>
              \/ /\ ~Known(c)
                 /\ results' = [results EXCEPT ![c] = "applied"]
                 /\ ledger' = ledger \cup {[id |-> c, seq |-> nextSeq]}
                 /\ nextSeq' = nextSeq + 1
              \/ /\ ~Known(c)
                 /\ results' = [results EXCEPT ![c] = "rejected"]
                 /\ UNCHANGED <<ledger, nextSeq>>
           /\ \A d \in Commands : Known(d)' <=> Known(d) \/ (d = c /\ results'[c] = "applied")
<1>1. phase = "push" /\ results[c] = "none" /\ commandStatus[c] = "pending"
  BY DEF Handle, Unhandled, SyncInv, PhasesAgree
<1>2. UNCHANGED <<logVars, inserted, phase, batch, marked, conflicts, abandoned, history>>
  BY DEF Handle
<1>3. results[c] = "none" /\ results \in [Commands -> PushStatus]
  BY <1>1 DEF SyncInv, RegisterTypeOK
<1>4. CASE Known(c)
  <2>1. results' = [results EXCEPT ![c] = "duplicate"] /\ UNCHANGED <<ledger, nextSeq>>
    BY <1>4 DEF Handle
  <2> QED BY <1>1, <1>2, <1>3, <1>4, <2>1 DEF Known, Ids
<1>5. ASSUME ~Known(c),
             results' = [results EXCEPT ![c] = "applied"],
             ledger' = ledger \cup {[id |-> c, seq |-> nextSeq]}
      PROVE  \A d \in Commands : Known(d)' <=> Known(d) \/ (d = c /\ results'[c] = "applied")
  <2>1. Ids(ledger)' = Ids(ledger) \cup {c}
    <3>1. [id |-> c, seq |-> nextSeq].id = c
      OBVIOUS
    <3> QED BY <1>5, <3>1 DEF Ids
  <2> QED BY <1>3, <1>5, <2>1 DEF Known
<1>6. CASE ~Known(c)
  <2>1. CASE /\ results' = [results EXCEPT ![c] = "applied"]
             /\ ledger' = ledger \cup {[id |-> c, seq |-> nextSeq]}
             /\ nextSeq' = nextSeq + 1
    BY <1>1, <1>2, <1>5, <1>6, <2>1
  <2>2. CASE /\ results' = [results EXCEPT ![c] = "rejected"]
             /\ UNCHANGED <<ledger, nextSeq>>
    BY <1>1, <1>2, <1>3, <1>6, <2>2 DEF Known, Ids
  <2> QED BY <1>6, <2>1, <2>2 DEF Handle
<1> QED BY <1>4, <1>6

LEMMA HandleKeeps ==
    ASSUME SyncInv, NEW c \in Commands, Handle(c)
    PROVE  SyncInv'
<1> USE DEF SyncInv, logVars, serverVars, syncVars
<1>0. /\ phase = "push" /\ results[c] = "none" /\ commandStatus[c] = "pending"
      /\ UNCHANGED <<appending, shown, commandStatus, seqOf, lost, inserted, phase,
                     batch, marked, conflicts, abandoned, history>>
      /\ \/ /\ Known(c)
            /\ results' = [results EXCEPT ![c] = "duplicate"]
            /\ UNCHANGED <<ledger, nextSeq>>
         \/ /\ ~Known(c)
            /\ results' = [results EXCEPT ![c] = "applied"]
            /\ ledger' = ledger \cup {[id |-> c, seq |-> nextSeq]}
            /\ nextSeq' = nextSeq + 1
         \/ /\ ~Known(c)
            /\ results' = [results EXCEPT ![c] = "rejected"]
            /\ UNCHANGED <<ledger, nextSeq>>
  BY HandleAnswers
<1>a. \A d \in Commands : Known(d)' <=> Known(d) \/ (d = c /\ results'[c] = "applied")
  BY HandleAnswers
<1>1. RegisterTypeOK'
  <2>1. results' \in [Commands -> PushStatus]
    BY <1>0 DEF RegisterTypeOK, PushStatus
  <2>2. CASE ledger' = ledger
    BY <1>0, <2>1, <2>2 DEF RegisterTypeOK
  <2>3. CASE /\ ~Known(c) /\ nextSeq' = nextSeq + 1
             /\ ledger' = ledger \cup {[id |-> c, seq |-> nextSeq]}
    <3> DEFINE new == [id |-> c, seq |-> nextSeq]
    <3>1. new.id = c /\ new.seq = nextSeq
      OBVIOUS
    <3>2. \A m \in ledger \cup inserted : m.id # c
      BY <2>3, SyncAssumption DEF Known, Ids, InsertedByOthers
    <3>3. \A m \in ledger' \cup inserted' : m = new \/ m \in ledger \cup inserted
      BY <1>0, <2>3
    <3>4. \A m \in ledger' \cup inserted' : m.seq \in Nat /\ m.seq < nextSeq'
      BY <2>3, <3>1, <3>3 DEF RegisterTypeOK
    <3>5. \A m \in ledger \cup inserted : m.id # new.id /\ m.seq # new.seq
      BY <3>1, <3>2 DEF RegisterTypeOK
    <3>6. \A m, n \in ledger' \cup inserted' : m.id = n.id \/ m.seq = n.seq => m = n
      BY <3>3, <3>5 DEF RegisterTypeOK
    <3> QED BY <1>0, <2>1, <2>3, <3>4, <3>6 DEF RegisterTypeOK
  <2> QED BY <1>0, <2>2, <2>3
<1>2. InsertedByOthers'
  BY <1>0 DEF InsertedByOthers
<1>3. AnswersTrue'
  BY <1>0, <1>a DEF AnswersTrue, Landed, RegisterTypeOK
<1>4. StatusTrue'
  BY <1>0, <1>a DEF StatusTrue
<1>5. PhasesAgree'
  BY <1>0 DEF PhasesAgree
<1>6. OverlayIsPending'
  BY <1>0 DEF OverlayIsPending, Pending
<1> QED BY <1>1, <1>2, <1>3, <1>4, <1>5, <1>6

-----------------------------------------------------------------------------
(* SyncEngine.sync                                                         *)

LEMMA StartSyncKeeps ==
    ASSUME SyncInv, StartSync
    PROVE  SyncInv'
<1> USE DEF SyncInv, logVars, serverVars, syncVars
<1>1. RegisterTypeOK'
  BY DEF StartSync, RegisterTypeOK, NoResults, PushStatus, Pending
<1>2. InsertedByOthers'
  BY DEF StartSync, InsertedByOthers
<1>3. AnswersTrue'
  BY DEF StartSync, AnswersTrue, Landed, NoResults
<1>4. StatusTrue'
  BY DEF StartSync, StatusTrue, Known, Ids, RegisterTypeOK
<1>5. PhasesAgree'
  BY DEF StartSync, PhasesAgree, Pending
<1>6. OverlayIsPending'
  BY DEF StartSync, OverlayIsPending, Pending, RegisterTypeOK
<1> QED BY <1>1, <1>2, <1>3, <1>4, <1>5, <1>6

LEMMA PushAnsweredKeeps ==
    ASSUME SyncInv, PushAnswered
    PROVE  SyncInv'
<1> USE DEF SyncInv, logVars, serverVars, syncVars
<1>1. RegisterTypeOK'
  BY DEF PushAnswered, RegisterTypeOK
<1>2. InsertedByOthers'
  BY DEF PushAnswered, InsertedByOthers
<1>3. AnswersTrue'
  BY DEF PushAnswered, AnswersTrue, Known, Ids, Landed
<1>4. StatusTrue'
  BY DEF PushAnswered, StatusTrue, Known, Ids, RegisterTypeOK
<1>5. PhasesAgree'
  BY DEF PushAnswered, PhasesAgree, RegisterTypeOK
<1>6. OverlayIsPending'
  BY DEF PushAnswered, OverlayIsPending, Pending, RegisterTypeOK
<1> QED BY <1>1, <1>2, <1>3, <1>4, <1>5, <1>6

LEMMA AckSyncedKeeps ==
    ASSUME SyncInv, NEW c \in Commands, AckSynced(c)
    PROVE  SyncInv'
<1> USE DEF SyncInv, logVars, serverVars, syncVars
<1>0. /\ c \in Commands /\ phase = "ack" /\ commandStatus[c] = "pending"
      /\ results[c] \in Landed /\ Known(c)
      /\ commandStatus' = [commandStatus EXCEPT ![c] = "synced"]
      /\ phase' = "drop" /\ marked' = {c} /\ marked = {}
      /\ UNCHANGED <<appending, shown, seqOf, lost, ledger, inserted, nextSeq, batch,
                     results, conflicts, abandoned, history>>
  BY DEF AckSynced, Answered, AnswersTrue, PhasesAgree
<1>1. RegisterTypeOK'
  BY <1>0 DEF RegisterTypeOK, CommandStatus
<1>2. InsertedByOthers'
  BY <1>0 DEF InsertedByOthers
<1>3. AnswersTrue'
  BY <1>0 DEF AnswersTrue, Known, Ids, Landed
<1>4. StatusTrue'
  BY <1>0 DEF StatusTrue, Known, Ids, RegisterTypeOK
<1>5. PhasesAgree'
  BY <1>0 DEF PhasesAgree, RegisterTypeOK
<1>6. OverlayIsPending'
  BY <1>0 DEF OverlayIsPending, Pending, RegisterTypeOK
<1> QED BY <1>1, <1>2, <1>3, <1>4, <1>5, <1>6

LEMMA AckRejectedKeeps ==
    ASSUME SyncInv, NEW c \in Commands, AckRejected(c)
    PROVE  SyncInv'
<1> USE DEF SyncInv, logVars, serverVars, syncVars
<1>0. /\ phase = "ack" /\ marked = {}
      /\ commandStatus[c] = "pending" /\ ~Known(c)
      /\ commandStatus' = [commandStatus EXCEPT ![c] = "rejected"]
      /\ phase' = "record" /\ marked' = {c}
      /\ UNCHANGED <<appending, shown, seqOf, lost, ledger, inserted, nextSeq, batch,
                     results, conflicts, abandoned, history>>
  BY DEF AckRejected, Answered, AnswersTrue, PhasesAgree
<1>1. RegisterTypeOK'
  BY <1>0 DEF RegisterTypeOK, CommandStatus
<1>2. InsertedByOthers'
  BY <1>0 DEF InsertedByOthers
<1>3. AnswersTrue'
  BY <1>0 DEF AnswersTrue, Known, Ids, Landed
<1>4. StatusTrue'
  BY <1>0 DEF StatusTrue, Known, Ids, RegisterTypeOK
<1>5. PhasesAgree'
  BY <1>0 DEF PhasesAgree, RegisterTypeOK
<1>6. OverlayIsPending'
  BY <1>0 DEF OverlayIsPending, Pending, RegisterTypeOK
<1> QED BY <1>1, <1>2, <1>3, <1>4, <1>5, <1>6

LEMMA RecordConflictKeeps ==
    ASSUME SyncInv, NEW c \in Commands, RecordConflict(c)
    PROVE  SyncInv'
<1> USE DEF SyncInv, logVars, serverVars, syncVars
<1>0. /\ commandStatus[c] = "rejected" /\ marked = {c}
      /\ phase' = "drop"
      /\ UNCHANGED <<appending, shown, marked, commandStatus, seqOf, lost, ledger, inserted, nextSeq,
                     batch, results, abandoned, history>>
  BY DEF RecordConflict, PhasesAgree
<1>1. RegisterTypeOK'
  BY <1>0 DEF RegisterTypeOK
<1>2. InsertedByOthers'
  BY <1>0 DEF InsertedByOthers
<1>3. AnswersTrue'
  BY <1>0 DEF AnswersTrue, Known, Ids
<1>4. StatusTrue'
  BY <1>0 DEF StatusTrue, Known, Ids
<1>5. PhasesAgree'
  BY <1>0 DEF PhasesAgree
<1>6. OverlayIsPending'
  BY <1>0 DEF OverlayIsPending, Pending
<1> QED BY <1>1, <1>2, <1>3, <1>4, <1>5, <1>6

LEMMA DropMarkedKeeps ==
    ASSUME SyncInv, NEW c \in Commands, DropMarked(c)
    PROVE  SyncInv'
<1> USE DEF SyncInv, logVars, serverVars, syncVars
<1>0. /\ commandStatus[c] \in {"synced", "rejected"} /\ marked = {c}
      /\ shown' = Discard(c)
      /\ phase' = "ack" /\ marked' = {}
      /\ UNCHANGED <<appending, commandStatus, seqOf, lost, ledger, inserted, nextSeq,
                     batch, results, conflicts, abandoned, history>>
  BY DEF DropMarked, PhasesAgree
<1>a. /\ shown' \in Seq(Commands) /\ IsInjective(shown')
      /\ ToSet(shown') = ToSet(shown) \ {c}
  BY <1>0, DiscardedOverlay DEF RegisterTypeOK
<1>1. RegisterTypeOK'
  BY <1>0, <1>a DEF RegisterTypeOK
<1>2. InsertedByOthers'
  BY <1>0 DEF InsertedByOthers
<1>3. AnswersTrue'
  BY <1>0 DEF AnswersTrue, Known, Ids
<1>4. StatusTrue'
  BY <1>0 DEF StatusTrue, Known, Ids
<1>5. PhasesAgree'
  BY <1>0 DEF PhasesAgree
<1>6. OverlayIsPending'
  BY <1>0, <1>a DEF OverlayIsPending, Pending
<1> QED BY <1>1, <1>2, <1>3, <1>4, <1>5, <1>6

LEMMA PushDoneKeeps ==
    ASSUME SyncInv, PushDone
    PROVE  SyncInv'
<1> USE DEF SyncInv, logVars, serverVars, syncVars
<1>1. RegisterTypeOK'
  BY DEF PushDone, RegisterTypeOK
<1>2. InsertedByOthers'
  BY DEF PushDone, InsertedByOthers
<1>3. AnswersTrue'
  BY DEF PushDone, AnswersTrue, Known, Ids, Landed
<1>4. StatusTrue'
  BY DEF PushDone, StatusTrue, Known, Ids, RegisterTypeOK
<1>5. PhasesAgree'
  BY DEF PushDone, PhasesAgree, RegisterTypeOK
<1>6. OverlayIsPending'
  BY DEF PushDone, OverlayIsPending, Pending, RegisterTypeOK
<1> QED BY <1>1, <1>2, <1>3, <1>4, <1>5, <1>6

LEMMA PullPageKeeps ==
    ASSUME SyncInv, PullPage
    PROVE  SyncInv'
<1> USE DEF SyncInv, logVars, serverVars, syncVars
<1>0. /\ phase = "pull" /\ phase' \in {"pull", "idle"}
      /\ history' \subseteq history \cup ledger
      /\ UNCHANGED <<appending, shown, commandStatus, seqOf, lost, ledger, inserted,
                     nextSeq, batch, results, marked, conflicts, abandoned>>
  BY DEF PullPage, applyServerMovements, Page, After
<1>1. RegisterTypeOK'
  BY <1>0 DEF RegisterTypeOK
<1>2. InsertedByOthers'
  BY <1>0 DEF InsertedByOthers
<1>3. AnswersTrue'
  BY <1>0 DEF AnswersTrue, Known, Ids
<1>4. StatusTrue'
  BY <1>0 DEF StatusTrue, Known, Ids
<1>5. PhasesAgree'
  BY <1>0 DEF PhasesAgree
<1>6. OverlayIsPending'
  BY <1>0 DEF OverlayIsPending, Pending
<1> QED BY <1>1, <1>2, <1>3, <1>4, <1>5, <1>6

LEMMA SyncFailsKeeps ==
    ASSUME SyncInv, SyncFails
    PROVE  SyncInv'
<1> USE DEF SyncInv, logVars, serverVars, syncVars
<1>1. RegisterTypeOK'
  BY DEF SyncFails, RegisterTypeOK
<1>2. InsertedByOthers'
  BY DEF SyncFails, InsertedByOthers
<1>3. AnswersTrue'
  BY DEF SyncFails, AnswersTrue, Known, Ids, Landed
<1>4. StatusTrue'
  BY DEF SyncFails, StatusTrue, Known, Ids, RegisterTypeOK
<1>5. PhasesAgree'
  BY DEF SyncFails, PhasesAgree, RegisterTypeOK
<1>6. OverlayIsPending'
  BY DEF SyncFails, OverlayIsPending, Pending, RegisterTypeOK
<1> QED BY <1>1, <1>2, <1>3, <1>4, <1>5, <1>6

-----------------------------------------------------------------------------
(* Invariants                                                              *)

LEMMA RegisterStep == SyncInv /\ [RegisterNext]_registerVars => SyncInv'
<1> SUFFICES ASSUME SyncInv, [RegisterNext]_registerVars PROVE SyncInv'
  OBVIOUS
<1>1. ASSUME NEW c \in Commands,
             ReadSeq(c) \/ Show(c) \/ TurnDown(c) \/ Store(c) \/ StoreThrows(c)
      PROVE  SyncInv'
  BY <1>1, ReadSeqKeeps, ShowKeeps, TurnDownKeeps, StoreKeeps, StoreThrowsKeeps
<1>2. ASSUME NEW c \in Commands,
             \/ Handle(c) \/ AckSynced(c) \/ AckRejected(c)
             \/ RecordConflict(c) \/ DropMarked(c)
      PROVE  SyncInv'
  BY <1>2, HandleKeeps, AckSyncedKeeps, AckRejectedKeeps, RecordConflictKeeps,
     DropMarkedKeeps
<1>3. ASSUME NEW o \in Others, Insert(o) PROVE SyncInv'
  BY <1>3, InsertKeeps
<1>4. ASSUME NEW m \in inserted, CommitOther(m) PROVE SyncInv'
  BY <1>4, CommitOtherKeeps
<1>5. CASE StartSync \/ PushAnswered \/ PushDone \/ PullPage \/ SyncFails
  BY <1>5, StartSyncKeeps, PushAnsweredKeeps, PushDoneKeeps, PullPageKeeps, SyncFailsKeeps
<1>6. CASE UNCHANGED registerVars
  BY <1>6 DEF registerVars, logVars, serverVars, syncVars, SyncInv, RegisterTypeOK,
              InsertedByOthers, AnswersTrue, StatusTrue, PhasesAgree, OverlayIsPending,
              Known, Ids, Pending, Landed
<1> QED BY <1>1, <1>2, <1>3, <1>4, <1>5, <1>6 DEF RegisterNext

LEMMA SyncInvariance == RegisterSpec => []SyncInv
  BY RegisterInitInv, RegisterStep, PTL DEF RegisterSpec

\* The store, the overlay and the answers stay in their types, a movement is
\* in the ledger once, under a number of its own, and the register pulls only
\* what is committed.
THEOREM RegisterTypeCorrect == RegisterSpec => []RegisterTypeOK
<1>1. SyncInv => RegisterTypeOK
  BY DEF SyncInv
<1> QED BY <1>1, SyncInvariance, PTL

\* While a command waits for the server the mirror shows it; what it shows is
\* waiting, being stored, marked and about to be dropped, or the leftover of a
\* call that threw.
THEOREM OverlayTruthful == RegisterSpec => []OverlayIsPending
<1>1. SyncInv => OverlayIsPending
  BY DEF SyncInv
<1> QED BY <1>1, SyncInvariance, PTL

-----------------------------------------------------------------------------
(* Levels                                                                  *)

Levels == [onHand : Int, phone : {"in_stock", "sold", "returned_pending"}]

\* One more movement of history takes one if it is a sale, in whatever order.
LEMMA ReplayedOneMore ==
    ASSUME NEW past, IsFiniteSet(past), NEW m, m \notin past
    PROVE  Replay(past \cup {m}).onHand
             = Replay(past).onHand - (IF m.id \in Returns THEN 0 ELSE 1)
<1> DEFINE sales == {k \in past : k.id \notin Returns}
           more == {k \in past \cup {m} : k.id \notin Returns}
<1>1. /\ Replay(past).onHand = Start - Cardinality(sales)
      /\ Replay(past \cup {m}).onHand = Start - Cardinality(more)
  BY DEF Replay
<1>2. IsFiniteSet(sales)
  BY FS_Subset
<1>3. Cardinality(sales) \in Nat /\ Start \in Nat
  BY <1>2, FS_CardinalityType, SyncAssumption
<1>4. CASE m.id \in Returns
  <2>1. more = sales
    BY <1>4
  <2> HIDE DEF more, sales
  <2> QED BY <1>1, <1>3, <1>4, <2>1
<1>5. CASE m.id \notin Returns
  <2>1. more = sales \cup {m} /\ m \notin sales
    BY <1>5
  <2> HIDE DEF more, sales
  <2>2. Cardinality(sales \cup {m}) = Cardinality(sales) + 1
    BY <1>2, <2>1, FS_AddElement
  <2> QED BY <1>1, <1>3, <1>5, <2>1, <2>2
<1> QED BY <1>4, <1>5

LEMMA ReplayIsLevels ==
    ASSUME NEW past, IsFiniteSet(past)
    PROVE  Replay(past) \in Levels
<1>1. IsFiniteSet({k \in past : k.id \notin Returns})
  BY FS_Subset
<1>2. Start - Cardinality({k \in past : k.id \notin Returns}) \in Int
  BY <1>1, FS_CardinalityType, SyncAssumption
<1> QED BY <1>2 DEF Replay, Levels, PhoneAfter

LEMMA MoveIsLevels ==
    ASSUME NEW levels \in Levels, NEW id
    PROVE  Move(levels, id) \in Levels
  BY DEF Move, Levels, PhoneAfter

\* So is what the mirror rebuilds, movement after movement.
LEMMA RebuiltIsLevels ==
    ASSUME shown \in Seq(Commands), NEW past, IsFiniteSet(past)
    PROVE  Rebuilt(past) \in Levels
<1> DEFINE n == Len(shown)
           Over(levels, id) == IF id \in Ids(past) THEN levels ELSE Move(levels, id)
           Of(t) == [i \in 0 .. n |-> IF i = 0 THEN Replay(past)
                                      ELSE IF shown[i] \in Ids(past) THEN t[i - 1]
                                      ELSE Move(t[i - 1], shown[i])]
           after == CHOOSE t : t = Of(t)
           step == [x \in Nat \X Levels |-> Over(x[2], shown[x[1]])]
<1>1. Rebuilt(past) = after[n]
  BY DEF Rebuilt
<1>2. n \in Nat /\ Replay(past) \in Levels
  BY ReplayIsLevels
<1>3. step \in [Nat \X Levels -> Levels]
  BY MoveIsLevels
<1>4. \A i \in 1 .. n : \A levels \in Levels : step[<<i, levels>>] = Over(levels, shown[i])
  BY <1>2
<1> HIDE DEF step
<1>5. PICK f : LoopOf(f, n, Levels, Replay(past), step)
  <2> HIDE DEF n
  <2> QED BY <1>2, <1>3, LoopExists
<1> USE DEF LoopOf
<1>6. \A i \in 1 .. n : f[i] = Over(f[i - 1], shown[i])
  <2>1. \A i \in 1 .. n : f[i - 1] \in Levels
    BY <1>2, <1>5
  <2> QED BY <1>4, <1>5, <2>1
<1>7. f = Of(f)
  BY <1>2, <1>5, <1>6
<1>8. after = Of(after)
  <2> HIDE DEF Of
  <2> QED BY <1>7
<1> HIDE DEF after
<1> DEFINE S == {i \in 0 .. n : after[i] \in Levels}
<1>9. 0 \in S
  BY <1>2, <1>8
<1>10. ASSUME NEW i \in 1 .. n, i - 1 \in S PROVE i \in S
  <2>1. after[i] = Over(after[i - 1], shown[i])
    <3>1. i \in 0 .. n /\ i # 0
      BY <1>2
    <3>2. after[i] = Of(after)[i]
      BY <1>8
    <3> QED BY <3>1, <3>2
  <2> QED BY <1>2, <1>10, <2>1, MoveIsLevels
<1> HIDE DEF S
<1>11. n \in S
  <2> HIDE DEF n
  <2>1. \A i \in 1 .. n : i - 1 \in S => i \in S
    BY <1>10
  <2>2. \A i \in 0 .. n : i \in S
    BY ONLY <1>2, <1>9, <2>1, UpTo
  <2> QED BY <1>2, <2>2
<1> QED BY <1>1, <1>11 DEF S

\* The numbers of the log, and a number none of them exceeds: finitely many
\* commands were stored.
NumbersSound ==
    /\ appending \in [Commands -> Nat] /\ seqOf \in [Commands -> Nat]
    /\ \E n \in Nat : \A c \in Commands : seqOf[c] <= n

\* What is in the ledger was covered by stock when it came.
StockSound ==
    /\ IsFiniteSet(ledger)
    /\ Server.onHand \in Nat

LevelInv ==
    /\ NumbersSound
    /\ mirror \in Levels
    /\ StockSound

LEMMA LevelInitInv == RegisterInit => LevelInv
<1> SUFFICES ASSUME RegisterInit PROVE LevelInv
  OBVIOUS
<1>1. NumbersSound
  BY DEF RegisterInit, NumbersSound
<1>2. IsFiniteSet({})
  BY FS_EmptySet
<1>3. mirror \in Levels
  BY <1>2, ReplayIsLevels DEF RegisterInit
<1>4. StockSound
  <2>1. {m \in ledger : m.id \notin Returns} = {} /\ Cardinality({}) = 0
    BY FS_EmptySet DEF RegisterInit
  <2>2. Server.onHand = Start - 0
    BY <2>1 DEF Server, Replay
  <2> QED BY <1>2, <2>2, SyncAssumption DEF RegisterInit, StockSound
<1> QED BY <1>1, <1>3, <1>4 DEF LevelInv

\* The last number of the log is one of them.
LEMMA LastSeqIs ==
    ASSUME NumbersSound, NEW c \in Commands
    PROVE  LastSeq \in Nat
<1> DEFINE numbers == {seqOf[d] : d \in Commands}
           bounds == {n \in Nat : \A d \in Commands : seqOf[d] <= n}
<1>1. bounds # {} /\ bounds \subseteq Nat
  BY DEF NumbersSound
<1>2. PICK n \in bounds : \A m \in bounds : n <= m
  <2> HIDE DEF bounds
  <2> QED BY <1>1, LeastExists
<1>3. \E d \in Commands : seqOf[d] = n
  <2> SUFFICES ASSUME \A d \in Commands : seqOf[d] # n PROVE FALSE
    OBVIOUS
  <2>1. \A d \in Commands : seqOf[d] \in Nat /\ seqOf[d] <= n - 1
    BY <1>2 DEF NumbersSound
  <2>2. n - 1 \in bounds
    BY <1>2, <2>1
  <2> QED BY <1>2, <2>2
<1>4. n \in numbers /\ \A m \in numbers : n >= m
  BY <1>2, <1>3 DEF NumbersSound
<1>5. Max(numbers) \in numbers
  <2> HIDE DEF numbers
  <2> QED BY <1>4 DEF Max
<1> QED BY <1>5 DEF LastSeq, NumbersSound

\* A sale is committed only while there is stock.
LEMMA CommitKeepsStock ==
    ASSUME StockSound, NEW m, m.id \notin Returns => Server.onHand >= 1,
           ledger' = ledger \cup {m}
    PROVE  StockSound'
<1>1. IsFiniteSet(ledger')
  BY FS_AddElement DEF StockSound
<1>2. CASE m \in ledger
  BY <1>2 DEF StockSound, Server, Replay
<1>3. CASE m \notin ledger
  <2>1. Replay(ledger \cup {m}).onHand
          = Replay(ledger).onHand - (IF m.id \in Returns THEN 0 ELSE 1)
    BY <1>3, ReplayedOneMore DEF StockSound
  <2>2. Server'.onHand = Replay(ledger \cup {m}).onHand
    BY DEF Server, Replay
  <2>3. Replay(ledger).onHand \in Nat
    BY DEF StockSound, Server
  <2>4. Server'.onHand \in Nat
    BY <2>1, <2>2, <2>3 DEF Server
  <2> QED BY <1>1, <2>4 DEF StockSound
<1> QED BY <1>2, <1>3

\* Unless a step changes the ledger, the stock on the server stays.
LEMMA StockStays == StockSound /\ UNCHANGED ledger => StockSound'
  BY DEF StockSound, Server, Replay

LEMMA AppendKeepsLevels ==
    ASSUME LevelInv, NEW c \in Commands,
           ReadSeq(c) \/ Show(c) \/ TurnDown(c) \/ Store(c) \/ StoreThrows(c)
    PROVE  LevelInv'
<1>1. StockSound'
  BY StockStays DEF LevelInv, ReadSeq, Show, TurnDown, Store, StoreThrows, serverVars
<1>2. mirror' \in Levels
  BY MoveIsLevels DEF LevelInv, ReadSeq, Show, TurnDown, Store, StoreThrows
<1>3. NumbersSound'
  <2> USE DEF LevelInv
  <2>1. CASE ReadSeq(c)
    BY <2>1, LastSeqIs DEF ReadSeq, NumbersSound
  <2>2. CASE Show(c) \/ TurnDown(c) \/ StoreThrows(c)
    BY <2>2 DEF Show, TurnDown, StoreThrows, NumbersSound
  <2>3. CASE Store(c)
    <3>1. PICK n \in Nat : \A d \in Commands : seqOf[d] <= n
      BY DEF NumbersSound
    <3>2. /\ seqOf' = [seqOf EXCEPT ![c] = appending[c]]
          /\ appending' = [appending EXCEPT ![c] = 0]
          /\ appending[c] \in Nat
      BY <2>3 DEF Store, NumbersSound
    <3>3. n + appending[c] \in Nat /\ \A d \in Commands : seqOf'[d] <= n + appending[c]
      BY <3>1, <3>2 DEF NumbersSound
    <3> QED BY <3>2, <3>3 DEF NumbersSound
  <2> QED BY <2>1, <2>2, <2>3
<1> QED BY <1>1, <1>2, <1>3 DEF LevelInv

LEMMA HandleKeepsLevels ==
    ASSUME SyncInv, LevelInv, NEW c \in Commands, Handle(c)
    PROVE  LevelInv'
<1> DEFINE new == [id |-> c, seq |-> nextSeq]
<1>1. UNCHANGED <<appending, seqOf, mirror>>
  BY DEF Handle, logVars
<1>2. CASE ledger' = ledger \cup {new} /\ Accepts(Server, c)
  <2>1. new.id = c
    OBVIOUS
  <2>2. new.id \notin Returns => Server.onHand >= 1
    BY <1>2, <2>1 DEF Accepts, Sellable
  <2> HIDE DEF new
  <2> QED BY <1>1, <1>2, <2>2, CommitKeepsStock DEF LevelInv, NumbersSound
<1>3. CASE UNCHANGED ledger
  BY <1>1, <1>3, StockStays DEF LevelInv, NumbersSound
<1>4. UNCHANGED ledger \/ (ledger' = ledger \cup {new} /\ Accepts(Server, c))
  BY DEF Handle
<1> QED BY <1>2, <1>3, <1>4

LEMMA CommitOtherKeepsLevels ==
    ASSUME LevelInv, NEW m, CommitOther(m)
    PROVE  LevelInv'
<1>1. UNCHANGED <<appending, seqOf, mirror>>
  BY DEF CommitOther, logVars
<1>2. Server.onHand >= 1 /\ ledger' = ledger \cup {m}
  BY DEF CommitOther, Sellable
<1>3. StockSound'
  BY <1>2, CommitKeepsStock DEF LevelInv
<1> QED BY <1>1, <1>3 DEF LevelInv, NumbersSound

LEMMA PullPageKeepsLevels ==
    ASSUME SyncInv, LevelInv, PullPage
    PROVE  LevelInv'
<1>1. UNCHANGED <<appending, seqOf, ledger>>
  BY DEF PullPage, logVars, serverVars
<1>2. history \cup Page \subseteq ledger
  BY DEF SyncInv, RegisterTypeOK, Page, After
<1>3. IsFiniteSet(history \cup Page)
  BY <1>2, FS_Subset DEF LevelInv, StockSound
<1>4. mirror' = Rebuilt(history \cup Page) \/ mirror' = mirror
  BY DEF PullPage, applyServerMovements
<1>5. mirror' \in Levels
  BY <1>3, <1>4, RebuiltIsLevels DEF LevelInv, SyncInv, RegisterTypeOK
<1> QED BY <1>1, <1>5, StockStays DEF LevelInv, NumbersSound

LEMMA LevelStep == SyncInv /\ LevelInv /\ [RegisterNext]_registerVars => LevelInv'
<1> SUFFICES ASSUME SyncInv, LevelInv, [RegisterNext]_registerVars PROVE LevelInv'
  OBVIOUS
<1>1. ASSUME NEW c \in Commands,
             ReadSeq(c) \/ Show(c) \/ TurnDown(c) \/ Store(c) \/ StoreThrows(c)
      PROVE  LevelInv'
  BY <1>1, AppendKeepsLevels
<1>2. ASSUME NEW c \in Commands, Handle(c) PROVE LevelInv'
  BY <1>2, HandleKeepsLevels
<1>3. ASSUME NEW m \in inserted, CommitOther(m) PROVE LevelInv'
  BY <1>3, CommitOtherKeepsLevels
<1>4. CASE PullPage
  BY <1>4, PullPageKeepsLevels
<1>5. CASE UNCHANGED <<appending, seqOf, mirror, ledger>>
  BY <1>5, StockStays DEF LevelInv, NumbersSound
<1>6. ASSUME NEW c \in Commands,
             AckSynced(c) \/ AckRejected(c) \/ RecordConflict(c) \/ DropMarked(c)
      PROVE  UNCHANGED <<appending, seqOf, mirror, ledger>>
  BY <1>6 DEF AckSynced, AckRejected, RecordConflict, DropMarked, logVars, serverVars
<1>7. ASSUME NEW o \in Others, Insert(o) PROVE UNCHANGED <<appending, seqOf, mirror, ledger>>
  BY <1>7 DEF Insert, logVars
<1>8. ASSUME StartSync \/ PushAnswered \/ PushDone \/ SyncFails
      PROVE  UNCHANGED <<appending, seqOf, mirror, ledger>>
  BY <1>8 DEF StartSync, PushAnswered, PushDone, SyncFails, logVars, serverVars
<1>9. ASSUME UNCHANGED registerVars PROVE UNCHANGED <<appending, seqOf, mirror, ledger>>
  BY <1>9 DEF registerVars, logVars, serverVars
<1> QED BY <1>1, <1>2, <1>3, <1>4, <1>5, <1>6, <1>7, <1>8, <1>9 DEF RegisterNext

LEMMA LevelsHold == LevelInv => LevelsOK
  BY DEF LevelInv, NumbersSound, StockSound, LevelsOK, Levels

\* No command has a number that is not one, the mirror knows the phone in one
\* of its states, and no register, however stale its mirror, makes the server
\* sell more than it has.
THEOREM StockNeverOversold == RegisterSpec => []LevelsOK
<1>1. RegisterSpec => []SyncInv /\ RegisterInit /\ [][RegisterNext]_registerVars
  BY SyncInvariance, PTL DEF RegisterSpec
<1> QED BY <1>1, LevelInitInv, LevelStep, LevelsHold, PTL

-----------------------------------------------------------------------------
(* Beside what else must end                                               *)

\* The register and the notifications, and an order that waits, side by side.
QueuesInv ==
    /\ desk \in {"checkout", "register", "notices"}
    /\ SyncInv /\ LevelInv
    /\ NoticeInv

LEMMA QueuesStep ==
    ASSUME QueuesInv,
           [AtCheckout \/ AtRegister \/ AtNotices]_<<desk, vars, registerVars, noticeVars>>
    PROVE  QueuesInv'
<1>1. UNCHANGED desk /\ [RegisterNext]_registerVars /\ [NoticeNext]_noticeVars
  BY DEF AtCheckout, AtRegister, AtNotices
<1>2. SyncInv' /\ LevelInv'
  BY <1>1, RegisterStep, LevelStep DEF QueuesInv
<1>3. NoticeInv'
  BY <1>1, NoticeStep DEF QueuesInv
<1> QED BY <1>1, <1>2, <1>3 DEF QueuesInv

\* All of it in the instance that is run: the log, the feed, the levels and
\* the queue of notifications stay in their types while any of the three works.
THEOREM QueuesTypeCorrect == QueuesSpec => []QueuesTypeOK
<1>1. QueuesInit => QueuesInv
  BY RegisterInitInv, LevelInitInv, NoticeInitInv DEF QueuesInit, QueuesInv
<1>2. QueuesInv /\ [AtCheckout \/ AtRegister \/ AtNotices]_<<desk, vars, registerVars, noticeVars>>
        => QueuesInv'
  BY QueuesStep
<1>3. QueuesInv => QueuesTypeOK
  BY LevelsHold DEF QueuesInv, QueuesTypeOK, SyncInv, NoticeInv
<1> QED BY <1>1, <1>2, <1>3, PTL DEF QueuesSpec

-----------------------------------------------------------------------------
(* The contract                                                            *)

\* A step that changes the fate of one command, or of none.
LEMMA FateChanges ==
    ASSUME NEW c \in Commands,
           \A d \in Commands : d # c => FateOf(d)' = FateOf(d)
    PROVE  fate' = [fate EXCEPT ![c] = FateOf(c)']
  BY DEF fate

LEMMA FateStays ==
    ASSUME \A d \in Commands : (Known(d)' <=> Known(d)) /\ commandStatus'[d] = commandStatus[d]
    PROVE  fate' = fate
<1>1. \A d \in Commands : FateOf(d)' = FateOf(d)
  BY DEF FateOf
<1> QED BY <1>1 DEF fate

LEMMA ContractStutters ==
    ASSUME UNCHANGED <<commandStatus, ledger, conflicts>>
    PROVE  UNCHANGED Promise!vars
<1>1. fate' = fate
  BY FateStays DEF Known, Ids
<1> QED BY <1>1 DEF Promise!vars

LEMMA ContractInit == RegisterInit => Promise!Init
  BY DEF RegisterInit, Promise!Init, fate, FateOf, Known, Ids

\* What is stored is accepted.
LEMMA StoreContract ==
    ASSUME SyncInv, NEW c \in Commands, Store(c)
    PROVE  Promise!Accept(c)
<1>1. /\ commandStatus[c] = "none" /\ ~Known(c)
      /\ commandStatus' = [commandStatus EXCEPT ![c] = "pending"]
      /\ UNCHANGED <<ledger, conflicts>>
      /\ commandStatus \in [Commands -> CommandStatus]
  BY DEF Store, SyncInv, StatusTrue, RegisterTypeOK, serverVars, syncVars
<1>2. fate[c] = "none" /\ FateOf(c)' = "queued"
  BY <1>1 DEF fate, FateOf, Known, Ids
<1>3. fate' = [fate EXCEPT ![c] = "queued"]
  <2>1. \A d \in Commands : d # c => FateOf(d)' = FateOf(d)
    BY <1>1 DEF FateOf, Known, Ids
  <2> QED BY <1>2, <2>1, FateChanges
<1> QED BY <1>1, <1>2, <1>3 DEF Promise!Accept

\* The server applies what is queued, or leaves every fate as it is.
LEMMA HandleContract ==
    ASSUME SyncInv, NEW c \in Commands, Handle(c)
    PROVE  Promise!Apply(c) \/ UNCHANGED Promise!vars
<1>1. /\ commandStatus[c] = "pending"
      /\ UNCHANGED <<commandStatus, conflicts>>
      /\ \A d \in Commands : Known(d)' <=> Known(d) \/ (d = c /\ results'[c] = "applied")
  BY HandleAnswers DEF logVars
<1>2. CASE ~Known(c) /\ Known(c)'
  <2>1. fate[c] = "queued" /\ FateOf(c)' = "applied"
    BY <1>1, <1>2 DEF fate, FateOf
  <2>2. fate' = [fate EXCEPT ![c] = "applied"]
    <3>1. \A d \in Commands : d # c => FateOf(d)' = FateOf(d)
      BY <1>1 DEF FateOf
    <3> QED BY <2>1, <3>1, FateChanges
  <2> QED BY <1>1, <2>1, <2>2 DEF Promise!Apply
<1>3. CASE ~(~Known(c) /\ Known(c)')
  <2>1. \A d \in Commands : (Known(d)' <=> Known(d)) /\ commandStatus'[d] = commandStatus[d]
    BY <1>1, <1>3
  <2>2. fate' = fate
    BY <2>1, FateStays
  <2> QED BY <1>1, <2>2 DEF Promise!vars
<1> QED BY <1>2, <1>3

\* What is marked synced was applied already.
LEMMA AckSyncedContract ==
    ASSUME SyncInv, NEW c \in Commands, AckSynced(c)
    PROVE  UNCHANGED Promise!vars
<1>1. /\ Known(c) /\ UNCHANGED <<ledger, conflicts>>
      /\ commandStatus' = [commandStatus EXCEPT ![c] = "synced"]
      /\ commandStatus \in [Commands -> CommandStatus]
  BY DEF AckSynced, Answered, SyncInv, AnswersTrue, RegisterTypeOK, serverVars
<1>2. \A d \in Commands : FateOf(d)' = FateOf(d)
  BY <1>1 DEF FateOf, Known, Ids
<1> QED BY <1>1, <1>2 DEF Promise!vars, fate

\* What is marked rejected was queued: the server never had it.
LEMMA AckRejectedContract ==
    ASSUME SyncInv, NEW c \in Commands, AckRejected(c)
    PROVE  Promise!Refuse(c)
<1>1. /\ ~Known(c) /\ commandStatus[c] = "pending"
      /\ commandStatus' = [commandStatus EXCEPT ![c] = "rejected"]
      /\ UNCHANGED <<ledger, conflicts>>
      /\ commandStatus \in [Commands -> CommandStatus]
  BY DEF AckRejected, Answered, SyncInv, AnswersTrue, RegisterTypeOK, serverVars
<1>2. fate[c] = "queued" /\ FateOf(c)' = "refused"
  BY <1>1 DEF fate, FateOf, Known, Ids
<1>3. fate' = [fate EXCEPT ![c] = "refused"]
  <2>1. \A d \in Commands : d # c => FateOf(d)' = FateOf(d)
    BY <1>1 DEF FateOf, Known, Ids
  <2> QED BY <1>2, <2>1, FateChanges
<1> QED BY <1>1, <1>2, <1>3 DEF Promise!Refuse

\* The manager is shown what was refused, and nothing else.
LEMMA RecordConflictContract ==
    ASSUME SyncInv, NEW c \in Commands, RecordConflict(c)
    PROVE  Promise!Tell(c)
<1>1. /\ commandStatus[c] = "rejected" /\ ~Known(c)
      /\ UNCHANGED <<commandStatus, ledger>>
      /\ conflicts' = conflicts \cup {c}
  BY DEF RecordConflict, SyncInv, PhasesAgree, StatusTrue, logVars, serverVars
<1>2. fate[c] = "refused"
  BY <1>1 DEF fate, FateOf
<1>3. fate' = fate
  BY <1>1, FateStays DEF Known, Ids
<1> QED BY <1>1, <1>2, <1>3 DEF Promise!Tell

LEMMA CommitOtherContract ==
    ASSUME SyncInv, NEW m \in inserted, CommitOther(m)
    PROVE  UNCHANGED Promise!vars
<1>1. /\ m.id \notin Commands /\ ledger' = ledger \cup {m}
      /\ UNCHANGED <<commandStatus, conflicts>>
  BY SyncAssumption DEF CommitOther, SyncInv, InsertedByOthers, logVars, syncVars
<1>2. \A d \in Commands : Known(d)' <=> Known(d)
  BY <1>1 DEF Known, Ids
<1>3. fate' = fate
  BY <1>1, <1>2, FateStays
<1> QED BY <1>1, <1>3 DEF Promise!vars

LEMMA ContractStep ==
    SyncInv /\ [RegisterNext]_registerVars => [Promise!Next]_(Promise!vars)
<1> SUFFICES ASSUME SyncInv, [RegisterNext]_registerVars
             PROVE  Promise!Next \/ UNCHANGED Promise!vars
  OBVIOUS
<1> USE DEF Promise!Next, logVars, serverVars, syncVars
<1>1. ASSUME NEW c \in Commands,
             ReadSeq(c) \/ Show(c) \/ TurnDown(c) \/ StoreThrows(c) \/ DropMarked(c)
      PROVE  UNCHANGED Promise!vars
  BY <1>1, ContractStutters DEF ReadSeq, Show, TurnDown, StoreThrows, DropMarked
<1>2. ASSUME NEW c \in Commands, Store(c) PROVE Promise!Next
  BY <1>2, StoreContract
<1>3. ASSUME NEW c \in Commands, Handle(c) PROVE Promise!Next \/ UNCHANGED Promise!vars
  BY <1>3, HandleContract
<1>4. ASSUME NEW c \in Commands, AckSynced(c) PROVE UNCHANGED Promise!vars
  BY <1>4, AckSyncedContract
<1>5. ASSUME NEW c \in Commands, AckRejected(c) PROVE Promise!Next
  BY <1>5, AckRejectedContract
<1>6. ASSUME NEW c \in Commands, RecordConflict(c) PROVE Promise!Next
  BY <1>6, RecordConflictContract
<1>7. ASSUME NEW m \in inserted, CommitOther(m) PROVE UNCHANGED Promise!vars
  BY <1>7, CommitOtherContract
<1>8. CASE \/ \E o \in Others : Insert(o)
           \/ StartSync \/ PushAnswered \/ PushDone \/ PullPage \/ SyncFails
  BY <1>8, ContractStutters
     DEF Insert, StartSync, PushAnswered, PushDone, PullPage, SyncFails
<1>9. CASE UNCHANGED registerVars
  BY <1>9, ContractStutters DEF registerVars
<1> QED BY <1>1, <1>2, <1>3, <1>4, <1>5, <1>6, <1>7, <1>8, <1>9 DEF RegisterNext

\* However often pushes are answered in part or not at all, answers are lost
\* and syncs fail, a command that was stored is applied once or refused, never
\* both, it does not vanish, and the manager is shown only what was refused.
THEOREM RegisterKeepsContract == RegisterSpec => KeepsCommandContract
<1>1. RegisterSpec => []SyncInv /\ RegisterInit /\ [][RegisterNext]_registerVars
  BY SyncInvariance, PTL DEF RegisterSpec
<1> QED BY <1>1, ContractInit, ContractStep, PTL DEF KeepsCommandContract, Promise!Spec
=============================================================================
