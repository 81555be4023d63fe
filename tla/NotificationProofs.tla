------------------------- MODULE NotificationProofs -------------------------
(* What TLAPS proves of NotificationDelivery, for any messages and runs,   *)
(* and of MailSession, for any answers of the server.                      *)
EXTENDS NotificationDelivery, MailSession, TLAPS

-----------------------------------------------------------------------------
(* The counters                                                            *)

LEMMA MinOfTwo ==
    ASSUME NEW a \in Nat, NEW b \in Nat
    PROVE  Min({a, b}) = IF a <= b THEN a ELSE b
<1>1. CASE a <= b
  BY <1>1 DEF Min
<1>2. CASE b < a
  BY <1>2 DEF Min
<1> QED BY <1>1, <1>2

\* One more mail of m, counted to two.
LEMMA MailCounted ==
    ASSUME NEW f \in [Messages -> 0 .. 2], NEW m \in Messages,
           NEW g, g = [f EXCEPT ![m] = Min({@ + 1, 2})]
    PROVE  /\ g \in [Messages -> 0 .. 2]
           /\ g[m] > 0
           /\ f[m] # 0 \/ g[m] = 1
           /\ \A n \in Messages : n # m => g[n] = f[n]
           /\ \A n \in Messages : f[n] > 0 => g[n] > 0
<1> DEFINE k == Min({f[m] + 1, 2})
<1>1. f[m] \in 0 .. 2
  OBVIOUS
<1>2. k = IF f[m] + 1 <= 2 THEN f[m] + 1 ELSE 2
  BY <1>1, MinOfTwo
<1>3. k \in 1 .. 2 /\ (f[m] = 0 => k = 1)
  BY <1>1, <1>2
<1>4. g = [f EXCEPT ![m] = k]
  OBVIOUS
<1> HIDE DEF k
<1>5. g[m] = k /\ \A n \in Messages : n # m => g[n] = f[n]
  BY <1>4
<1>6. g \in [Messages -> 0 .. 2]
  BY <1>3, <1>4
<1> QED BY <1>3, <1>5, <1>6

-----------------------------------------------------------------------------
(* The inductive invariant                                                 *)

\* A message nobody presumed abandoned is in sending while a run has it, for
\* its next attempt, and one run has it.
ClaimedOnce ==
    \A m \in Messages \ doubtful, w \in Runs :
        claim[w][m] > 0 =>
            /\ status[m] = "sending"
            /\ claim[w][m] = attempts[m] + 1
            /\ \A v \in Runs : claim[v][m] > 0 => v = w

\* A run sends what it has claimed, and is told that a message was taken only
\* if it was.
SendsClaimed ==
    \A w \in Runs :
        /\ current[w] # NoMessage => claim[w][current[w]] > 0
        /\ answer[w] # "none" => current[w] # NoMessage
        /\ answer[w] = "accepted" => mails[current[w]] > 0

AcceptedFrom(w, m) == current[w] = m /\ answer[w] = "accepted"

\* The mail server has such a message only if it is marked sent, or if it is
\* in sending and no run that could send it again has it.
MailedOnce ==
    \A m \in Messages \ doubtful :
        /\ mails[m] <= 1
        /\ status[m] \notin {"sending", "sent"} => mails[m] = 0
        /\ \A w \in Runs :
             claim[w][m] > 0 /\ ~AcceptedFrom(w, m) => mails[m] = 0

NoticeInv ==
    /\ NoticeTypeOK
    /\ ClaimedOnce
    /\ SendsClaimed
    /\ MailedOnce
    /\ LogExplains

LEMMA NoticeInitInv == NoticeInit => NoticeInv
<1> SUFFICES ASSUME NoticeInit PROVE NoticeInv
  OBVIOUS
<1> USE DeliveryAssumption
<1>1. NoticeTypeOK
  BY DEF NoticeInit, NoticeTypeOK, NothingClaimed, Status, SendAnswer
<1>2. ClaimedOnce
  BY DEF NoticeInit, ClaimedOnce, NothingClaimed
<1>3. SendsClaimed
  BY DEF NoticeInit, SendsClaimed
<1>4. MailedOnce
  BY DEF NoticeInit, MailedOnce, NothingClaimed
<1>5. LogExplains
  BY DEF NoticeInit, LogExplains
<1> QED BY <1>1, <1>2, <1>3, <1>4, <1>5 DEF NoticeInv

-----------------------------------------------------------------------------
(* The API                                                                 *)

\* A message that is queued or cancelled was in no run's hands.
LEMMA StatusMoves ==
    ASSUME NoticeInv, NEW m \in Messages, NEW s \in {"pending", "cancelled"},
           status[m] \in {"none", "pending", "failed"},
           status' = [status EXCEPT ![m] = s],
           UNCHANGED <<attempts, log, runVars, mails, sends, doubtful>>
    PROVE  NoticeInv'
<1> USE DEF NoticeInv, runVars
<1>1. NoticeTypeOK'
  BY DEF NoticeTypeOK, Status
<1>2. ClaimedOnce'
  BY DEF ClaimedOnce, NoticeTypeOK
<1>3. SendsClaimed'
  BY DEF SendsClaimed
<1>4. MailedOnce'
  BY DEF MailedOnce, AcceptedFrom, NoticeTypeOK
<1>5. LogExplains'
  BY DEF LogExplains, NoticeTypeOK
<1> QED BY <1>1, <1>2, <1>3, <1>4, <1>5

LEMMA EnqueueKeeps ==
    ASSUME NoticeInv, NEW m \in Messages, Enqueue(m)
    PROVE  NoticeInv'
  BY StatusMoves DEF Enqueue

LEMMA CancelMessageKeeps ==
    ASSUME NoticeInv, NEW m \in Messages, CancelMessage(m)
    PROVE  NoticeInv'
  BY StatusMoves DEF CancelMessage, Cancellable

-----------------------------------------------------------------------------
(* Claims                                                                  *)

LEMMA ClaimKeeps ==
    ASSUME NoticeInv, NEW w \in Runs, NEW batch \in SUBSET Messages,
           Claim(w, batch)
    PROVE  NoticeInv'
<1> USE DEF NoticeInv
<1>0. /\ current[w] = NoMessage /\ claim[w] = NothingClaimed
      /\ \A m \in batch : /\ status[m] \in {"pending", "failed"}
                          /\ attempts[m] < MaxAttempts
      /\ status' = [m \in Messages |-> IF m \in batch THEN "sending" ELSE status[m]]
      /\ claim' = [claim EXCEPT ![w] =
             [m \in Messages |-> IF m \in batch THEN attempts[m] + 1 ELSE 0]]
      /\ UNCHANGED <<attempts, log, current, answer, mails, sends, doubtful>>
  BY DEF Claim, Free, DueForSending, Claimed
<1>1. NoticeTypeOK'
  <2>1. \A m \in batch : attempts[m] + 1 \in 0 .. MaxAttempts
    BY <1>0, DeliveryAssumption DEF NoticeTypeOK
  <2>2. [m \in Messages |-> IF m \in batch THEN attempts[m] + 1 ELSE 0]
            \in [Messages -> 0 .. MaxAttempts]
    BY <2>1, DeliveryAssumption
  <2> QED BY <1>0, <2>2 DEF NoticeTypeOK, Status
<1>2. ClaimedOnce'
  <2>1. \A v \in Runs, m \in Messages :
          claim'[v][m] = IF v # w THEN claim[v][m]
                         ELSE IF m \in batch THEN attempts[m] + 1 ELSE 0
    BY <1>0 DEF NoticeTypeOK
  <2>2. \A v \in Runs, m \in batch \ doubtful : ~ claim[v][m] > 0
    BY <1>0 DEF ClaimedOnce
  <2> QED BY <1>0, <2>1, <2>2 DEF ClaimedOnce, NoticeTypeOK
<1>3. SendsClaimed'
  BY <1>0 DEF SendsClaimed, NoticeTypeOK
<1>4. MailedOnce'
  BY <1>0 DEF MailedOnce, AcceptedFrom, NoticeTypeOK
<1>5. LogExplains'
  BY <1>0 DEF LogExplains, NoticeTypeOK
<1> QED BY <1>1, <1>2, <1>3, <1>4, <1>5

LEMMA ReclaimStalledKeeps ==
    ASSUME NoticeInv, NEW batch \in SUBSET Messages, ReclaimStalled(batch)
    PROVE  NoticeInv'
<1> USE DEF NoticeInv
<1>0. /\ \A m \in batch : status[m] = "sending"
      /\ status' = [m \in Messages |-> IF m \in batch THEN "failed" ELSE status[m]]
      /\ doubtful' = doubtful \cup batch
      /\ UNCHANGED <<attempts, log, claim, current, answer, mails, sends>>
  BY DEF ReclaimStalled, Stalled, runVars
<1>1. NoticeTypeOK'
  BY <1>0 DEF NoticeTypeOK, Status
<1>2. ClaimedOnce'
  BY <1>0 DEF ClaimedOnce
<1>3. SendsClaimed'
  BY <1>0 DEF SendsClaimed
<1>4. MailedOnce'
  BY <1>0 DEF MailedOnce, AcceptedFrom
<1>5. LogExplains'
  BY <1>0 DEF LogExplains
<1> QED BY <1>1, <1>2, <1>3, <1>4, <1>5

-----------------------------------------------------------------------------
(* Sending                                                                 *)

LEMMA SendKeeps ==
    ASSUME NoticeInv, NEW w \in Runs, NEW m \in Messages, Send(w, m)
    PROVE  NoticeInv'
<1> USE DEF NoticeInv
<1>0. /\ current[w] = NoMessage /\ claim[w][m] > 0 /\ answer[w] = "none"
      /\ current' = [current EXCEPT ![w] = m]
      /\ sends' = [sends EXCEPT ![m] = Min({@ + 1, MaxAttempts + 1})]
      /\ UNCHANGED <<status, attempts, log, claim, answer, mails, doubtful>>
  BY DEF Send, messageVars, SendsClaimed
<1>1. NoticeTypeOK'
  <2>1. sends[m] + 1 \in Nat /\ MaxAttempts + 1 \in Nat
    BY DeliveryAssumption DEF NoticeTypeOK
  <2>2. Min({sends[m] + 1, MaxAttempts + 1}) \in 0 .. MaxAttempts + 1
    BY <2>1, MinOfTwo, DeliveryAssumption
  <2> QED BY <1>0, <2>2 DEF NoticeTypeOK
<1>2. ClaimedOnce'
  BY <1>0 DEF ClaimedOnce
<1>3. SendsClaimed'
  BY <1>0, DeliveryAssumption DEF SendsClaimed, NoticeTypeOK
<1>4. MailedOnce'
  BY <1>0 DEF MailedOnce, AcceptedFrom, NoticeTypeOK
<1>5. LogExplains'
  BY <1>0 DEF LogExplains
<1> QED BY <1>1, <1>2, <1>3, <1>4, <1>5

LEMMA AcceptedKeeps ==
    ASSUME NoticeInv, NEW w \in Runs, Accepted(w)
    PROVE  NoticeInv'
<1> USE DEF NoticeInv
<1> DEFINE m == current[w]
<1>0. /\ m \in Messages /\ claim[w][m] > 0 /\ answer[w] = "none"
      /\ answer' = [answer EXCEPT ![w] = "accepted"]
      /\ mails' = [mails EXCEPT ![m] = Min({@ + 1, 2})]
      /\ UNCHANGED <<status, attempts, log, claim, current, sends, doubtful>>
  BY DEF Accepted, messageVars, SendsClaimed, NoticeTypeOK
<1>a. /\ mails' \in [Messages -> 0 .. 2]
      /\ mails'[m] > 0
      /\ mails[m] # 0 \/ mails'[m] = 1
      /\ \A n \in Messages : n # m => mails'[n] = mails[n]
      /\ \A n \in Messages : mails[n] > 0 => mails'[n] > 0
  <2> DEFINE after == mails'
  <2>1. /\ mails \in [Messages -> 0 .. 2] /\ m \in Messages
        /\ after = [mails EXCEPT ![m] = Min({@ + 1, 2})]
    BY <1>0 DEF NoticeTypeOK
  <2> HIDE DEF m, after
  <2>2. /\ after \in [Messages -> 0 .. 2]
        /\ after[m] > 0
        /\ mails[m] # 0 \/ after[m] = 1
        /\ \A n \in Messages : n # m => after[n] = mails[n]
        /\ \A n \in Messages : mails[n] > 0 => after[n] > 0
    BY <2>1, MailCounted
  <2> QED BY <2>2 DEF after
<1>1. NoticeTypeOK'
  BY <1>0, <1>a DEF NoticeTypeOK, SendAnswer
<1>2. ClaimedOnce'
  BY <1>0 DEF ClaimedOnce
<1>3. SendsClaimed'
  <2>1. \A v \in Runs : /\ answer'[v] = "accepted" => current[v] # NoMessage
                       /\ answer'[v] = "accepted" => mails'[current[v]] > 0
    <3> SUFFICES ASSUME NEW v \in Runs, answer'[v] = "accepted"
                 PROVE  current[v] # NoMessage /\ mails'[current[v]] > 0
      OBVIOUS
    <3>1. current[v] # NoMessage /\ current[v] \in Messages
      BY <1>0, DeliveryAssumption DEF SendsClaimed, NoticeTypeOK
    <3>2. CASE v = w
      BY <1>a, <3>1, <3>2
    <3>3. CASE v # w
      BY <1>0, <1>a, <3>1, <3>3 DEF SendsClaimed, NoticeTypeOK
    <3> QED BY <3>1, <3>2, <3>3
  <2> QED BY <1>0, <2>1, DeliveryAssumption DEF SendsClaimed, NoticeTypeOK
<1>4. MailedOnce'
  <2>1. ASSUME m \notin doubtful
        PROVE  /\ mails[m] = 0 /\ status[m] = "sending"
               /\ \A v \in Runs : claim[v][m] > 0 => v = w
    BY <2>1, <1>0 DEF MailedOnce, ClaimedOnce, AcceptedFrom
  <2> SUFFICES ASSUME NEW n \in Messages \ doubtful
               PROVE  /\ mails'[n] <= 1
                      /\ status[n] \notin {"sending", "sent"} => mails'[n] = 0
                      /\ \A v \in Runs :
                           claim[v][n] > 0 /\ ~AcceptedFrom(v, n)' => mails'[n] = 0
    BY <1>0 DEF MailedOnce
  <2>2. CASE n = m
    BY <1>0, <1>a, <2>1, <2>2 DEF AcceptedFrom, NoticeTypeOK
  <2>3. CASE n # m
    BY <1>0, <1>a, <2>3 DEF MailedOnce, AcceptedFrom, NoticeTypeOK
  <2> QED BY <2>2, <2>3
<1>5. LogExplains'
  BY <1>0, <1>a DEF LogExplains
<1> QED BY <1>1, <1>2, <1>3, <1>4, <1>5

LEMMA SendRefusedKeeps ==
    ASSUME NoticeInv, NEW w \in Runs, NEW kind \in {"transient", "permanent"},
           SendRefused(w, kind)
    PROVE  NoticeInv'
<1> USE DEF NoticeInv
<1>0. /\ current[w] # NoMessage /\ answer[w] = "none"
      /\ answer' = [answer EXCEPT ![w] = kind]
      /\ UNCHANGED <<status, attempts, log, claim, current, mails, sends, doubtful>>
  BY DEF SendRefused, messageVars
<1>1. NoticeTypeOK'
  BY <1>0 DEF NoticeTypeOK, SendAnswer
<1>2. ClaimedOnce'
  BY <1>0 DEF ClaimedOnce
<1>3. SendsClaimed'
  BY <1>0 DEF SendsClaimed, NoticeTypeOK
<1>4. MailedOnce'
  BY <1>0 DEF MailedOnce, AcceptedFrom, NoticeTypeOK
<1>5. LogExplains'
  BY <1>0 DEF LogExplains
<1> QED BY <1>1, <1>2, <1>3, <1>4, <1>5

LEMMA AnswerLostKeeps ==
    ASSUME NoticeInv, NEW w \in Runs, AnswerLost(w)
    PROVE  NoticeInv'
<1> USE DEF NoticeInv
<1> DEFINE m == current[w]
<1>0. /\ m \in Messages /\ answer[w] = "none"
      /\ answer' = [answer EXCEPT ![w] = "transient"]
      /\ mails' = [mails EXCEPT ![m] = Min({@ + 1, 2})]
      /\ doubtful' = doubtful \cup {m}
      /\ UNCHANGED <<status, attempts, log, claim, current, sends>>
  BY DEF AnswerLost, messageVars, NoticeTypeOK
<1>a. /\ mails' \in [Messages -> 0 .. 2]
      /\ mails'[m] > 0
      /\ \A n \in Messages : n # m => mails'[n] = mails[n]
      /\ \A n \in Messages : mails[n] > 0 => mails'[n] > 0
  <2>1. /\ mails \in [Messages -> 0 .. 2] /\ m \in Messages
        /\ mails' = [mails EXCEPT ![m] = Min({@ + 1, 2})]
    BY <1>0 DEF NoticeTypeOK
  <2> HIDE DEF m
  <2> QED BY <2>1, MailCounted, Zenon
<1>1. NoticeTypeOK'
  BY <1>0, <1>a DEF NoticeTypeOK, SendAnswer
<1>2. ClaimedOnce'
  BY <1>0 DEF ClaimedOnce
<1>3. SendsClaimed'
  <2>1. \A v \in Runs : /\ answer'[v] = "accepted" => current[v] # NoMessage
                       /\ answer'[v] = "accepted" => mails'[current[v]] > 0
    <3> SUFFICES ASSUME NEW v \in Runs, answer'[v] = "accepted"
                 PROVE  current[v] # NoMessage /\ mails'[current[v]] > 0
      OBVIOUS
    <3>1. current[v] # NoMessage /\ current[v] \in Messages
      BY <1>0, DeliveryAssumption DEF SendsClaimed, NoticeTypeOK
    <3>2. CASE v = w
      BY <1>a, <3>1, <3>2
    <3>3. CASE v # w
      BY <1>0, <1>a, <3>1, <3>3 DEF SendsClaimed, NoticeTypeOK
    <3> QED BY <3>1, <3>2, <3>3
  <2> QED BY <1>0, <2>1, DeliveryAssumption DEF SendsClaimed, NoticeTypeOK
<1>4. MailedOnce'
  BY <1>0, <1>a DEF MailedOnce, AcceptedFrom, NoticeTypeOK
<1>5. LogExplains'
  BY <1>0, <1>a DEF LogExplains
<1> QED BY <1>1, <1>2, <1>3, <1>4, <1>5

-----------------------------------------------------------------------------
(* Outcomes                                                                *)

\* The attempts a log knows of, with one more row.
LEMMA OneMoreRow ==
    ASSUME NEW rows, NEW k, NEW outcome
    PROVE  {row[1] : row \in rows \cup {<<k, outcome>>}}
               = {row[1] : row \in rows} \cup {k}
<1>1. \A row \in {<<k, outcome>>} : row[1] = k
  OBVIOUS
<1> QED BY <1>1

\* What every mark does, for the outcomes that can follow the answer.
LEMMA MarkKeeps ==
    ASSUME NoticeInv, NEW w \in Runs, NEW outcome \in {"sent", "failed", "bounced"},
           current[w] # NoMessage, Mark(w, outcome),
           outcome = "sent" <=> answer[w] = "accepted"
    PROVE  NoticeInv'
<1> USE DEF NoticeInv
<1> DEFINE m == current[w]
           k == claim[w][m]
<1>0. /\ m \in Messages /\ k \in 1 .. MaxAttempts
      /\ status' = [status EXCEPT ![m] = outcome]
      /\ attempts' = [attempts EXCEPT ![m] = k]
      /\ log' = [log EXCEPT ![m] = @ \cup {<<k, outcome>>}]
      /\ claim' = [claim EXCEPT ![w][m] = 0]
      /\ current' = [current EXCEPT ![w] = NoMessage]
      /\ answer' = [answer EXCEPT ![w] = "none"]
      /\ UNCHANGED <<mails, sends, doubtful>>
  BY DEF Mark, Done, CountedAttempt, SendsClaimed, NoticeTypeOK
<1>a. \A v \in Runs, n \in Messages :
        claim'[v][n] = IF v = w /\ n = m THEN 0 ELSE claim[v][n]
  BY <1>0 DEF NoticeTypeOK
<1>b. m \notin doubtful =>
        /\ k = attempts[m] + 1
        /\ \A v \in Runs : ~ claim'[v][m] > 0
  BY <1>0, <1>a DEF ClaimedOnce, NoticeTypeOK
<1>1. NoticeTypeOK'
  <2>1. k \in 0 .. MaxAttempts /\ 0 \in 0 .. MaxAttempts
    BY <1>0, DeliveryAssumption
  <2>2. claim' \in [Runs -> [Messages -> 0 .. MaxAttempts]]
    BY <1>0, <2>1 DEF NoticeTypeOK
  <2>3. log' \in [Messages -> SUBSET ((1 .. MaxAttempts) \X
                                     {"sent", "failed", "bounced"})]
    BY <1>0 DEF NoticeTypeOK
  <2> QED BY <1>0, <2>1, <2>2, <2>3 DEF NoticeTypeOK, Status, SendAnswer
<1>2. ClaimedOnce'
  BY <1>0, <1>a, <1>b DEF ClaimedOnce, NoticeTypeOK
<1>3. SendsClaimed'
  BY <1>0, <1>a DEF SendsClaimed, NoticeTypeOK
<1>4. MailedOnce'
  <2>1. ASSUME m \notin doubtful
        PROVE  mails[m] <= 1 /\ (outcome # "sent" => mails[m] = 0)
    BY <2>1, <1>0 DEF MailedOnce, AcceptedFrom
  <2> SUFFICES ASSUME NEW n \in Messages \ doubtful
               PROVE  /\ mails[n] <= 1
                      /\ status'[n] \notin {"sending", "sent"} => mails[n] = 0
                      /\ \A v \in Runs :
                           claim'[v][n] > 0 /\ ~AcceptedFrom(v, n)' => mails[n] = 0
    BY <1>0 DEF MailedOnce
  <2>2. CASE n = m
    BY <1>0, <1>b, <2>1, <2>2 DEF NoticeTypeOK
  <2>3. CASE n # m
    BY <1>0, <1>a, <2>3 DEF MailedOnce, AcceptedFrom, NoticeTypeOK
  <2> QED BY <2>2, <2>3
<1>5. LogExplains'
  <2> SUFFICES ASSUME NEW n \in Messages
               PROVE  /\ status'[n] \in {"sent", "bounced"} =>
                             <<attempts'[n], status'[n]>> \in log'[n]
                      /\ n \notin doubtful =>
                             {row[1] : row \in log'[n]} = 1 .. attempts'[n]
                      /\ (\E row \in log'[n] : row[2] = "sent") => mails[n] > 0
    BY <1>0 DEF LogExplains
  <2>1. CASE n # m
    BY <1>0, <2>1 DEF LogExplains, NoticeTypeOK
  <2>2. CASE n = m
    <3>1. /\ status'[n] = outcome /\ attempts'[n] = k
          /\ log'[n] = log[n] \cup {<<k, outcome>>}
      BY <1>0, <2>2 DEF NoticeTypeOK
    <3>2. ASSUME n \notin doubtful
          PROVE  {row[1] : row \in log'[n]} = 1 .. k
      <4>1. {row[1] : row \in log'[n]} = {row[1] : row \in log[n]} \cup {k}
        <5>1. {row[1] : row \in log[n] \cup {<<k, outcome>>}}
                  = {row[1] : row \in log[n]} \cup {k}
          BY OneMoreRow, Zenon
        <5> QED BY <3>1, <5>1
      <4>2. {row[1] : row \in log[n]} = 1 .. attempts[n]
        BY <3>2 DEF LogExplains
      <4>3. k = attempts[n] + 1 /\ attempts[n] \in Nat
        <5>1. attempts[n] \in Nat
          BY DEF NoticeTypeOK
        <5> QED BY <3>2, <1>b, <2>2, <5>1
      <4> QED BY <4>1, <4>2, <4>3
    <3>3. (\E row \in log'[n] : row[2] = "sent") => mails[n] > 0
      <4>1. outcome = "sent" => mails[n] > 0
        BY <2>2 DEF SendsClaimed
      <4>2. \A row \in log'[n] : row \in log[n] \/ row[2] = outcome
        BY <3>1
      <4> QED BY <4>1, <4>2 DEF LogExplains
    <3> QED BY <3>1, <3>2, <3>3
  <2> QED BY <2>1, <2>2
<1> QED BY <1>1, <1>2, <1>3, <1>4, <1>5

LEMMA RecordKeeps ==
    ASSUME NoticeInv, NEW w \in Runs, Record(w)
    PROVE  NoticeInv'
<1>1. answer[w] # "none" => current[w] # NoMessage
  BY DEF NoticeInv, SendsClaimed
<1>2. CASE MarkSent(w)
  BY <1>1, <1>2, MarkKeeps DEF MarkSent
<1>3. CASE MarkFailed(w)
  BY <1>1, <1>3, MarkKeeps DEF MarkFailed
<1>4. CASE MarkBounced(w)
  BY <1>1, <1>4, MarkKeeps DEF MarkBounced
<1> QED BY <1>2, <1>3, <1>4 DEF Record

LEMMA MarkSentThrowsKeeps ==
    ASSUME NoticeInv, NEW w \in Runs, MarkSentThrows(w)
    PROVE  NoticeInv'
<1> USE DEF NoticeInv
<1>0. /\ answer[w] = "accepted" /\ current[w] \in Messages
      /\ answer' = [answer EXCEPT ![w] = "transient"]
      /\ doubtful' = doubtful \cup {current[w]}
      /\ UNCHANGED <<status, attempts, log, claim, current, mails, sends>>
  BY DEF MarkSentThrows, messageVars, SendsClaimed, NoticeTypeOK
<1>1. NoticeTypeOK'
  BY <1>0 DEF NoticeTypeOK, SendAnswer
<1>2. ClaimedOnce'
  BY <1>0 DEF ClaimedOnce
<1>3. SendsClaimed'
  BY <1>0 DEF SendsClaimed, NoticeTypeOK
<1>4. MailedOnce'
  BY <1>0 DEF MailedOnce, AcceptedFrom, NoticeTypeOK
<1>5. LogExplains'
  BY <1>0 DEF LogExplains
<1> QED BY <1>1, <1>2, <1>3, <1>4, <1>5

LEMMA RunDiesKeeps ==
    ASSUME NoticeInv, NEW w \in Runs, RunDies(w)
    PROVE  NoticeInv'
<1> USE DEF NoticeInv
<1>0. /\ claim' = [claim EXCEPT ![w] = NothingClaimed]
      /\ current' = [current EXCEPT ![w] = NoMessage]
      /\ answer' = [answer EXCEPT ![w] = "none"]
      /\ UNCHANGED <<status, attempts, log, mails, sends, doubtful>>
  BY DEF RunDies, messageVars
<1>a. \A v \in Runs, m \in Messages :
        claim'[v][m] = IF v = w THEN 0 ELSE claim[v][m]
  BY <1>0 DEF NoticeTypeOK, NothingClaimed
<1>1. NoticeTypeOK'
  BY <1>0, DeliveryAssumption DEF NoticeTypeOK, SendAnswer, NothingClaimed
<1>2. ClaimedOnce'
  BY <1>0, <1>a DEF ClaimedOnce
<1>3. SendsClaimed'
  BY <1>0, <1>a DEF SendsClaimed, NoticeTypeOK
<1>4. MailedOnce'
  BY <1>0, <1>a DEF MailedOnce, AcceptedFrom, NoticeTypeOK
<1>5. LogExplains'
  BY <1>0 DEF LogExplains
<1> QED BY <1>1, <1>2, <1>3, <1>4, <1>5

-----------------------------------------------------------------------------
(* Theorems                                                                *)

LEMMA NoticeStep == NoticeInv /\ [NoticeNext]_noticeVars => NoticeInv'
<1> SUFFICES ASSUME NoticeInv, [NoticeNext]_noticeVars PROVE NoticeInv'
  OBVIOUS
<1>1. ASSUME NEW m \in Messages, Enqueue(m) \/ CancelMessage(m)
      PROVE  NoticeInv'
  BY <1>1, EnqueueKeeps, CancelMessageKeeps
<1>2. ASSUME NEW m \in Messages, NEW n \in Messages, Resend(m, n)
      PROVE  NoticeInv'
  BY <1>2, EnqueueKeeps DEF Resend
<1>3. ASSUME NEW batch \in SUBSET Messages,
             \/ ReclaimStalled(batch)
             \/ \E w \in Runs : Claim(w, batch)
      PROVE  NoticeInv'
  BY <1>3, ReclaimStalledKeeps, ClaimKeeps
<1>4. ASSUME NEW w \in Runs,
             \/ \E m \in Messages : Send(w, m)
             \/ SendOutcome(w) \/ Record(w) \/ MarkSentThrows(w) \/ RunDies(w)
      PROVE  NoticeInv'
  BY <1>4, SendKeeps, AcceptedKeeps, AnswerLostKeeps, SendRefusedKeeps,
     RecordKeeps, MarkSentThrowsKeeps, RunDiesKeeps DEF SendOutcome
<1>5. CASE UNCHANGED noticeVars
  BY <1>5 DEF noticeVars, NoticeInv, NoticeTypeOK, ClaimedOnce, SendsClaimed,
              MailedOnce, AcceptedFrom, LogExplains
<1> QED BY <1>1, <1>2, <1>3, <1>4, <1>5 DEF NoticeNext

\* The specification without its fairness: what is proved here needs none.
NoticeSafety == NoticeInit /\ [][NoticeNext]_noticeVars

LEMMA NoticeInvariance == NoticeSafety => []NoticeInv
  BY NoticeInitInv, NoticeStep, PTL DEF NoticeSafety

\* The rows of the queue, the claims of the runs and the counters stay in
\* their types; in particular no attempt is numbered past max_attempts.
THEOREM NoticeTypeCorrect == NoticeSpec => []NoticeTypeOK
<1>1. NoticeInv => NoticeTypeOK
  BY DEF NoticeInv
<1> QED BY <1>1, NoticeInvariance, PTL DEF NoticeSpec, NoticeSafety

\* However many runs overlap and whichever of them die, a message is mailed
\* twice only if its claim was presumed abandoned or the record of an
\* acceptance was lost; and the attempt log accounts for every outcome.
THEOREM NoticesCorrect == NoticeSpec => []NoticesAccounted
<1>1. NoticeInv => NoticesAccounted
  BY DEF NoticeInv, NoDoubleSend, MailedOnce, NoticesAccounted
<1> QED BY <1>1, NoticeInvariance, PTL DEF NoticeSpec, NoticeSafety

LEMMA FinalStatusKept == NoticeSafety => FinalStays
<1> DEFINE Stays == \A m \in Messages \ doubtful :
                 status[m] \in Final => status'[m] = status[m] /\ mails'[m] = mails[m]
<1>1. NoticeInv /\ [NoticeNext]_noticeVars => Stays
  <2> SUFFICES ASSUME NoticeInv, [NoticeNext]_noticeVars,
                      NEW m \in Messages \ doubtful, status[m] \in Final
               PROVE  status'[m] = status[m] /\ mails'[m] = mails[m]
    OBVIOUS
  <2> USE DEF Final
  <2>0. /\ m \in Messages
        /\ \A w \in Runs : current[w] # m
    BY DeliveryAssumption DEF NoticeInv, ClaimedOnce, SendsClaimed, NoticeTypeOK
  <2>t. /\ status \in [Messages -> Status] /\ mails \in [Messages -> 0 .. 2]
        /\ \A w \in Runs : answer[w] # "none" => current[w] # NoMessage
    BY DEF NoticeInv, NoticeTypeOK, SendsClaimed
  <2>1. ASSUME NEW n \in Messages, Enqueue(n) \/ CancelMessage(n)
        PROVE  status'[m] = status[m] /\ mails'[m] = mails[m]
    BY <2>0, <2>t, <2>1 DEF Enqueue, CancelMessage, Cancellable
  <2>2. ASSUME NEW old \in Messages, NEW n \in Messages, Resend(old, n)
        PROVE  status'[m] = status[m] /\ mails'[m] = mails[m]
    BY <2>1, <2>2 DEF Resend
  <2>3. ASSUME NEW batch \in SUBSET Messages,
               \/ ReclaimStalled(batch)
               \/ \E w \in Runs : Claim(w, batch)
        PROVE  status'[m] = status[m] /\ mails'[m] = mails[m]
    BY <2>0, <2>t, <2>3 DEF ReclaimStalled, Stalled, Claim, DueForSending, Claimed
  <2>4. ASSUME NEW w \in Runs,
               (\E n \in Messages : Send(w, n)) \/ MarkSentThrows(w) \/ RunDies(w)
        PROVE  status'[m] = status[m] /\ mails'[m] = mails[m]
    BY <2>4 DEF Send, MarkSentThrows, RunDies, messageVars
  <2>5. ASSUME NEW w \in Runs, SendOutcome(w)
        PROVE  status'[m] = status[m] /\ mails'[m] = mails[m]
    BY <2>0, <2>t, <2>5 DEF SendOutcome, Accepted, AnswerLost, SendRefused, messageVars
  <2>6. ASSUME NEW w \in Runs, Record(w)
        PROVE  status'[m] = status[m] /\ mails'[m] = mails[m]
    BY <2>0, <2>t, <2>6 DEF Record, MarkSent, MarkFailed, MarkBounced, Mark
  <2>7. CASE UNCHANGED noticeVars
    BY <2>7 DEF noticeVars
  <2> QED BY <2>1, <2>2, <2>3, <2>4, <2>5, <2>6, <2>7 DEF NoticeNext
<1>2. NoticeInv /\ [NoticeNext]_noticeVars => [Stays]_noticeVars
  BY <1>1
<1> QED BY <1>2, NoticeInvariance, PTL DEF NoticeSafety, FinalStays

\* A message with a final status that was never presumed abandoned keeps it,
\* and is not mailed any more, whatever the runs still do.
THEOREM FinalStatusStays == NoticeSpec => FinalStays
  BY FinalStatusKept, PTL DEF NoticeSpec, NoticeSafety

-----------------------------------------------------------------------------
(* One message over SMTP                                                   *)

\* What is on the wire is the answer c to the command that waits for it.
Carries(c) ==
    \/ wire = << <<c>> >>
    \/ wire = << <<c, 421>> >> /\ buffer = <<>>

Places == Exchanges \cup {"address", "connect", "handshake", "over"}

MailTypes ==
    /\ config \in SmtpConfig
    /\ exchange \in Places
    /\ extensions \in Extensions
    /\ encrypted \in BOOLEAN
    /\ taken \in BOOLEAN
    /\ refused \subseteq SmtpStage
    /\ inClear \in BOOLEAN
    /\ verdict \in Verdicts
    /\ exchange = "over" <=> verdict.kind # "none"

\* At most one segment is on its way.  While a reply is awaited nothing but
\* the announcement of a shutdown is left over from an earlier one.  Nothing
\* is heard before the connection.
SegmentsOK ==
    /\ wire # <<>> => \E c \in Codes : Carries(c)
    /\ buffer \in Seq(Codes)
    /\ exchange \in Exchanges => buffer \in {<<>>, <<421>>}
    /\ exchange \in {"address", "connect"} => wire = <<>> /\ buffer = <<>>

\* The answer that is awaited was given to this command: the message is taken
\* with the 250 to its body and not before, and a lasting refusal was noted
\* with its stage.
AnswersKnown ==
    /\ \A c \in Codes : Carries(c) /\ exchange \in Exchanges =>
          /\ exchange = "body" /\ c = 250 => taken
          /\ c >= 500 => StageOf(exchange) \in refused
    /\ taken => \/ exchange \in {"quit", "over"}
                \/ exchange = "body" /\ Carries(250)
    /\ exchange = "quit" => taken

\* A socket is plain only where no encryption was asked for, from the moment
\* the client could log in.
SocketOK ==
    /\ exchange \in Exchanges /\ config.secure => encrypted
    /\ exchange = "ehloAgain" => encrypted
    /\ exchange \in {"authPlain", "authLogin", "authUser", "authPass"} /\ ~encrypted
          => ~config.secure /\ ~config.requireTls

MailInv == MailTypes /\ SegmentsOK /\ AnswersKnown /\ SocketOK /\ VerdictTruthful

LEMMA ExchangesAre ==
    Exchanges = {"greeting", "ehlo", "starttls", "ehloAgain", "authPlain", "authLogin",
                 "authUser", "authPass", "mail_from", "rcpt_to", "data", "body", "quit"}
BY DEF Exchanges, ExpectedCode

LEMMA CodesAre == Codes = {220, 250, 235, 334, 354, 221, 421, 451, 550}
<1>1. /\ ExpectedCode["greeting"] = 220 /\ ExpectedCode["ehlo"] = 250
      /\ ExpectedCode["starttls"] = 220 /\ ExpectedCode["ehloAgain"] = 250
      /\ ExpectedCode["authPlain"] = 235 /\ ExpectedCode["authLogin"] = 334
      /\ ExpectedCode["authUser"] = 334 /\ ExpectedCode["authPass"] = 235
      /\ ExpectedCode["mail_from"] = 250 /\ ExpectedCode["rcpt_to"] = 250
      /\ ExpectedCode["data"] = 354 /\ ExpectedCode["body"] = 250
      /\ ExpectedCode["quit"] = 221
  BY DEF ExpectedCode
<1> HIDE DEF ExpectedCode
<1> QED BY <1>1, ExchangesAre DEF Codes

LEMMA MailInitially == MailInit => MailInv
<1> SUFFICES ASSUME MailInit PROVE MailInv
  OBVIOUS
<1> USE DEF MailInit
<1>1. MailTypes
  BY DEF MailTypes, Extensions, SmtpStage, Verdicts, Places
<1>2. exchange \notin Exchanges
  BY ExchangesAre
<1>3. SegmentsOK
  BY <1>2 DEF SegmentsOK
<1>4. \A c \in Codes : ~Carries(c)
  BY DEF Carries
<1>5. AnswersKnown /\ SocketOK /\ VerdictTruthful
  BY <1>2, <1>4 DEF AnswersKnown, SocketOK, VerdictTruthful
<1> QED BY <1>1, <1>3, <1>5 DEF MailInv

\* The answer of the server to the command it waits with.
LEMMA AnswerKeeps ==
    ASSUME MailInv, NEW code \in Codes, NEW closing \in BOOLEAN,
           NEW offer \in Extensions, Answer(code, closing, offer)
    PROVE  MailInv'
<1> USE DEF Answer
<1>1. exchange \in Exchanges /\ StageOf(exchange) \in SmtpStage
  BY ExchangesAre DEF StageOf, SmtpStage
<1>2. MailTypes'
  BY <1>1 DEF MailInv, MailTypes
<1>3. Carries(code)'
  BY DEF Carries
<1>4. \A c \in Codes : Carries(c)' => c = code
  BY DEF Carries
<1>5. SegmentsOK'
  BY <1>1, <1>3, ExchangesAre DEF MailInv, SegmentsOK
<1>6. ~taken \/ exchange = "quit"
  <2>1. ~Carries(250)
    BY DEF Carries
  <2>2. exchange # "over"
    BY <1>1, ExchangesAre
  <2> QED BY <2>1, <2>2 DEF MailInv, AnswersKnown
<1>7. AnswersKnown'
  BY <1>1, <1>3, <1>4, <1>6 DEF MailInv, AnswersKnown
<1>8. SocketOK'
  BY DEF MailInv, SocketOK
<1>9. VerdictTruthful'
  <2>1. verdict.kind = "none"
    BY <1>1, ExchangesAre DEF MailInv, MailTypes
  <2> QED BY <2>1 DEF MailInv, VerdictTruthful
<1> QED BY <1>2, <1>5, <1>7, <1>8, <1>9 DEF MailInv

\* The first reply that is complete: the answer, or a shutdown announced
\* before it.
FirstReply == Head(buffer \o Head(wire))

LEMMA ReplyHeard ==
    ASSUME MailInv, exchange \in Exchanges, wire # <<>>
    PROVE  /\ Tail(wire) = <<>>
           /\ Tail(buffer \o Head(wire)) \in Seq(Codes)
           /\ FirstReply \in Codes
           /\ \/ Carries(FirstReply) /\ Tail(buffer \o Head(wire)) \in {<<>>, <<421>>}
              \/ FirstReply = 421
<1>1. buffer \in {<<>>, <<421>>}
  BY DEF MailInv, SegmentsOK
<1>2. PICK c \in Codes : Carries(c)
  BY DEF MailInv, SegmentsOK
<1>3. 421 \in Codes /\ <<>> \in Seq(Codes) /\ <<421>> \in Seq(Codes) /\ <<c>> \in Seq(Codes)
  BY CodesAre
<1>4. CASE wire = << <<c>> >> /\ buffer = <<>>
  <2>1. buffer \o Head(wire) = <<c>> /\ Tail(wire) = <<>>
    BY <1>4
  <2>2. Head(<<c>>) = c /\ Tail(<<c>>) = <<>>
    OBVIOUS
  <2>3. FirstReply = c /\ Tail(buffer \o Head(wire)) = <<>>
    BY <2>1, <2>2 DEF FirstReply
  <2> QED BY <1>2, <1>3, <2>1, <2>3
<1>5. CASE wire = << <<c>> >> /\ buffer = <<421>>
  <2> DEFINE both == <<421>> \o <<c>>
  <2>1. buffer \o Head(wire) = both /\ Tail(wire) = <<>>
    BY <1>5
  <2>2. both \in Seq(Codes) /\ Len(both) = 2 /\ both[1] = 421
    BY <1>3
  <2> HIDE DEF both
  <2>3. Head(both) = 421 /\ Tail(both) \in Seq(Codes)
    BY <2>2
  <2> QED BY <1>3, <2>1, <2>3 DEF FirstReply
<1>6. CASE wire = << <<c, 421>> >> /\ buffer = <<>>
  <2>1. buffer \o Head(wire) = <<c, 421>> /\ Tail(wire) = <<>>
    BY <1>6
  <2>2. Head(<<c, 421>>) = c /\ Tail(<<c, 421>>) = <<421>>
    OBVIOUS
  <2>3. FirstReply = c /\ Tail(buffer \o Head(wire)) = <<421>>
    BY <2>1, <2>2 DEF FirstReply
  <2> QED BY <1>2, <1>3, <2>1, <2>3
<1> QED BY <1>1, <1>2, <1>4, <1>5, <1>6 DEF Carries

\* Logging in begins on a socket the configuration allows it on.
LEMMA LoginAllowed ==
    ASSUME MailInv, Authenticate,
           encrypted \/ (~config.secure /\ ~config.requireTls)
    PROVE  /\ exchange' \in {"mail_from", "authPlain", "authLogin", "over"}
           /\ exchange' = "over" => verdict' = [kind |-> "transient", stage |-> "auth"]
           /\ exchange' # "over" => verdict' = verdict
BY DEF Authenticate, Go, Throw, End, classifySmtpFailure, NoReply

\* The reply ends the conversation, or is the one that was expected and leads
\* to the next exchange.
LEMMA ReplyLeads ==
    ASSUME MailInv, NEW code \in Codes, Proceed(code), exchange \in Exchanges
    PROVE  \/ /\ exchange = "quit"
              /\ exchange' = "over" /\ verdict' = [kind |-> "sent", stage |-> "quit"]
           \/ /\ exchange # "quit" /\ code # ExpectedCode[exchange]
              /\ exchange' = "over"
              /\ verdict' = [kind |-> classifySmtpFailure(StageOf(exchange), code),
                             stage |-> StageOf(exchange)]
           \/ /\ exchange' = "over"
              /\ \E s \in {"auth", "starttls"} : verdict' = [kind |-> "transient", stage |-> s]
           \/ /\ exchange # "quit" /\ code = ExpectedCode[exchange]
              /\ exchange' \in (Exchanges \ {"ehloAgain"}) \cup {"handshake"}
              /\ verdict' = verdict
              /\ exchange' = "quit" <=> exchange = "body"
              /\ exchange' \in {"authPlain", "authLogin", "authUser", "authPass"}
                    => encrypted \/ (~config.secure /\ ~config.requireTls)
<1>1. CASE exchange = "quit"
  BY <1>1 DEF Proceed, End
<1>2. CASE exchange # "quit" /\ code # ExpectedCode[exchange]
  BY <1>2 DEF Proceed, Throw, End
<1>3. CASE exchange = "ehlo" /\ code = ExpectedCode[exchange]
  <2>1. Secure
    BY <1>3 DEF Proceed
  <2>2. config.secure => encrypted
    BY DEF MailInv, SocketOK
  <2>3. CASE Authenticate /\ (config.secure \/ ~config.requireTls)
    BY <1>3, <2>2, <2>3, LoginAllowed, ExchangesAre
  <2>4. CASE exchange' = "starttls" /\ verdict' = verdict
    BY <1>3, <2>4, ExchangesAre
  <2>5. CASE Throw("starttls", NoReply)
    BY <2>5 DEF Throw, End, classifySmtpFailure, NoReply
  <2> QED BY <2>1, <2>3, <2>4, <2>5 DEF Secure, Go
<1>4. CASE exchange = "ehloAgain" /\ code = ExpectedCode[exchange]
  <2>1. Authenticate /\ encrypted
    BY <1>4 DEF Proceed, MailInv, SocketOK
  <2> QED BY <1>4, <2>1, LoginAllowed, ExchangesAre
<1>5. CASE exchange \notin {"quit", "ehlo", "ehloAgain"} /\ code = ExpectedCode[exchange]
  <2>1. exchange' = Following[exchange] /\ verdict' = verdict
    BY <1>5 DEF Proceed, Go
  <2>2. exchange \in {"greeting", "starttls", "authPlain", "authLogin", "authUser",
                      "authPass", "mail_from", "rcpt_to", "data", "body"}
    BY <1>5, ExchangesAre
  <2>3. /\ exchange' \in (Exchanges \ {"ehloAgain"}) \cup {"handshake"}
        /\ exchange' = "quit" <=> exchange = "body"
        /\ exchange' \in {"authUser", "authPass"} => exchange \in {"authLogin", "authUser"}
        /\ exchange' \notin {"authPlain", "authLogin"}
    BY <2>1, <2>2, ExchangesAre DEF Following
  <2> QED BY <1>5, <2>1, <2>3 DEF MailInv, SocketOK
<1> QED BY <1>1, <1>2, <1>3, <1>4, <1>5

LEMMA OneAnswer ==
    ASSUME NEW c, NEW d, Carries(c), Carries(d)
    PROVE  c = d
BY DEF Carries

\* No command awaits the announcement of a shutdown.
LEMMA ShutdownUnexpected ==
    ASSUME NEW x \in Exchanges
    PROVE  /\ ExpectedCode[x] # 421 /\ ExpectedCode[x] < 500
           /\ ExpectedCode["body"] = 250
BY ExchangesAre DEF ExpectedCode

\* A conversation that ends leaves nothing to answer.
LEMMA EndKeeps ==
    ASSUME MailInv, exchange' = "over",
           UNCHANGED <<config, extensions, encrypted, taken, refused>>,
           inClear' = (inClear \/ (~encrypted /\ exchange' \in {"authPlain", "authUser"})),
           wire' = <<>> \/ UNCHANGED <<wire, buffer>>, buffer' \in Seq(Codes),
           NEW kind \in {"sent", "permanent", "transient"}, NEW s \in SmtpStage,
           verdict' = [kind |-> kind, stage |-> s],
           kind = "sent" => taken,
           kind = "permanent" =>
              /\ ~taken
              /\ ~config.deliverable \/ refused \cap {"rcpt_to", "data", "body"} # {}
    PROVE  MailInv'
<1>1. exchange' \notin Exchanges /\ inClear' = inClear
  BY ExchangesAre DEF MailInv, MailTypes
<1>2. MailTypes'
  BY <1>1 DEF MailInv, MailTypes, Verdicts, Places
<1>3. SegmentsOK'
  BY <1>1 DEF MailInv, SegmentsOK, Carries
<1>4. AnswersKnown' /\ SocketOK'
  BY <1>1 DEF AnswersKnown, SocketOK
<1>5. VerdictTruthful'
  BY <1>1 DEF MailInv, VerdictTruthful
<1> QED BY <1>2, <1>3, <1>4, <1>5 DEF MailInv

LEMMA HearKeeps ==
    ASSUME MailInv, Hear
    PROVE  MailInv'
<1> DEFINE code == FirstReply
<1>1. exchange \in Exchanges /\ wire # <<>>
  BY DEF Hear
<1>2. /\ Proceed(code)
      /\ buffer' = Tail(buffer \o Head(wire)) /\ wire' = Tail(wire)
      /\ inClear' = (inClear \/ (~encrypted /\ exchange' \in {"authPlain", "authUser"}))
      /\ UNCHANGED <<config, extensions, encrypted, taken, refused>>
  BY DEF Hear, FirstReply
<1>3. /\ wire' = <<>> /\ buffer' \in Seq(Codes) /\ code \in Codes
      /\ \/ Carries(code) /\ buffer' \in {<<>>, <<421>>}
         \/ code = 421
  BY <1>1, <1>2, ReplyHeard
<1> HIDE DEF code
<1>4. /\ exchange # "over" /\ StageOf(exchange) \in SmtpStage \ {"address"}
      /\ MailTypes
  BY <1>1, ExchangesAre DEF StageOf, SmtpStage, MailInv
<1>5. \A c \in Codes : ~Carries(c)'
  BY <1>3 DEF Carries
<1>6. CASE exchange = "quit" /\ exchange' = "over" /\ verdict' = [kind |-> "sent", stage |-> "quit"]
  <2>1. taken /\ "quit" \in SmtpStage
    BY <1>6 DEF MailInv, AnswersKnown, SmtpStage
  <2> QED BY <1>2, <1>3, <1>6, <2>1, EndKeeps
<1>7. ASSUME NEW kind \in {"permanent", "transient"}, NEW s \in SmtpStage,
             exchange' = "over", verdict' = [kind |-> kind, stage |-> s],
             kind = "permanent" => /\ ~taken
                                   /\ refused \cap {"rcpt_to", "data", "body"} # {}
      PROVE  MailInv'
  BY <1>2, <1>3, <1>7, EndKeeps
<1>8. CASE /\ exchange # "quit" /\ code # ExpectedCode[exchange]
           /\ exchange' = "over"
           /\ verdict' = [kind |-> classifySmtpFailure(StageOf(exchange), code),
                          stage |-> StageOf(exchange)]
  <2> DEFINE kind == classifySmtpFailure(StageOf(exchange), code)
  <2>1. kind \in {"permanent", "transient"}
    BY DEF classifySmtpFailure
  <2>2. ASSUME kind = "permanent"
        PROVE  ~taken /\ refused \cap {"rcpt_to", "data", "body"} # {}
    <3>1. code >= 500 /\ StageOf(exchange) \in {"rcpt_to", "data", "body"}
      BY <1>4, <2>2 DEF classifySmtpFailure
    <3>2. Carries(code)
      BY <1>3, <3>1
    <3>3. StageOf(exchange) \in refused
      BY <1>1, <1>3, <3>1, <3>2 DEF MailInv, AnswersKnown
    <3>4. ~Carries(250)
      BY <3>1, <3>2, OneAnswer
    <3>5. ~taken
      BY <1>4, <1>8, <3>4 DEF MailInv, AnswersKnown
    <3> QED BY <3>1, <3>3, <3>5
  <2> HIDE DEF kind
  <2>3. verdict' = [kind |-> kind, stage |-> StageOf(exchange)]
    BY <1>8 DEF kind
  <2> QED BY <1>4, <1>7, <1>8, <2>1, <2>2, <2>3
<1>9. CASE /\ exchange' = "over"
           /\ \E s \in {"auth", "starttls"} : verdict' = [kind |-> "transient", stage |-> s]
  <2>1. PICK s \in {"auth", "starttls"} : verdict' = [kind |-> "transient", stage |-> s]
    BY <1>9
  <2>2. s \in SmtpStage
    BY DEF SmtpStage
  <2> QED BY <1>7, <1>9, <2>1, <2>2
<1>10. CASE /\ exchange # "quit" /\ code = ExpectedCode[exchange]
            /\ exchange' \in (Exchanges \ {"ehloAgain"}) \cup {"handshake"}
            /\ verdict' = verdict
            /\ exchange' = "quit" <=> exchange = "body"
            /\ exchange' \in {"authPlain", "authLogin", "authUser", "authPass"}
                  => encrypted \/ (~config.secure /\ ~config.requireTls)
  <2>1. Carries(code) /\ buffer' \in {<<>>, <<421>>}
    BY <1>1, <1>3, <1>10, ShutdownUnexpected
  <2>2. exchange' # "over" /\ exchange' \in Places
    BY <1>10, ExchangesAre DEF Places
  <2>3. MailTypes'
    BY <1>2, <1>4, <1>10, <2>2 DEF MailTypes
  <2>4. SegmentsOK'
    BY <1>3, <1>10, <2>1, ExchangesAre DEF SegmentsOK
  <2>5. taken <=> exchange' = "quit"
    <3>1. exchange = "body" => taken
      BY <1>1, <1>3, <1>10, <2>1, ShutdownUnexpected DEF MailInv, AnswersKnown
    <3>2. taken => exchange = "body"
      BY <1>4, <1>10 DEF MailInv, AnswersKnown
    <3> QED BY <1>10, <3>1, <3>2
  <2>6. AnswersKnown'
    BY <1>2, <1>5, <2>5 DEF AnswersKnown
  <2>7. SocketOK'
    BY <1>1, <1>2, <1>10 DEF MailInv, SocketOK
  <2>8. verdict.kind = "none"
    BY <1>4 DEF MailTypes
  <2>9. VerdictTruthful'
    BY <1>2, <1>10, <2>8 DEF MailInv, VerdictTruthful
  <2> QED BY <2>3, <2>4, <2>6, <2>7, <2>9 DEF MailInv
<1> QED BY <1>1, <1>2, <1>3, <1>6, <1>8, <1>9, <1>10, ReplyLeads

\* The address, the connection and the change to TLS: nothing was sent yet, or
\* nothing of it is left.
LEMMA ConnectionKeeps ==
    ASSUME MailInv, CheckAddress \/ Connect \/ ConnectFails \/ Upgrade \/ UpgradeFails
    PROVE  MailInv'
<1>0. exchange \notin Exchanges /\ exchange \in {"address", "connect", "handshake"}
  BY ExchangesAre DEF CheckAddress, Connect, ConnectFails, Upgrade, UpgradeFails
<1>1. ~taken
  BY <1>0 DEF MailInv, AnswersKnown
<1>2. verdict.kind = "none" /\ MailTypes /\ buffer \in Seq(Codes)
  BY <1>0 DEF MailInv, MailTypes, SegmentsOK
<1>3. ASSUME exchange' = "over", UNCHANGED <<config, extensions, encrypted, wire, buffer,
                                            taken, refused, inClear>>,
             \/ verdict' = [kind |-> "permanent", stage |-> "address"] /\ ~config.deliverable
             \/ verdict' = [kind |-> "transient", stage |-> "connect"]
      PROVE  MailInv'
  <2>1. inClear' = (inClear \/ (~encrypted /\ exchange' \in {"authPlain", "authUser"}))
    BY <1>2, <1>3 DEF MailTypes
  <2>2. "address" \in SmtpStage /\ "connect" \in SmtpStage
    BY DEF SmtpStage
  <2> QED BY <1>1, <1>2, <1>3, <2>1, <2>2, EndKeeps
<1>4. ASSUME exchange' \in {"connect", "greeting", "ehloAgain"}, wire' = <<>>, buffer' = <<>>,
             UNCHANGED <<config, extensions, taken, refused, inClear, verdict>>,
             encrypted' \in BOOLEAN,
             exchange' # "connect" /\ config.secure => encrypted',
             exchange' = "ehloAgain" => encrypted'
      PROVE  MailInv'
  <2>1. MailTypes'
    BY <1>0, <1>2, <1>4, ExchangesAre DEF MailTypes, Places
  <2>2. SegmentsOK'
    BY <1>4 DEF SegmentsOK
  <2>3. \A c \in Codes : ~Carries(c)'
    BY <1>4 DEF Carries
  <2>4. exchange' = "connect" => exchange' \notin Exchanges
    BY ExchangesAre
  <2>5. AnswersKnown' /\ SocketOK'
    BY <1>1, <1>4, <2>3, <2>4 DEF AnswersKnown, SocketOK
  <2>6. VerdictTruthful'
    BY <1>2, <1>4 DEF MailInv, VerdictTruthful
  <2> QED BY <2>1, <2>2, <2>5, <2>6 DEF MailInv
<1>5. CASE CheckAddress
  <2>1. wire = <<>> /\ buffer = <<>> /\ encrypted \in BOOLEAN
    BY <1>2, <1>5 DEF CheckAddress, MailInv, SegmentsOK, MailTypes
  <2> QED BY <1>3, <1>4, <1>5, <2>1 DEF CheckAddress, Go, Throw, End, classifySmtpFailure
<1>6. CASE Connect
  <2>1. wire = <<>> /\ buffer = <<>> /\ config.secure \in BOOLEAN
    BY <1>2, <1>6 DEF Connect, MailInv, SegmentsOK, MailTypes, SmtpConfig
  <2> QED BY <1>4, <1>6, <2>1 DEF Connect, Go
<1>7. CASE ConnectFails \/ UpgradeFails
  BY <1>3, <1>7 DEF ConnectFails, UpgradeFails, Throw, End, classifySmtpFailure, NoReply
<1>8. CASE Upgrade
  BY <1>4, <1>8 DEF Upgrade, Go
<1> QED BY <1>5, <1>6, <1>7, <1>8

LEMMA FatalKeeps ==
    ASSUME MailInv, Fatal
    PROVE  MailInv'
<1>1. /\ exchange' = "over" /\ wire' = <<>>
      /\ UNCHANGED <<config, extensions, encrypted, buffer, taken, refused, inClear>>
      /\ \/ exchange = "quit" /\ verdict' = [kind |-> "sent", stage |-> "quit"]
         \/ verdict' = [kind |-> "transient", stage |-> "connect"]
  BY DEF Fatal, Throw, End, classifySmtpFailure, NoReply
<1>2. exchange = "quit" => taken
  BY DEF MailInv, AnswersKnown
<1>3. inClear' = (inClear \/ (~encrypted /\ exchange' \in {"authPlain", "authUser"}))
  BY <1>1 DEF MailInv, MailTypes
<1>4. buffer' \in Seq(Codes) /\ "quit" \in SmtpStage /\ "connect" \in SmtpStage
  BY <1>1 DEF MailInv, SegmentsOK, SmtpStage
<1> QED BY <1>1, <1>2, <1>3, <1>4, EndKeeps

LEMMA MailStep == MailInv /\ [MailNext]_mailVars => MailInv'
<1> SUFFICES ASSUME MailInv, [MailNext]_mailVars PROVE MailInv'
  OBVIOUS
<1>1. CASE AnswerAny
  <2>1. PICK code \in {ExpectedCode[x] : x \in {exchange} \cap Exchanges} \cup {451, 550},
             closing \in BOOLEAN, offer \in Extensions : Answer(code, closing, offer)
    BY <1>1 DEF AnswerAny
  <2>2. code \in Codes
    BY DEF Codes
  <2> QED BY <2>1, <2>2, AnswerKeeps
<1>2. CASE UNCHANGED mailVars
  BY <1>2 DEF mailVars, MailInv, MailTypes, SegmentsOK, AnswersKnown, SocketOK,
     VerdictTruthful, Carries
<1> QED BY <1>1, <1>2, HearKeeps, ConnectionKeeps, FatalKeeps DEF MailNext

LEMMA MailInvTypes == MailInv => MailTypeOK
<1> SUFFICES ASSUME MailInv PROVE MailTypeOK
  OBVIOUS
<1>1. wire \in Seq(Seq(Codes))
  <2>1. CASE wire = <<>>
    BY <2>1
  <2>2. CASE wire # <<>>
    <3>1. PICK c \in Codes : wire = << <<c>> >> \/ wire = << <<c, 421>> >>
      BY <2>2 DEF MailInv, SegmentsOK, Carries
    <3>2. 421 \in Codes
      BY CodesAre
    <3>3. <<c>> \in Seq(Codes) /\ <<c, 421>> \in Seq(Codes)
      BY <3>2
    <3>4. PICK segment \in Seq(Codes) : wire = <<segment>>
      BY <3>1, <3>3
    <3> QED BY <3>4
  <2> QED BY <2>1, <2>2
<1> QED BY <1>1 DEF MailInv, MailTypes, SegmentsOK, MailTypeOK, Places

\* MailInv holds in every reachable state.
THEOREM MailInvariance == MailSpec => []MailInv
<1>1. MailInit => MailInv
  BY MailInitially
<1>2. MailInv /\ [MailNext]_mailVars => MailInv'
  BY MailStep
<1> QED BY <1>1, <1>2, PTL DEF MailSpec

\* Every variable of the session stays in its type.
THEOREM MailTypeCorrect == MailSpec => []MailTypeOK
<1>1. MailInv => MailTypeOK
  BY MailInvTypes
<1> QED BY <1>1, MailInvariance, PTL

\* Whatever the server answers, in one segment or with its shutdown behind, and
\* wherever the connection breaks: a message is reported as sent only if it was
\* accepted, as a bounce only if the address or the message was refused for
\* good, and the password crosses a plain socket only where that was allowed.
THEOREM VerdictsAreTruthful == MailSpec => []VerdictTruthful
<1>1. MailInv => VerdictTruthful
  BY DEF MailInv
<1> QED BY <1>1, MailInvariance, PTL
=============================================================================
