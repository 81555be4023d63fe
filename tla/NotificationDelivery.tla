------------------------ MODULE NotificationDelivery ------------------------
(***************************************************************************)
(* The notification queue and the worker runs that empty it.               *)
(*                                                                         *)
(* A run claims due messages and commits, sends them one after the other   *)
(* outside any transaction, and writes each outcome in a transaction of    *)
(* its own.  A timer starts runs whether or not an earlier one is done, in *)
(* every worker process, so runs overlap; a run may die anywhere.  Another *)
(* run takes back what has been in sending for too long, and cannot know   *)
(* whether the run that claimed it is dead or only slow.                   *)
(*                                                                         *)
(* Time is left out: a message may be due, and a claim stalled, whenever   *)
(* the code could find it so.                                              *)
(***************************************************************************)
EXTENDS Naturals, FiniteSets, FiniteSetsExt

CONSTANTS
    Messages,      \* rows of the notification table, by dedupe key
    Runs,          \* runs that may be under way at the same time
    MaxAttempts,   \* max_attempts of every message
    NoMessage      \* the run is between two messages

ASSUME DeliveryAssumption ==
    /\ MaxAttempts \in Nat \ {0}
    /\ NoMessage \notin Messages

VARIABLES
    status,        \* notification.status, "none" before it is enqueued
    attempts,      \* notification.attempts
    log,           \* rows of notification_attempt: number and outcome
    claim,         \* claim[w][m]: attempt number run w took m for, or 0
    current,       \* current[w]: the message run w is sending
    answer,        \* answer[w]: how that send ended, "none" while it lasts
    mails,         \* mails[m]: times the mail server took m, counted to 2
    sends,         \* sends[m]: times m was sent, counted to MaxAttempts + 1
    doubtful       \* messages that were sent, perhaps, without a record

messageVars == <<status, attempts, log>>
runVars     == <<claim, current, answer>>
noticeVars == <<status, attempts, log, claim, current, answer, mails, sends, doubtful>>

Status == {"none", "pending", "sending", "sent", "failed", "bounced",
           "cancelled"}
Final == {"sent", "bounced", "cancelled"}
SendAnswer == {"none", "accepted", "transient", "permanent"}

NothingClaimed == [m \in Messages |-> 0]

NoticeInit ==
    /\ status = [m \in Messages |-> "none"]
    /\ attempts = [m \in Messages |-> 0]
    /\ log = [m \in Messages |-> {}]
    /\ claim = [w \in Runs |-> NothingClaimed]
    /\ current = [w \in Runs |-> NoMessage]
    /\ answer = [w \in Runs |-> "none"]
    /\ mails = [m \in Messages |-> 0]
    /\ sends = [m \in Messages |-> 0]
    /\ doubtful = {}

-----------------------------------------------------------------------------
(* The API: enqueue, resend, cancel                                        *)

\* Written by the transaction it reports on; a second enqueue with the same
\* key changes nothing.
Enqueue(m) ==
    /\ status[m] = "none"
    /\ status' = [status EXCEPT ![m] = "pending"]
    /\ UNCHANGED <<attempts, log, runVars, mails, sends, doubtful>>

\* A resend is a new row n; the old row keeps its history.
Resend(m, n) ==
    /\ status[m] \in Final \cup {"failed"}
    /\ Enqueue(n)

\* Mutant: what is on its way may be cancelled too.
CancellableInFlight(m) == status[m] \in {"pending", "failed", "sending"}

Cancellable(m) == status[m] \in {"pending", "failed"}

CancelMessage(m) ==
    /\ Cancellable(m)
    /\ status' = [status EXCEPT ![m] = "cancelled"]
    /\ UNCHANGED <<attempts, log, runVars, mails, sends, doubtful>>

-----------------------------------------------------------------------------
(* Claims                                                                  *)

\* Mutant: attempts are not limited.
DueForEver(m) == status[m] \in {"pending", "failed"}

DueForSending(m) ==
    /\ status[m] \in {"pending", "failed"}
    /\ attempts[m] < MaxAttempts

\* Mutant: the claim leaves the row where others find it.
ClaimUnmarked(batch) == [m \in Messages |-> status[m]]

Claimed(batch) ==
    [m \in Messages |-> IF m \in batch THEN "sending" ELSE status[m]]

Free(w) == current[w] = NoMessage /\ claim[w] = NothingClaimed

\* The due rows that were not skipped because another run has them locked.
Claim(w, batch) ==
    /\ Free(w)
    /\ batch # {}
    /\ \A m \in batch : DueForSending(m)
    /\ status' = Claimed(batch)
    /\ claim' = [claim EXCEPT ![w] =
           [m \in Messages |-> IF m \in batch THEN attempts[m] + 1 ELSE 0]]
    /\ UNCHANGED <<attempts, log, current, answer, mails, sends, doubtful>>

\* Mutant: nobody sweeps.
NeverStalled(m) == status[m] = "none"

\* A message in sending is presumed abandoned once its claim is old enough.
Stalled(m) == status[m] = "sending"

\* The row goes back to failed; its attempts are not touched.
ReclaimStalled(batch) ==
    /\ batch # {}
    /\ \A m \in batch : Stalled(m)
    /\ status' = [m \in Messages |-> IF m \in batch THEN "failed" ELSE status[m]]
    /\ doubtful' = doubtful \cup batch
    /\ UNCHANGED <<attempts, log, runVars, mails, sends>>

-----------------------------------------------------------------------------
(* Sending, with no transaction open                                       *)

Send(w, m) ==
    /\ current[w] = NoMessage
    /\ claim[w][m] > 0
    /\ current' = [current EXCEPT ![w] = m]
    /\ sends' = [sends EXCEPT ![m] = Min({@ + 1, MaxAttempts + 1})]
    /\ UNCHANGED <<messageVars, claim, answer, mails, doubtful>>

\* The mail server (external) takes the message and says so.
Accepted(w) ==
    /\ current[w] # NoMessage
    /\ answer[w] = "none"
    /\ answer' = [answer EXCEPT ![w] = "accepted"]
    /\ mails' = [mails EXCEPT ![current[w]] = Min({@ + 1, 2})]
    /\ UNCHANGED <<messageVars, claim, current, sends, doubtful>>

\* It refuses the address for good, or the message for now.
SendRefused(w, kind) ==
    /\ current[w] # NoMessage
    /\ answer[w] = "none"
    /\ answer' = [answer EXCEPT ![w] = kind]
    /\ UNCHANGED <<messageVars, claim, current, mails, sends, doubtful>>

\* It takes the message and the answer is lost: a transient failure to us.
AnswerLost(w) ==
    /\ current[w] # NoMessage
    /\ answer[w] = "none"
    /\ answer' = [answer EXCEPT ![w] = "transient"]
    /\ mails' = [mails EXCEPT ![current[w]] = Min({@ + 1, 2})]
    /\ doubtful' = doubtful \cup {current[w]}
    /\ UNCHANGED <<messageVars, claim, current, sends>>

-----------------------------------------------------------------------------
(* Outcomes: one transaction each, written to the row whatever its status   *)

Done(w) ==
    /\ claim' = [claim EXCEPT ![w][current[w]] = 0]
    /\ current' = [current EXCEPT ![w] = NoMessage]
    /\ answer' = [answer EXCEPT ![w] = "none"]

\* Mutant: the number of attempts is left as it was.
UncountedAttempt(w) == attempts

CountedAttempt(w) == [attempts EXCEPT ![current[w]] = claim[w][current[w]]]

Mark(w, outcome) ==
    /\ status' = [status EXCEPT ![current[w]] = outcome]
    /\ attempts' = CountedAttempt(w)
    /\ log' = [log EXCEPT ![current[w]] = @ \cup {<<claim[w][current[w]], outcome>>}]
    /\ Done(w)
    /\ UNCHANGED <<mails, sends, doubtful>>

MarkSent(w) == answer[w] = "accepted" /\ Mark(w, "sent")
MarkFailed(w) == answer[w] = "transient" /\ Mark(w, "failed")
MarkBounced(w) == answer[w] = "permanent" /\ Mark(w, "bounced")

\* The transaction that marks a message sent fails: caught with the errors of
\* the send, it is taken for a transient failure.
MarkSentThrows(w) ==
    /\ answer[w] = "accepted"
    /\ answer' = [answer EXCEPT ![w] = "transient"]
    /\ doubtful' = doubtful \cup {current[w]}
    /\ UNCHANGED <<messageVars, claim, current, mails, sends>>

\* The process dies, or a failed mark ends the run: its claims stay.
RunDies(w) ==
    /\ ~Free(w)
    /\ claim' = [claim EXCEPT ![w] = NothingClaimed]
    /\ current' = [current EXCEPT ![w] = NoMessage]
    /\ answer' = [answer EXCEPT ![w] = "none"]
    /\ UNCHANGED <<messageVars, mails, sends, doubtful>>

-----------------------------------------------------------------------------

SendOutcome(w) ==
    \/ Accepted(w) \/ AnswerLost(w)
    \/ SendRefused(w, "transient") \/ SendRefused(w, "permanent")

Record(w) == MarkSent(w) \/ MarkFailed(w) \/ MarkBounced(w)

NoticeNext ==
    \/ \E m \in Messages : Enqueue(m) \/ CancelMessage(m)
    \/ \E m, n \in Messages : Resend(m, n)
    \/ \E batch \in SUBSET Messages :
         \/ ReclaimStalled(batch)
         \/ \E w \in Runs : Claim(w, batch)
    \/ \E w \in Runs :
         \/ \E m \in Messages : Send(w, m)
         \/ SendOutcome(w) \/ Record(w) \/ MarkSentThrows(w) \/ RunDies(w)

\* The timer starts runs, which sweep and then claim the oldest message; not
\* every run that has a message dies before its outcome is written.  That a send
\* ends is an assumption: its timeouts leave out the upgrade by STARTTLS.
NoticeFairness ==
    /\ \A m \in Messages : WF_noticeVars(ReclaimStalled({m}))
    /\ \A m \in Messages : SF_noticeVars(\E w \in Runs : Claim(w, {m}))
    /\ \A w \in Runs, m \in Messages :
         /\ SF_noticeVars(Send(w, m))
         /\ SF_noticeVars(current[w] = m /\ SendOutcome(w))
         /\ SF_noticeVars(current[w] = m /\ Record(w))

NoticeSpec == NoticeInit /\ [][NoticeNext]_noticeVars /\ NoticeFairness

-----------------------------------------------------------------------------
(* Properties                                                              *)

NoticeTypeOK ==
    /\ status \in [Messages -> Status]
    /\ attempts \in [Messages -> 0 .. MaxAttempts]
    /\ log \in [Messages -> SUBSET ((1 .. MaxAttempts) \X
                                    {"sent", "failed", "bounced"})]
    /\ claim \in [Runs -> [Messages -> 0 .. MaxAttempts]]
    /\ current \in [Runs -> Messages \cup {NoMessage}]
    /\ answer \in [Runs -> SendAnswer]
    /\ mails \in [Messages -> 0 .. 2]
    /\ sends \in [Messages -> 0 .. MaxAttempts + 1]
    /\ doubtful \subseteq Messages

\* Runs that overlap do not send a message twice: a second mail needs a claim
\* that was presumed abandoned or an acceptance that was not recorded.
NoDoubleSend ==
    \A m \in Messages : m \notin doubtful => mails[m] <= 1

\* "Why did this customer not get the mail": the log has the attempt behind
\* every outcome and every counted attempt, and it says a mail was taken only
\* if one was.
LogExplains ==
    \A m \in Messages :
        /\ status[m] \in {"sent", "bounced"} =>
               <<attempts[m], status[m]>> \in log[m]
        /\ m \notin doubtful =>
               {row[1] : row \in log[m]} = 1 .. attempts[m]
        /\ (\E row \in log[m] : row[2] = "sent") => mails[m] > 0

\* No message is sent twice, and the log explains every message.
NoticesAccounted == NoDoubleSend /\ LogExplains

\* A message that was never presumed abandoned keeps its final status: a
\* bounced address is left alone and a cancelled message is not sent.
FinalStays ==
    [][\A m \in Messages \ doubtful :
         status[m] \in Final => status'[m] = status[m] /\ mails'[m] = mails[m]
      ]_noticeVars

\* Every message that was queued ends: it is sent, bounced or cancelled, or
\* its attempts are used up; none is left in sending, where no run looks.
NoticeSettled(m) ==
    \/ status[m] \in Final
    \/ status[m] = "failed" /\ attempts[m] = MaxAttempts

MessagesSettle ==
    \A m \in Messages : status[m] = "pending" ~> NoticeSettled(m)

\* What the comments on claim and reclaimStalled say: an attempt of a worker
\* that died is counted, and an exhausted message is not retried for ever.
SendsWithinAttempts ==
    \A m \in Messages : sends[m] <= MaxAttempts
=============================================================================
