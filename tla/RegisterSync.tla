---------------------------- MODULE RegisterSync ----------------------------
(***************************************************************************)
(* The offline command log of a register, its mirror of the stock, and the *)
(* sync that pushes commands to the server and pulls the ledger feed.      *)
(*                                                                         *)
(* An append reads the last sequence number, waits, checks the command     *)
(* against the mirror and shows it there, waits, and stores it.  A sync    *)
(* pushes what was pending when it began; its answer may be lost after the *)
(* server handled any part of it, and a call may throw, which ends the     *)
(* sync without a rebuild.  Meanwhile appends and other registers go on.   *)
(* The server numbers a movement when it is inserted and shows it when it  *)
(* is committed, so the feed's order is not the order of commits.          *)
(*                                                                         *)
(* Sales and returns of one variant at one location, some of one phone.    *)
(***************************************************************************)
EXTENDS Integers, FiniteSets, FiniteSetsExt, SequencesExt

CONSTANTS
    Commands,     \* client-generated command ids
    Returns,      \* the commands that are returns; the others are sales
    Others,       \* sales of other registers
    Phones,       \* the commands and sales that are about the phone
    Start,        \* stock on hand at the outset
    Limit         \* page size of the feed

ASSUME SyncAssumption ==
    /\ Returns \subseteq Commands
    /\ Phones \subseteq Commands \cup Others
    /\ Commands \cap Others = {}
    /\ Start \in Nat /\ Limit \in Nat \ {0}

VARIABLES
    appending,   \* appending[c]: number read by a running append, 0 if none
    shown,       \* overlay of the mirror, in the order it was applied
    commandStatus, \* commandStatus[c]: status in the command store
    seqOf,       \* seqOf[c]: local number in the command store
    lost,        \* commands whose store call threw
    mirror,      \* derived by the mirror: stock on hand, state of the phone
    history,     \* authoritative movements the mirror has
    cursor,      \* feed number up to which the register has pulled
    ledger,      \* committed movements of the server: [id, seq]
    inserted,    \* movements inserted and not yet committed
    nextSeq,     \* the identity column
    phase,       \* where the sync is
    batch,       \* what it pushes, in the order of seqOf
    results,     \* results[c]: answer of the server to this push
    marked,      \* the command a sync has marked and not yet dropped, if any
    conflicts,   \* commands recorded for the manager
    abandoned    \* commands marked by a sync that failed before it dropped them

CommandStatus == {"none", "pending", "synced", "rejected"}
PushStatus == {"none", "applied", "duplicate", "rejected"}

logVars == <<appending, shown, commandStatus, seqOf, lost>>
serverVars == <<ledger, inserted, nextSeq>>
syncVars == <<phase, batch, results, marked, conflicts, abandoned>>
registerVars == <<logVars, serverVars, syncVars, mirror, history, cursor>>

-----------------------------------------------------------------------------
(* Levels: what movements made of them, on the server and in the mirror    *)

\* What a movement of the phone leaves it as.
PhoneAfter(id) == IF id \in Returns THEN "returned_pending" ELSE "sold"

Move(levels, id) ==
    [onHand |-> levels.onHand - (IF id \in Returns THEN 0 ELSE 1),
     phone  |-> IF id \in Phones THEN PhoneAfter(id) ELSE levels.phone]

\* Numbered movements replayed: every sale has taken one, in whatever order;
\* the phone is as the last movement of it left it.
Replay(past) ==
    LET ofPhone == {m \in past : m.id \in Phones}
        last == CHOOSE m \in ofPhone : \A k \in ofPhone : k.seq <= m.seq
    IN [onHand |-> Start - Cardinality({m \in past : m.id \notin Returns}),
        phone  |-> IF ofPhone = {} THEN "in_stock" ELSE PhoneAfter(last.id)]

Ids(movements) == {m.id : m \in movements}

Server == Replay(ledger)

\* Mutant: nothing is looked at.
SellableBlind(levels, id) == TRUE

\* A sale needs stock, and the phone if it is about the phone; a return of
\* the phone needs it to be sold.
Sellable(levels, id) ==
    levels.onHand >= 1 /\ (id \in Phones => levels.phone = "in_stock")

Returnable(levels, id) == id \in Phones => levels.phone = "sold"

Accepts(levels, id) ==
    IF id \in Returns THEN Returnable(levels, id) ELSE Sellable(levels, id)

RegisterInit ==
    /\ appending = [c \in Commands |-> 0]
    /\ shown = <<>>
    /\ commandStatus = [c \in Commands |-> "none"]
    /\ seqOf = [c \in Commands |-> 0]
    /\ lost = {}
    /\ mirror = Replay({})
    /\ history = {} /\ cursor = 0
    /\ ledger = {} /\ inserted = {} /\ nextSeq = 1
    /\ phase = "idle" /\ batch = {}
    /\ results = [c \in Commands |-> "none"]
    /\ marked = {} /\ conflicts = {} /\ abandoned = {}

-----------------------------------------------------------------------------
(* CommandLog.append                                                       *)

LastSeq == Max({seqOf[c] : c \in Commands})

\* The overlay does not have the command; the store is asked for its last
\* number, and the append waits.
ReadSeq(c) ==
    /\ appending[c] = 0 /\ commandStatus[c] = "none" /\ ~Contains(shown, c)
    /\ appending' = [appending EXCEPT ![c] = LastSeq + 1]
    /\ UNCHANGED <<shown, commandStatus, seqOf, lost, serverVars, syncVars, mirror,
                   history, cursor>>

\* Valid against the mirror as it is now: shown at once, before it is stored.
Show(c) ==
    /\ appending[c] > 0 /\ ~Contains(shown, c)
    /\ Accepts(mirror, c)
    /\ shown' = Append(shown, c)
    /\ mirror' = Move(mirror, c)
    /\ UNCHANGED <<appending, commandStatus, seqOf, lost, serverVars, syncVars, history, cursor>>

TurnDown(c) ==
    /\ appending[c] > 0 /\ ~Contains(shown, c)
    /\ ~Accepts(mirror, c)
    /\ appending' = [appending EXCEPT ![c] = 0]
    /\ UNCHANGED <<shown, commandStatus, seqOf, lost, serverVars, syncVars, mirror,
                   history, cursor>>

Store(c) ==
    /\ appending[c] > 0 /\ Contains(shown, c)
    /\ commandStatus' = [commandStatus EXCEPT ![c] = "pending"]
    /\ seqOf' = [seqOf EXCEPT ![c] = appending[c]]
    /\ appending' = [appending EXCEPT ![c] = 0]
    /\ UNCHANGED <<shown, lost, serverVars, syncVars, mirror, history, cursor>>

\* The store throws: the mirror keeps the command nobody will replay.
StoreThrows(c) ==
    /\ appending[c] > 0 /\ Contains(shown, c)
    /\ appending' = [appending EXCEPT ![c] = 0]
    /\ lost' = lost \cup {c}
    /\ UNCHANGED <<shown, commandStatus, seqOf, serverVars, syncVars, mirror, history, cursor>>

-----------------------------------------------------------------------------
(* The server and the other registers                                      *)

\* A movement takes its number, then waits for the lock on the level ...
Insert(o) ==
    /\ o \notin Ids(inserted \cup ledger)
    /\ inserted' = inserted \cup {[id |-> o, seq |-> nextSeq]}
    /\ nextSeq' = nextSeq + 1
    /\ UNCHANGED <<logVars, ledger, syncVars, mirror, history, cursor>>

\* ... and is committed, if there is stock for it.
CommitOther(m) ==
    /\ m \in inserted
    /\ Sellable(Server, m.id)
    /\ inserted' = inserted \ {m}
    /\ ledger' = ledger \cup {m}
    /\ UNCHANGED <<logVars, nextSeq, syncVars, mirror, history, cursor>>

\* Mutant: the server takes a replayed command for a new one.
NeverKnown(c) == FALSE

\* The id of a command is the key of what it did.
Known(c) == c \in Ids(ledger)

\* The first in the order of the log.  Appends that overlap may have read the
\* same number; the store always lists them in one order.
First(S) == CHOOSE c \in S : \A b \in S : seqOf[c] <= seqOf[b]

Unhandled == {c \in batch : results[c] = "none"}

\* The server handles the next command of the push: it is known, applied, or
\* refused for want of stock or for a reason of the server's own.
Handle(c) ==
    /\ phase = "push"
    /\ c \in Unhandled /\ c = First(Unhandled)
    /\ IF Known(c)
         THEN /\ results' = [results EXCEPT ![c] = "duplicate"]
              /\ UNCHANGED <<ledger, nextSeq>>
         ELSE \/ /\ Accepts(Server, c)
                 /\ results' = [results EXCEPT ![c] = "applied"]
                 /\ ledger' = ledger \cup {[id |-> c, seq |-> nextSeq]}
                 /\ nextSeq' = nextSeq + 1
              \/ /\ results' = [results EXCEPT ![c] = "rejected"]
                 /\ UNCHANGED <<ledger, nextSeq>>
    /\ UNCHANGED <<logVars, inserted, phase, batch, marked, conflicts, abandoned,
                   mirror, history, cursor>>

-----------------------------------------------------------------------------
(* SyncEngine.sync, one at a time: nothing calls it yet, and it does not   *)
(* itself keep a second call out                                           *)

Pending == {c \in Commands : commandStatus[c] = "pending"}

NoResults == [c \in Commands |-> "none"]

StartSync ==
    /\ phase = "idle"
    /\ batch' = Pending
    /\ phase' = IF Pending = {} THEN "pull" ELSE "push"
    /\ results' = NoResults
    /\ UNCHANGED <<logVars, serverVars, marked, conflicts, abandoned, mirror,
                   history, cursor>>

\* The answer arrives; commands without a result stay pending.
PushAnswered ==
    /\ phase = "push"
    /\ phase' = "ack"
    /\ UNCHANGED <<logVars, serverVars, batch, results, marked, conflicts,
                   abandoned, mirror, history, cursor>>

\* Mutant: the whole overlay is dropped.
DiscardAll(c) == <<>>

\* Dropped from the overlay; the levels stay until the rebuild.
Discard(c) ==
    IF Contains(shown, c)
    THEN RemoveAt(shown, CHOOSE i \in DOMAIN shown : shown[i] = c)
    ELSE shown

\* Mutant: a duplicate is not taken for success.
LandedFirst == {"applied"}

\* A duplicate is success: an earlier push landed, its answer did not.
Landed == {"applied", "duplicate"}

Answered == {c \in batch : commandStatus[c] = "pending" /\ results[c] # "none"}

\* Marked synced ...
AckSynced(c) ==
    /\ phase = "ack"
    /\ c \in Answered /\ c = First(Answered)
    /\ results[c] \in Landed
    /\ commandStatus' = [commandStatus EXCEPT ![c] = "synced"]
    /\ phase' = "drop"
    /\ marked' = {c}
    /\ UNCHANGED <<appending, shown, seqOf, lost, serverVars, batch, results, conflicts,
                   abandoned, mirror, history, cursor>>

\* ... or marked rejected, and then recorded for the manager ...
AckRejected(c) ==
    /\ phase = "ack"
    /\ c \in Answered /\ c = First(Answered)
    /\ results[c] = "rejected"
    /\ commandStatus' = [commandStatus EXCEPT ![c] = "rejected"]
    /\ phase' = "record"
    /\ marked' = {c}
    /\ UNCHANGED <<appending, shown, seqOf, lost, serverVars, batch, results, conflicts,
                   abandoned, mirror, history, cursor>>

RecordConflict(c) ==
    /\ phase = "record" /\ c \in marked
    /\ conflicts' = conflicts \cup {c}
    /\ phase' = "drop"
    /\ UNCHANGED <<logVars, serverVars, batch, results, marked, abandoned, mirror,
                   history, cursor>>

\* ... and only then, when the call has returned, dropped from the overlay.
DropMarked(c) ==
    /\ phase = "drop" /\ c \in marked
    /\ shown' = Discard(c)
    /\ phase' = "ack"
    /\ marked' = {}
    /\ UNCHANGED <<appending, commandStatus, seqOf, lost, serverVars, batch, results,
                   conflicts, abandoned, mirror, history, cursor>>

PushDone ==
    /\ phase = "ack"
    /\ Answered = {}
    /\ phase' = "pull"
    /\ UNCHANGED <<logVars, serverVars, batch, results, marked, conflicts,
                   abandoned, mirror, history, cursor>>

\* The next page of committed movements after the cursor, at most Limit.
After(n) == {m \in ledger : m.seq > n}
Page == {m \in After(cursor) : Cardinality({k \in After(cursor) : k.seq <= m.seq}) <= Limit}

\* The history is replayed, then the overlay in its order, but for what the
\* history has.
Rebuilt(past) ==
    LET after[i \in 0 .. Len(shown)] ==
            IF i = 0 THEN Replay(past)
            ELSE IF shown[i] \in Ids(past) THEN after[i - 1]
            ELSE Move(after[i - 1], shown[i])
    IN after[Len(shown)]

\* A movement the mirror has is not added again.
applyServerMovements(items) == history \cup items

\* One page is applied; after a page that is not full the mirror is rebuilt.
PullPage ==
    /\ phase = "pull"
    /\ history' = applyServerMovements(Page)
    /\ cursor' = IF Page = {} THEN cursor ELSE Max({m.seq : m \in Page})
    /\ IF Cardinality(Page) < Limit
         THEN phase' = "idle" /\ mirror' = Rebuilt(history')
         ELSE UNCHANGED <<phase, mirror>>
    /\ UNCHANGED <<logVars, serverVars, batch, results, marked, conflicts, abandoned>>

\* Any call of the sync throws: it ends, the mirror is not rebuilt.
SyncFails ==
    /\ phase # "idle"
    /\ phase' = "idle"
    /\ abandoned' = abandoned \cup marked
    /\ marked' = {}
    /\ UNCHANGED <<logVars, serverVars, batch, results, conflicts, mirror, history, cursor>>

RegisterNext ==
    \/ \E c \in Commands :
         \/ ReadSeq(c) \/ Show(c) \/ TurnDown(c) \/ Store(c) \/ StoreThrows(c)
         \/ Handle(c) \/ AckSynced(c) \/ AckRejected(c)
         \/ RecordConflict(c) \/ DropMarked(c)
    \/ \E o \in Others : Insert(o)
    \/ \E m \in inserted : CommitOther(m)
    \/ StartSync \/ PushAnswered \/ PushDone \/ PullPage \/ SyncFails

\* The register syncs again and again; of pushes repeated for ever one is
\* answered in full, and its answers are marked.
RegisterFairness ==
    /\ WF_registerVars(StartSync)
    /\ SF_registerVars(PushAnswered /\ Unhandled = {})
    /\ \A c \in Commands : SF_registerVars(Handle(c))
    /\ \A c \in Commands : SF_registerVars(AckSynced(c) \/ AckRejected(c))
    /\ WF_registerVars(SyncFails \/ \E c \in Commands : RecordConflict(c) \/ DropMarked(c))
    /\ WF_registerVars(SyncFails \/ PushDone)
    /\ WF_registerVars(SyncFails \/ PullPage)

RegisterSpec == RegisterInit /\ [][RegisterNext]_registerVars /\ RegisterFairness

-----------------------------------------------------------------------------
(* Properties                                                              *)

\* Nothing is in two places of the overlay or twice in the ledger, no two
\* movements have one number, and nothing is pulled that is not committed.
RegisterTypeOK ==
    /\ commandStatus \in [Commands -> CommandStatus]
    /\ shown \in Seq(Commands) /\ IsInjective(shown)
    /\ nextSeq \in Nat
    /\ \A m \in ledger \cup inserted : m.seq \in Nat /\ m.seq < nextSeq
    /\ \A m, n \in ledger \cup inserted : m.id = n.id \/ m.seq = n.seq => m = n
    /\ history \subseteq ledger
    /\ phase \in {"idle", "push", "ack", "record", "drop", "pull"}
    /\ batch \subseteq Commands
    /\ results \in [Commands -> PushStatus]

\* The mirror has the phone in a state that it knows, and the stock of the
\* server is not oversold.
LevelsOK ==
    /\ appending \in [Commands -> Nat] /\ seqOf \in [Commands -> Nat]
    /\ mirror.phone \in {"in_stock", "sold", "returned_pending"}
    /\ Server.onHand \in Nat

\* While a command waits for the server the mirror shows it, so its goods are
\* not sold a second time; what the mirror shows is waiting, being stored, just
\* marked and about to be dropped, or is left over from a call that threw: of
\* the store, or of a sync between the mark and the drop.  (CommandLog.append,
\* LocalInventoryMirror, SyncEngine.push.)
OverlayIsPending ==
    /\ Pending \subseteq ToSet(shown)
    /\ \A c \in ToSet(shown) :
         \/ commandStatus[c] = "pending" \/ appending[c] > 0 \/ c \in lost
         \/ commandStatus[c] \in {"synced", "rejected"} /\ c \in marked \cup abandoned

\* A command that was stored is applied by the server once, or is refused;
\* which of the two never changes, and the manager is shown only what was
\* refused.
FateOf(c) ==
    IF Known(c) THEN "applied"
    ELSE CASE commandStatus[c] = "rejected" -> "refused"
           [] commandStatus[c] = "pending" -> "queued"
           [] OTHER -> "none"

fate == [c \in Commands |-> FateOf(c)]
Promise == INSTANCE CommandContract WITH fate <- fate, told <- conflicts
KeepsCommandContract == Promise!Spec

\* What SyncEngine says of a rejection (syncEngine.ts:12): it is never dropped,
\* it is marked and recorded, so a refused command is with the manager unless
\* the sync is just between the two.  The code does not keep it.
RefusedAreTold ==
    \A c \in Commands : commandStatus[c] = "rejected" => c \in conflicts \cup marked

\* A command does not wait for ever, however often pushes fail or answers are
\* lost.
PendingSettles == \A c \in Commands : commandStatus[c] = "pending" ~> commandStatus[c] # "pending"

\* ADR-002: the sequence number of the ledger is the sync cursor, so what lies
\* below the cursor has been pulled.
CursorMissesNothing == \A m \in ledger : m.seq <= cursor => m \in history
=============================================================================
