---------------------------- MODULE OrderImport ----------------------------
(***************************************************************************)
(* Orders of a marketplace become orders here.  A connector pulls a page   *)
(* and moves its cursor; the importer then takes the orders one by one,    *)
(* each in a transaction: reserve stock and record the order, or nothing.  *)
(* The acknowledgement follows the commit.  The cursor lives in the memory *)
(* of the process.                                                         *)
(*                                                                         *)
(* The stock is that of ChannelFeed, whose other movements go on; an order *)
(* has lines of the one variant.                                           *)
(***************************************************************************)
EXTENDS ChannelFeed, Sums

CONSTANTS
    OrderLines,   \* OrderLines[n]: quantities of the lines of the n-th order
    Importers,    \* imports that may run at the same time
    PageSize      \* orders in a page

ASSUME ImportAssumption ==
    /\ OrderLines \in Seq(Seq(Nat \ {0})) /\ \A n \in DOMAIN OrderLines : OrderLines[n] # <<>>
    /\ PageSize \in Nat \ {0}

Placed == DOMAIN OrderLines    \* the orders of the marketplace, oldest first

VARIABLES
    cursor,      \* connector state: number of the last order pulled
    todo,        \* todo[i]: orders pulled and not yet looked at
    checked,     \* checked[i]: the head of todo has passed its checks
    committed,   \* committed[i]: order just imported, to be acknowledged
    recorded,    \* recorded[n]: sales orders for the n-th order
    failed,      \* orders whose import failed in the running process
    acked,       \* orders acknowledged to the marketplace
    reserved     \* stock in the reserved bucket for them

importVars == <<cursor, todo, checked, committed, recorded, failed, acked, reserved>>
unchangedFeed == <<events, lastSeq, relayVars, queueVars, slotVars>>

Needed(n) == SumOf(OrderLines[n], DOMAIN OrderLines[n])

ImportInit ==
    /\ FeedInit
    /\ cursor = 0
    /\ todo = [i \in Importers |-> <<>>]
    /\ checked = [i \in Importers |-> FALSE]
    /\ committed = [i \in Importers |-> 0]
    /\ recorded = [n \in Placed |-> 0]
    /\ failed = {} /\ acked = {} /\ reserved = 0

Between(i) == todo[i] = <<>> /\ committed[i] = 0

\* The connector asks for what lies after the cursor and moves it to the end
\* of the page, if the answer names a next one.
PullOrders(i) ==
    LET orders == Len(OrderLines)
        last == IF cursor + PageSize < orders THEN cursor + PageSize ELSE orders
    IN
    /\ Between(i) /\ cursor < last
    /\ todo' = [todo EXCEPT ![i] = [k \in 1 .. (last - cursor) |-> cursor + k]]
    /\ cursor' \in {cursor, last}
    /\ UNCHANGED <<feedVars, checked, committed, recorded, failed, acked, reserved>>

NextOrder(i) ==
    /\ todo' = [todo EXCEPT ![i] = Tail(@)]
    /\ checked' = [checked EXCEPT ![i] = FALSE]

\* Each line is compared with the level on its own.
Covers(n) == \A l \in DOMAIN OrderLines[n] : OrderLines[n][l] <= stockLevel

\* The order is not recorded yet and a location covers it.
Check(i) ==
    /\ todo[i] # <<>> /\ committed[i] = 0 /\ ~checked[i]
    /\ recorded[Head(todo[i])] = 0
    /\ Covers(Head(todo[i]))
    /\ checked' = [checked EXCEPT ![i] = TRUE]
    /\ UNCHANGED <<feedVars, cursor, todo, committed, recorded, failed, acked, reserved>>

\* Recorded before, by this import's check or by the unique key at the insert.
Duplicate(i) ==
    /\ todo[i] # <<>> /\ committed[i] = 0
    /\ recorded[Head(todo[i])] > 0
    /\ NextOrder(i)
    /\ UNCHANGED <<feedVars, cursor, committed, recorded, failed, acked, reserved>>

\* Mutant: the unique key does not tell orders of the marketplace apart.
Unguarded(n) == TRUE

Unique(n) == recorded[n] = 0

\* The transaction commits: the lines are debited one after the other and
\* together they are covered.  No event is written for the level.
Import(i) ==
    LET n == Head(todo[i])
    IN
    /\ todo[i] # <<>> /\ checked[i]
    /\ Unique(n) /\ Needed(n) <= stockLevel
    /\ stockLevel' = stockLevel - Needed(n)
    /\ reserved' = reserved + Needed(n)
    /\ recorded' = [recorded EXCEPT ![n] = @ + 1]
    /\ committed' = [committed EXCEPT ![i] = n]
    /\ failed' = failed \ {n}
    /\ NextOrder(i)
    /\ UNCHANGED <<unchangedFeed, cursor, acked>>

\* No location covers a line, or the debits together take too much, or the
\* order is one the importer cannot read: rolled back, and reported once.
Fail(i) ==
    /\ todo[i] # <<>> /\ committed[i] = 0
    /\ Unique(Head(todo[i]))
    /\ failed' = failed \cup {Head(todo[i])}
    /\ NextOrder(i)
    /\ UNCHANGED <<feedVars, cursor, committed, recorded, acked, reserved>>

\* After the commit; a failed acknowledgement is a warning, and a duplicate is
\* never acknowledged again.
Acknowledge(i) ==
    /\ committed[i] > 0
    /\ acked' \in {acked, acked \cup {committed[i]}}
    /\ committed' = [committed EXCEPT ![i] = 0]
    /\ UNCHANGED <<feedVars, cursor, todo, checked, recorded, failed, reserved>>

\* Mutant: the cursor survives the process.
CursorKept == cursor

CursorAfterRestart == 0

\* The process dies and with it its imports, its summaries and the cursor.
Restart ==
    /\ cursor > 0
    /\ cursor' = CursorAfterRestart
    /\ todo' = [i \in Importers |-> <<>>]
    /\ checked' = [i \in Importers |-> FALSE]
    /\ committed' = [i \in Importers |-> 0]
    /\ failed' = {}
    /\ UNCHANGED <<feedVars, recorded, acked, reserved>>

ImportStep ==
    \/ \E i \in Importers :
         PullOrders(i) \/ Check(i) \/ Duplicate(i) \/ Import(i) \/ Fail(i) \/ Acknowledge(i)
    \/ Restart

ImportNext == ImportStep \/ (FeedNext /\ UNCHANGED importVars)

ImportSpec == ImportInit /\ [][ImportNext]_<<feedVars, importVars>>

-----------------------------------------------------------------------------
(* Properties                                                              *)

\* What the recorded orders need.
ReservedFor == [n \in Placed |-> recorded[n] * Needed(n)]

\* An order of the marketplace is one order here, reserved in full or not at
\* all, with two imports of one page and after restarts; only a recorded one is
\* acknowledged.  None is skipped: one below the cursor is recorded, in hand,
\* or reported as failed by the process that runs, although the cursor moves
\* before the orders are imported.  (OrderImportService, orderLineMovementId.)
ImportedOnce ==
    /\ \A n \in Placed : recorded[n] <= 1
    /\ reserved = SumOf(ReservedFor, Placed)
    /\ acked \subseteq {n \in Placed : recorded[n] = 1}
    /\ \A n \in 1..cursor :
         recorded[n] > 0 \/ n \in failed \/ \E i \in Importers : Contains(todo[i], n)

\* Nothing the feed was told of is dropped, and until an import takes stock
\* behind its back the marketplace ends with what is available.
FeedKeepsUp == NothingDropped /\ (reserved = 0 => SettledIsTrue)
=============================================================================
