----------------------------- MODULE AuditTrail -----------------------------
(***************************************************************************)
(* The audit trail of one tenant (audit/auditService.ts): rows chained by  *)
(* hash, appended under an advisory lock that lasts until the transaction  *)
(* ends.  Most actions write their entry in their own transaction; a few   *)
(* routes commit the action first and record it afterwards.                *)
(*                                                                         *)
(* A hash is modelled by what went into it: the sequence of the entries    *)
(* hashed so far, <<>> for the missing hash before the first row.  An      *)
(* entry stands for the columns that canonical() puts together; ip and     *)
(* occurred_at are not among them, and no edit of theirs is ever noticed.  *)
(***************************************************************************)
EXTENDS Naturals, FiniteSets, Sequences

CONSTANTS
    Actions,     \* audited actions that are attempted
    Afterwards,  \* those that are recorded after their own commit
    Content      \* [Actions -> what the entry says]; two entries may agree

ASSUME TrailAssumption == Afterwards \subseteq Actions

VARIABLES
    audit_log,   \* committed rows: [id, entry, prev, hash]
    nextId,      \* the identity column
    writing,     \* writing[a]: stage of the transaction that records a
    prevHash,    \* prevHash[a]: hash of the last row it has read
    row,         \* row[a]: its inserted, uncommitted row
    applied      \* actions whose own effect is committed

trailVars == <<audit_log, nextId, writing, prevHash, row, applied>>

NoRow == [id |-> 0, entry |-> "none", prev |-> <<>>, hash |-> <<>>]

TrailInit ==
    /\ audit_log = {} /\ nextId = 1
    /\ writing = [a \in Actions |-> "idle"]
    /\ prevHash = [a \in Actions |-> <<>>]
    /\ row = [a \in Actions |-> NoRow]
    /\ applied = {}

-----------------------------------------------------------------------------
(* Recording                                                               *)

\* updateCodPolicy, device class: the action, in a transaction of its own.
Apply(a) ==
    /\ a \in Afterwards \ applied
    /\ applied' = applied \cup {a}
    /\ UNCHANGED <<audit_log, nextId, writing, prevHash, row>>

\* A mistake to compare with: nobody waits for the lock.
NeverHeld == TRUE

LockFree == \A b \in Actions : writing[b] \notin {"locked", "read", "inserted"}

\* recordWith, in the transaction of the action or in one after it.
TakeLock(a) ==
    /\ writing[a] = "idle"
    /\ a \in Afterwards => a \in applied
    /\ LockFree
    /\ writing' = [writing EXCEPT ![a] = "locked"]
    /\ UNCHANGED <<audit_log, nextId, prevHash, row, applied>>

\* The hash of the last of these rows, none if there is no row.
Latest(rows) == CHOOSE r \in rows : \A s \in rows : s.id <= r.id
HashOf(rows) == IF rows = {} THEN <<>> ELSE Latest(rows).hash

LastHash == HashOf(audit_log)

ReadLast(a) ==
    /\ writing[a] = "locked"
    /\ writing' = [writing EXCEPT ![a] = "read"]
    /\ prevHash' = [prevHash EXCEPT ![a] = LastHash]
    /\ UNCHANGED <<audit_log, nextId, row, applied>>

InsertRow(a) ==
    /\ writing[a] = "read"
    /\ writing' = [writing EXCEPT ![a] = "inserted"]
    /\ row' = [row EXCEPT ![a] = [id |-> nextId, entry |-> Content[a], prev |-> prevHash[a],
                                  hash |-> Append(prevHash[a], Content[a])]]
    /\ nextId' = nextId + 1
    /\ UNCHANGED <<audit_log, prevHash, applied>>

\* The lock goes with the transaction.
CommitRow(a) ==
    /\ writing[a] = "inserted"
    /\ writing' = [writing EXCEPT ![a] = "recorded"]
    /\ audit_log' = audit_log \cup {row[a]}
    /\ applied' = applied \cup {a}
    /\ UNCHANGED <<nextId, prevHash, row>>

\* Anything of the transaction throws, or its connection is lost: the number
\* stays used.  Nobody records the action again.
RollBackRow(a) ==
    /\ writing[a] \in {"locked", "read", "inserted"}
    /\ writing' = [writing EXCEPT ![a] = "failed"]
    /\ UNCHANGED <<audit_log, nextId, prevHash, row, applied>>

TrailNext ==
    \E a \in Actions :
        Apply(a) \/ TakeLock(a) \/ ReadLast(a) \/ InsertRow(a) \/ CommitRow(a) \/ RollBackRow(a)

TrailSpec == TrailInit /\ [][TrailNext]_trailVars

-----------------------------------------------------------------------------
(* Verification                                                            *)

\* The hash the row before left behind, none before the first.
Before(table, r) == HashOf({s \in table : s.id < r.id})

verifyChain(table) ==
    \A r \in table :
        /\ r.hash = Append(Before(table, r), r.entry)
        /\ r.prev = Before(table, r)

-----------------------------------------------------------------------------
(* Properties                                                              *)

\* The trail verifies after any interleaving of writers, and no longer does
\* once an entry was changed, two rows changed places, or a row other than the
\* last was taken out.  An action that shares a transaction with its entry
\* happened exactly if it is recorded; one that is recorded afterwards may be
\* missing only if that recording failed or is still to come.
\* (auditService.ts:61-95, "atomic with the action itself".)
TrailTells ==
    LET others(r) == audit_log \ {r}
        entries == {Content[a] : a \in Actions}
        recorded == {a \in Actions : writing[a] = "recorded"}
    IN
    /\ verifyChain(audit_log)
    /\ Cardinality(audit_log) = Cardinality(recorded)
    /\ \A r \in audit_log :
         /\ \A e \in entries \ {r.entry} : ~verifyChain(others(r) \cup {[r EXCEPT !.entry = e]})
         /\ (\E s \in audit_log : s.id > r.id) => ~verifyChain(others(r))
         /\ \A s \in others(r) :
              ~verifyChain((others(r) \ {s}) \cup {[r EXCEPT !.id = s.id], [s EXCEPT !.id = r.id]})
    /\ \A a \in Actions : a \in recorded => a \in applied
    /\ \A a \in applied \ recorded : a \in Afterwards
=============================================================================
