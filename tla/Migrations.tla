----------------------------- MODULE Migrations -----------------------------
(***************************************************************************)
(* Migrations of the database (migrate.ts, verify.ts): every process that  *)
(* boots applies the files of its release, in order, one transaction each, *)
(* behind an advisory lock; processes of several releases boot at once,    *)
(* die halfway and boot again.  A file is known by its name: two releases  *)
(* may have given one number to files of different names.                  *)
(***************************************************************************)
EXTENDS Integers, FiniteSets, SequencesExt

CONSTANTS
    Processes,
    Files,      \* names of files, numbered as they are sorted
    Number,     \* [Files -> the digits a name starts with]
    Contents,   \* what a file may say
    Broken      \* <<file, content>> the database refuses

ASSUME FilesAssumption ==
    /\ Files \subseteq Nat
    /\ Number \in [Files -> Nat]
    /\ \A f, g \in Files : f <= g => Number[f] <= Number[g]

VARIABLES
    release,    \* [Processes -> its files and their contents]
    rowsOf,     \* schema_migrations: files that were applied -> content
    ran,        \* history: the files whose statements took effect, in order
    lockedBy,   \* processes that have the advisory lock
    boot,       \* [Processes -> "off", "migrating", "up", or why it failed]
    readRows    \* [Processes -> rows it read, and those it added]

migrationVars == <<release, rowsOf, ran, lockedBy, boot, readRows>>

Least(files) == CHOOSE f \in files : \A g \in files : f <= g

Numbers(files) == {Number[f] : f \in files}

\* Mutant: gaps are not looked for.
FirstOnly(files) == files # {} => Least(Numbers(files)) = 1

\* verifyMigrationFiles: numbered from 1, without gaps, no number twice.
verifyMigrationFiles(files) ==
    /\ files # {} => Least(Numbers(files)) = 1
    /\ \A n \in Numbers(files) : n = Least(Numbers(files)) \/ n - 1 \in Numbers(files)
    /\ \A f, g \in files : Number[f] = Number[g] => f = g

Releases ==
    UNION {[files -> Contents] : files \in {s \in SUBSET Files : verifyMigrationFiles(s)}}
NoRows == [f \in {} |-> ""]

MigrationsInit ==
    /\ release \in [Processes -> Releases]
    /\ rowsOf = NoRows
    /\ ran = <<>>
    /\ lockedBy = {}
    /\ boot = [p \in Processes |-> "off"]
    /\ readRows = [p \in Processes |-> NoRows]

\* Mutant: runners are not serialized.
Unlocked == TRUE

\* pg_advisory_lock waits until nobody has it.
LockOpen == lockedBy = {}

\* The rows are read once, under the lock.
Begin(p) ==
    /\ boot[p] = "off"
    /\ LockOpen
    /\ lockedBy' = lockedBy \cup {p}
    /\ readRows' = [readRows EXCEPT ![p] = rowsOf]
    /\ boot' = [boot EXCEPT ![p] = "migrating"]
    /\ UNCHANGED <<release, rowsOf, ran>>

\* Files that are not settled yet: not applied, or applied with other contents.
Unsettled(p) ==
    {f \in DOMAIN release[p] : f \notin DOMAIN readRows[p] \/ readRows[p][f] # release[p][f]}
Turn(p, f) == boot[p] = "migrating" /\ f \in Unsettled(p) /\ f = Least(Unsettled(p))

\* finally: the lock is given back, and the API is started or exits.
Ended(p, how) ==
    /\ boot' = [boot EXCEPT ![p] = how]
    /\ lockedBy' = lockedBy \ {p}
    /\ readRows' = [readRows EXCEPT ![p] = NoRows]

\* Statements and row are committed together.
ApplyFile(p, f) ==
    /\ Turn(p, f)
    /\ f \notin DOMAIN readRows[p] \cup DOMAIN rowsOf
    /\ <<f, release[p][f]>> \notin Broken
    /\ LET with(r) == [g \in DOMAIN r \cup {f} |-> IF g = f THEN release[p][f] ELSE r[g]]
       IN  rowsOf' = with(rowsOf) /\ readRows' = [readRows EXCEPT ![p] = with(@)]
    /\ ran' = Append(ran, f)
    /\ UNCHANGED <<release, lockedBy, boot>>

\* The transaction is rolled back: the statements fail, or the row is there.
FileFails(p, f) ==
    /\ Turn(p, f)
    /\ f \notin DOMAIN readRows[p]
    /\ \/ <<f, release[p][f]>> \in Broken /\ Ended(p, "broken")
       \/ f \in DOMAIN rowsOf /\ Ended(p, "duplicate")
    /\ UNCHANGED <<release, rowsOf, ran>>

Mismatch(p, f) ==
    /\ Turn(p, f)
    /\ f \in DOMAIN readRows[p]
    /\ Ended(p, "mismatch")
    /\ UNCHANGED <<release, rowsOf, ran>>

Listen(p) ==
    /\ boot[p] = "migrating" /\ Unsettled(p) = {}
    /\ Ended(p, "up")
    /\ UNCHANGED <<release, rowsOf, ran>>

\* The process dies, with its connection and its lock, or is booted again.
Restarted(p) ==
    /\ boot[p] # "off"
    /\ Ended(p, "off")
    /\ UNCHANGED <<release, rowsOf, ran>>

MigrationsNext ==
    \E p \in Processes :
        \/ Begin(p) \/ Listen(p) \/ Restarted(p)
        \/ \E f \in Files : ApplyFile(p, f) \/ FileFails(p, f) \/ Mismatch(p, f)

MigrationsSpec == MigrationsInit /\ [][MigrationsNext]_migrationVars

-----------------------------------------------------------------------------
(* Properties                                                              *)

\* verifyMigrationsApplied, of the release of p.
Behind(p) == DOMAIN release[p] \ DOMAIN rowsOf
ChecksumMismatches(p) == {f \in DOMAIN release[p] \ Behind(p) : rowsOf[f] # release[p][f]}

\* Whatever boots beside whatever, and wherever it dies: a file takes effect
\* once, after one that sorts behind it only where another release had used its
\* number, the rows say what took effect, a process that is up finds its own
\* files applied as it has them, and one that is not up failed on its own files
\* and not on another runner.
MigrationsSound ==
    /\ ToSet(ran) = DOMAIN rowsOf
    /\ \A i, j \in DOMAIN ran : i < j =>
         /\ ran[i] # ran[j]
         /\ ran[i] > ran[j] => \E k \in 1 .. j - 1 : Number[ran[k]] = Number[ran[j]]
    /\ \A p \in Processes :
         /\ boot[p] = "up" => Behind(p) = {} /\ ChecksumMismatches(p) = {}
         /\ boot[p] # "duplicate"
         /\ boot[p] = "mismatch" => ChecksumMismatches(p) # {}
=============================================================================
