---------------------------- MODULE ErrorReports ----------------------------
(***************************************************************************)
(* Reports of failures from the API process to the error monitor           *)
(* (errorReporter.ts) and the two process listeners of main.ts: a report   *)
(* is sent beside the work it is about, and a process that must end waits  *)
(* for the reports of that moment, but not for long.                       *)
(***************************************************************************)
EXTENDS Naturals

CONSTANTS
    Incidents,     \* what goes wrong, each once
    Unprintable   \* those that are no Error and cannot be serialized

ASSUME UnprintableAssumption == Unprintable \subseteq Incidents

VARIABLES
    reporter,   \* "sentry", or "noop" without a usable DSN
    process,    \* "up", or why it ended
    happened,   \* failures so far
    inFlight,   \* reports that are being delivered
    arrived,    \* reports the monitor has
    givenUp,    \* deliveries that failed or were aborted
    thrown,     \* failures whose report could not be written
    flushes,    \* flushes under way: the reports each waits for
    lost        \* reports that ended with the process

reportVars == <<reporter, process, happened, inFlight, arrived, givenUp, thrown,
                flushes, lost>>

\* reporterFromEnv: no DSN, or one that does not parse, switches reporting off.
reporterFromEnv(dsn) == IF dsn = "valid" THEN "sentry" ELSE "noop"

ReportsInit ==
    /\ \E dsn \in {"absent", "malformed", "valid"} : reporter = reporterFromEnv(dsn)
    /\ process = "up"
    /\ happened = {} /\ thrown = {} /\ flushes = {}
    /\ inFlight = {} /\ arrived = {} /\ givenUp = {} /\ lost = {}

\* A flush that waits for nothing ends the process before anything else fails.
New(f) ==
    /\ process = "up" /\ {} \notin flushes
    /\ f \notin happened
    /\ happened' = happened \cup {f}

\* JSON.stringify throws, and captureException does not catch it.
Throws(f) == reporter = "sentry" /\ f \in Unprintable

\* captureException: the delivery is started and not awaited.
Captured(f) == IF reporter = "sentry" THEN inFlight \cup {f} ELSE inFlight

\* A route fails unexpectedly: the client gets its 500 even if the report of
\* the failure fails, and nobody else learns of it.
RouteFails(f) ==
    /\ New(f)
    /\ IF Throws(f)
       THEN thrown' = thrown \cup {f} /\ inFlight' = inFlight
       ELSE inFlight' = Captured(f) /\ thrown' = thrown
    /\ UNCHANGED <<reporter, process, arrived, givenUp, flushes, lost>>

\* An unhandled rejection is reported and the process goes on.
Rejection(f) ==
    /\ New(f)
    /\ ~Throws(f)
    /\ inFlight' = Captured(f)
    /\ UNCHANGED <<reporter, process, arrived, givenUp, thrown, flushes, lost>>

\* Mutant: the flush is begun before the crash is captured.
AwaitedBefore(f) == inFlight

\* flush waits for what is in flight when it is called, the crash included.
Awaited(f) == Captured(f)

\* uncaughtException: capture, flush, exit.
CaptureAndFlush(f) ==
    /\ New(f)
    /\ inFlight' = Captured(f)
    /\ flushes' = flushes \cup {Awaited(f)}
    /\ UNCHANGED <<reporter, process, arrived, givenUp, thrown, lost>>

Crash(f) == ~Throws(f) /\ CaptureAndFlush(f)

\* A rejection whose report throws is an uncaught TypeError, which is reported
\* in its place and ends the process.
RejectionThrows(f) == Throws(f) /\ CaptureAndFlush(f)

Ends(why) ==
    /\ process = "up"
    /\ process' = why
    /\ lost' = lost \cup inFlight
    /\ inFlight' = {}

\* A listener of uncaughtException that throws ends the process at once.
CrashThrows(f) ==
    /\ New(f)
    /\ Throws(f)
    /\ Ends("aborted")
    /\ thrown' = thrown \cup {f}
    /\ UNCHANGED <<reporter, arrived, givenUp, flushes>>

\* The monitor takes the report; or cannot be reached, or not within three
\* seconds.  Either way the report is no longer in flight.
Delivered(f) ==
    /\ inFlight' = inFlight \ {f}
    /\ arrived' = arrived \cup {f}
    /\ UNCHANGED <<reporter, process, happened, givenUp, thrown, flushes, lost>>

DeliveryFails(f) ==
    /\ inFlight' = inFlight \ {f}
    /\ givenUp' = givenUp \cup {f}
    /\ UNCHANGED <<reporter, process, happened, arrived, thrown, flushes, lost>>

\* The first flush that ends, ends the process.
FlushDone(reports) ==
    /\ reports \cap inFlight = {}
    /\ Ends("flushed")
    /\ UNCHANGED <<reporter, happened, arrived, givenUp, thrown, flushes>>

\* Two seconds are less than a delivery may take.
FlushTimesOut ==
    /\ flushes # {}
    /\ Ends("timeout")
    /\ UNCHANGED <<reporter, happened, arrived, givenUp, thrown, flushes>>

\* SIGTERM: main.ts has no listener, the hook that would flush never runs.
Terminated ==
    /\ Ends("terminated")
    /\ UNCHANGED <<reporter, happened, arrived, givenUp, thrown, flushes>>

ReportsNext ==
    \/ \E f \in Incidents :
         \/ RouteFails(f) \/ Rejection(f) \/ Crash(f) \/ RejectionThrows(f) \/ CrashThrows(f)
    \/ \E f \in inFlight : Delivered(f) \/ DeliveryFails(f)
    \/ \E reports \in flushes : FlushDone(reports)
    \/ FlushTimesOut \/ Terminated

ReportsSpec == ReportsInit /\ [][ReportsNext]_reportVars

-----------------------------------------------------------------------------
(* Properties                                                              *)

\* With a usable DSN every failure is accounted for, once; and a process that
\* crashed and waited for its reports in time lost none of those it had when it
\* crashed, that of the crash least of all: only what failed during the wait.
ReportsAccounted ==
    LET ends == <<inFlight, arrived, givenUp, thrown, lost>>
    IN  /\ reporter = "sentry" => happened = UNION {ends[i] : i \in 1 .. 5}
        /\ \A i, j \in 1 .. 5 : i # j => ends[i] \cap ends[j] = {}
        /\ reporter = "noop" => \A i \in 1 .. 5 : ends[i] = {}
        /\ thrown \subseteq Unprintable
        /\ process = "up" => lost = {}
        /\ process = "flushed" /\ reporter = "sentry" =>
             \E reports \in flushes : reports # {} /\ reports \cap lost = {}
=============================================================================
