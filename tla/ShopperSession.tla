--------------------------- MODULE ShopperSession ---------------------------
(***************************************************************************)
(* The shopper's session as the tabs of one browser keep it                *)
(* (customerSession.ts): every tab reads the shared storage once, when it  *)
(* opens, and then trusts its own memory; the account pages ask the server *)
(* with the token they hold and sign out when it is refused.  What the     *)
(* server does when a link is verified is in Accounts.                     *)
(***************************************************************************)
EXTENDS Naturals

CONSTANTS
    Views,      \* tabs
    MaxSignIns  \* bound: sessions the browser obtains

ASSUME SignInBound == MaxSignIns \in Nat

VARIABLES
    obtained,  \* number of sessions obtained, the sessions are 1 .. obtained
    lapsed,    \* sessions the server accepts no more
    saved,     \* session in the storage, 0 for none
    screen,    \* [Views -> page that is shown, or "closed"]
    memory,    \* [Views -> session in the memory of the tab, 0 for none]
    asked,     \* [Views -> requests under way: session, cancelled]
    proving,   \* [Views -> codes that are being verified]
    busy,      \* tabs whose sign-in page waits for one of them
    turnedOut  \* history: <<session that was refused, session dropped for it>>

sessionVars == <<obtained, lapsed, saved, screen, memory, asked, proving, busy, turnedOut>>

Tokens == 1 .. MaxSignIns
Ask(s, cancelled) == [session |-> s, cancelled |-> cancelled]

SessionInit ==
    /\ obtained = 0 /\ saved = 0
    /\ lapsed = {} /\ busy = {} /\ turnedOut = {}
    /\ screen = [v \in Views |-> "closed"]
    /\ memory = [v \in Views |-> 0]
    /\ asked = [v \in Views |-> {}]
    /\ proving = [v \in Views |-> 0]

\* Mutant: what a page asked is still awaited when the page is gone.
StillAwaited(requests) == requests

\* The effect of a page that is left, or whose token changed, is cleaned up.
Cancelled(requests) == {Ask(r.session, TRUE) : r \in requests}

\* A page is shown with a session: an account page asks the server with it, and
\* without one sends the shopper to the sign-in page.
Show(v, to, s) ==
    /\ screen' = [screen EXCEPT ![v] = IF to = "account" /\ s = 0 THEN "signIn" ELSE to]
    /\ asked' = [asked EXCEPT ![v] = Cancelled(@) \cup
                    (IF to = "account" /\ s # 0 THEN {Ask(s, FALSE)} ELSE {})]
    /\ busy' = IF screen[v] = "signIn" /\ screen'[v] = "signIn" THEN busy ELSE busy \ {v}

\* The storage may be full or forbidden; the memory of the tab has the session.
Store(s) == saved' \in {saved, s}

Open(v) ==
    /\ screen[v] = "closed"
    /\ screen' = [screen EXCEPT ![v] = "shop"]
    /\ memory' = [memory EXCEPT ![v] = saved]
    /\ UNCHANGED <<obtained, lapsed, saved, asked, proving, busy, turnedOut>>

\* Closed or reloaded: answers that are under way reach nobody.
Close(v) ==
    /\ screen[v] # "closed"
    /\ screen' = [screen EXCEPT ![v] = "closed"]
    /\ memory' = [memory EXCEPT ![v] = 0]
    /\ asked' = [asked EXCEPT ![v] = {}]
    /\ proving' = [proving EXCEPT ![v] = 0]
    /\ busy' = busy \ {v}
    /\ UNCHANGED <<obtained, lapsed, saved, turnedOut>>

Visit(v, to) ==
    /\ screen[v] # "closed"
    /\ Show(v, to, memory[v])
    /\ UNCHANGED <<obtained, lapsed, saved, memory, proving, turnedOut>>

SubmitCode(v) ==
    /\ screen[v] = "signIn"
    /\ v \notin busy
    /\ obtained + proving[v] < MaxSignIns
    /\ proving' = [proving EXCEPT ![v] = @ + 1]
    /\ busy' = busy \cup {v}
    /\ UNCHANGED <<obtained, lapsed, saved, screen, memory, asked, turnedOut>>

\* The answer signs the tab in and leads to the orders, wherever the shopper
\* has gone meanwhile.
CodeAccepted(v) ==
    /\ proving[v] > 0
    /\ obtained < MaxSignIns
    /\ obtained' = obtained + 1
    /\ memory' = [memory EXCEPT ![v] = obtained + 1]
    /\ Store(obtained + 1)
    /\ Show(v, "account", obtained + 1)
    /\ proving' = [proving EXCEPT ![v] = @ - 1]
    /\ UNCHANGED <<lapsed, turnedOut>>

\* An error is shown by the page that asked, if it is still there.
CodeRejected(v) ==
    /\ proving[v] > 0
    /\ proving' = [proving EXCEPT ![v] = @ - 1]
    /\ \/ busy' = busy \ {v}
       \/ v \in busy /\ proving[v] > 1 /\ busy' = busy
    /\ UNCHANGED <<obtained, lapsed, saved, screen, memory, asked, turnedOut>>

\* CustomerSessionStore.clear: the memory, and whatever the storage holds.
Clear(v) ==
    /\ memory' = [memory EXCEPT ![v] = 0]
    /\ Store(0)

\* The server is not told: the session stays good for whoever still has it.
SignOut(v) ==
    /\ memory[v] # 0
    /\ Clear(v)
    /\ Show(v, screen[v], 0)
    /\ UNCHANGED <<obtained, lapsed, proving, turnedOut>>

Lapse(s) ==
    /\ lapsed' = lapsed \cup {s}
    /\ UNCHANGED <<obtained, saved, screen, memory, asked, proving, busy, turnedOut>>

Received(v, r) == asked' = [asked EXCEPT ![v] = @ \ {r}]

\* resolveSession finds no session of this token (401): the page signs out.
TurnedAway(v, r) ==
    /\ r.session \in lapsed
    /\ ~r.cancelled
    /\ turnedOut' = turnedOut \cup {<<r.session, memory[v]>>}
    /\ Clear(v)
    /\ screen' = [screen EXCEPT ![v] = "signIn"]
    /\ Received(v, r)
    /\ UNCHANGED <<obtained, lapsed, proving, busy>>

\* The rows, an error that is only shown, or an answer nobody awaits any more.
Heard(v, r) ==
    /\ Received(v, r)
    /\ UNCHANGED <<obtained, lapsed, saved, screen, memory, proving, busy, turnedOut>>

SessionNext ==
    \/ \E s \in 1 .. obtained : Lapse(s)
    \/ \E v \in Views :
         \/ Open(v) \/ Close(v) \/ SubmitCode(v) \/ CodeAccepted(v) \/ CodeRejected(v)
         \/ SignOut(v)
         \/ \E to \in {"shop", "signIn", "account"} : Visit(v, to)
         \/ \E r \in asked[v] : TurnedAway(v, r) \/ Heard(v, r)

SessionSpec == SessionInit /\ [][SessionNext]_sessionVars

-----------------------------------------------------------------------------
(* Properties                                                              *)

SessionTypeOK ==
    /\ obtained \in 0 .. MaxSignIns
    /\ saved \in 0 .. obtained
    /\ lapsed \subseteq Tokens /\ busy \subseteq Views
    /\ proving \in [Views -> 0 .. MaxSignIns]
    /\ screen \in [Views -> {"closed", "shop", "signIn", "account"}]
    /\ memory \in [Views -> 0 .. obtained]
    /\ asked \in [Views -> SUBSET [session : Tokens, cancelled : BOOLEAN]]

\* A late refusal of an old session never drops a newer one: what a tab drops
\* is the session the server refused.  And a page waits for the answer to one
\* request at most, made with the session the tab holds, so that it shows the
\* orders of nobody else (AccountOrders.tsx, AccountDevices.tsx).
SessionsOwn ==
    /\ \A pair \in turnedOut : pair[1] = pair[2]
    /\ \A v \in Views :
         LET awaited == {r \in asked[v] : ~r.cancelled}
         IN  /\ \A r \in awaited : screen[v] = "account" /\ r.session = memory[v]
             /\ screen[v] = "account" => memory[v] # 0
=============================================================================
