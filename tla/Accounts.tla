------------------------------ MODULE Accounts ------------------------------
(***************************************************************************)
(* Who is signed in: the registration of a shop, the sessions of its staff *)
(* and the second factor (auth/service.ts), and the sign-in links of       *)
(* shoppers (customer/customerAuthService.ts), with everything else that   *)
(* makes customers: orders that come with an address, and the clerk.       *)
(*                                                                         *)
(* A registration is three transactions; every other operation is one, and *)
(* is split where it reads what another one may change before it writes.   *)
(* Passwords, hashes and token texts are left out, and so is the expiry of *)
(* sessions, which only takes sessions away.                               *)
(***************************************************************************)
EXTENDS Naturals, Sequences

CONSTANTS
    Links,        \* rows of customer_magic_link
    LinkEmail,    \* [Links -> addresses]
    Shoppers,     \* requests that verify links or bring an order
    Devices,      \* requests that refresh staff sessions
    MaxSessions,  \* bound: staff sessions
    MaxSecrets,   \* bound: enrolments of the second factor
    MaxCustomers  \* bound: customers of one address, with those clerks enter

ASSUME BoundsAssumption ==
    MaxSessions \in Nat /\ MaxSecrets \in Nat /\ MaxCustomers \in Nat

VARIABLES
    tenant,       \* "none", "row", "owner" (parts of a registration) or "complete"
    sessions,     \* user_session: rows [revoked, rotated_from], 0 for none
    refreshing,   \* [Devices -> session that was read and is not yet rotated]
    mfa,          \* secret stored (0: none), enabled, secrets proven by a code
    activating,   \* secret an activation has read and verified, 0 for none
    reenrolled,   \* history: the stored secret was enrolled during an activation
    link,         \* [Links -> state of the row]
    verifying,    \* [Shoppers -> step, address and whether a customer was found]
    customers,    \* [addresses -> number of customer rows]
    minted,       \* [Links -> sessions a link was exchanged for]
    overlapped    \* history: addresses that two looked for at once

accountVars == <<tenant, sessions, refreshing, mfa, activating, reenrolled, link,
                 verifying, customers, minted, overlapped>>
staffVars == <<tenant, sessions, refreshing, mfa, activating, reenrolled>>
shopperVars == <<link, verifying, customers, minted, overlapped>>

Emails == {LinkEmail[l] : l \in Links}
Idle == [step |-> "idle"]

AccountInit ==
    /\ tenant = "none"
    /\ sessions = <<>>
    /\ refreshing = [d \in Devices |-> 0]
    /\ mfa = [secret |-> 0, enabled |-> FALSE, proven |-> {}]
    /\ activating = 0
    /\ reenrolled = FALSE
    /\ link = [l \in Links |-> "none"]
    /\ verifying = [s \in Shoppers |-> Idle]
    /\ customers = [e \in Emails |-> 0]
    /\ minted = [l \in Links |-> 0]
    /\ overlapped = {}
-----------------------------------------------------------------------------
(* Staff *)

Issue(from) == Append(sessions, [revoked |-> FALSE, rotated_from |-> from])

\* registerTenant: the row of the shop is committed first.  If the process
\* dies or the second transaction fails, the name stays taken.
RegisterRow ==
    /\ tenant = "none"
    /\ tenant' = "row"
    /\ UNCHANGED <<sessions, refreshing, mfa, activating, reenrolled, shopperVars>>

\* Owner, roles, channels and the system user.
RegisterOwner ==
    /\ tenant = "row"
    /\ tenant' = "owner"
    /\ UNCHANGED <<sessions, refreshing, mfa, activating, reenrolled, shopperVars>>

\* The owner's first session.  If it is not issued, the owner can still log in.
IssueFirst ==
    /\ tenant = "owner"
    /\ Len(sessions) < MaxSessions
    /\ tenant' = "complete"
    /\ sessions' = Issue(0)
    /\ UNCHANGED <<refreshing, mfa, activating, reenrolled, shopperVars>>

HasOwner == tenant \in {"owner", "complete"}

\* login: password and, if it is enabled, a code of the stored secret, which
\* whoever enrolled it can give.
Login ==
    /\ HasOwner
    /\ Len(sessions) < MaxSessions
    /\ sessions' = Issue(0)
    /\ UNCHANGED <<tenant, refreshing, mfa, activating, reenrolled, shopperVars>>

\* refreshForTenant reads a session that is not revoked ...
ReadSession(d, i) ==
    /\ refreshing[d] = 0
    /\ ~sessions[i].revoked
    /\ refreshing' = [refreshing EXCEPT ![d] = i]
    /\ UNCHANGED <<tenant, sessions, mfa, activating, reenrolled, shopperVars>>

\* A mistake to compare with: the session that is rotated stays valid.
Kept(i) == sessions

Revoked(i) == [sessions EXCEPT ![i].revoked = TRUE]

\* ... and revokes it whatever it is by then: two may rotate the same one.
Rotate(d) ==
    /\ refreshing[d] # 0
    /\ Len(sessions) < MaxSessions
    /\ sessions' = Append(Revoked(refreshing[d]),
                          [revoked |-> FALSE, rotated_from |-> refreshing[d]])
    /\ refreshing' = [refreshing EXCEPT ![d] = 0]
    /\ UNCHANGED <<tenant, mfa, activating, reenrolled, shopperVars>>

\* enrollMfa: a new secret, not enabled until it is proven.
Enroll ==
    /\ HasOwner
    /\ mfa.secret < MaxSecrets
    /\ mfa' = [mfa EXCEPT !.secret = @ + 1, !.enabled = FALSE]
    /\ reenrolled' = (activating # 0)
    /\ UNCHANGED <<tenant, sessions, refreshing, activating, shopperVars>>

\* activateMfa reads the secret and checks the code against it ...
ReadSecret ==
    /\ mfa.secret # 0 /\ activating = 0
    /\ activating' = mfa.secret
    /\ UNCHANGED <<tenant, sessions, refreshing, mfa, reenrolled, shopperVars>>

\* ... and enables whatever secret is stored by then.
Activate ==
    /\ activating # 0
    /\ mfa' = [mfa EXCEPT !.enabled = TRUE, !.proven = @ \cup {activating}]
    /\ activating' = 0
    /\ UNCHANGED <<tenant, sessions, refreshing, reenrolled, shopperVars>>
-----------------------------------------------------------------------------
(* Shoppers *)

requestLink(l) ==
    /\ link[l] = "none"
    /\ link' = [link EXCEPT ![l] = "live"]
    /\ UNCHANGED <<verifying, customers, minted, overlapped, staffVars>>

Expire(l) ==
    /\ link[l] = "live"
    /\ link' = [link EXCEPT ![l] = "expired"]
    /\ UNCHANGED <<verifying, customers, minted, overlapped, staffVars>>

\* verifyLink finds a link that is neither consumed nor expired.
ReadLink(s, l) ==
    /\ verifying[s] = Idle
    /\ link[l] = "live"
    /\ verifying' = [verifying EXCEPT ![s] = [step |-> "found", link |-> l]]
    /\ UNCHANGED <<link, customers, minted, overlapped, staffVars>>

\* An update of the row waits for a transaction that has consumed it.
Consuming(l) == {s \in Shoppers : verifying[s].step = "consumed" /\ verifying[s].link = l}

\* A mistake to compare with: the update is not guarded.
Whatever(l) == TRUE

Unconsumed(l) == link[l] # "consumed"

\* Requests that have looked for a customer of the address and not committed.
LookingFor(e) ==
    {s \in Shoppers : verifying[s].step \in {"consumed", "contact"} /\ verifying[s].email = e}

Overlapping(e) == IF LookingFor(e) = {} THEN overlapped ELSE overlapped \cup {e}

\* The guarded update, and the search for a customer of that address.
Consume(s) ==
    /\ verifying[s].step = "found"
    /\ LET l == verifying[s].link
           e == LinkEmail[l]
       IN
          /\ Consuming(l) = {}
          /\ Unconsumed(l)
          /\ verifying' = [verifying EXCEPT ![s] =
                [step |-> "consumed", link |-> l, email |-> e, customer |-> customers[e] > 0]]
          /\ overlapped' = Overlapping(e)
    /\ UNCHANGED <<link, customers, minted, staffVars>>

\* LINK_CONSUMED: somebody else was first.
TooLate(s) ==
    /\ verifying[s].step = "found"
    /\ ~Unconsumed(verifying[s].link)
    /\ verifying' = [verifying EXCEPT ![s] = Idle]
    /\ UNCHANGED <<link, customers, minted, overlapped, staffVars>>

\* Nothing but the search keeps a second customer of the address out.
WithCustomer(v) == IF v.customer THEN customers ELSE [customers EXCEPT ![v.email] = @ + 1]

\* Commit: the link is consumed, the customer exists, a session is issued.
SignIn(s) ==
    /\ verifying[s].step = "consumed"
    /\ LET v == verifying[s] IN
          /\ link' = [link EXCEPT ![v.link] = "consumed"]
          /\ customers' = WithCustomer(v)
          /\ minted' = [minted EXCEPT ![v.link] = @ + 1]
    /\ verifying' = [verifying EXCEPT ![s] = Idle]
    /\ UNCHANGED <<overlapped, staffVars>>

\* An order of the web shop or a marketplace names an address: the customer is
\* searched by it or by the phone, which may be another's ...
FindContact(s, e) ==
    /\ verifying[s] = Idle
    /\ \E found \in {customers[e] > 0, TRUE} :
          verifying' = [verifying EXCEPT ![s] =
                           [step |-> "contact", email |-> e, customer |-> found]]
    /\ overlapped' = Overlapping(e)
    /\ UNCHANGED <<link, customers, minted, staffVars>>

\* ... and entered with the order if there was none.
PlaceOrder(s) ==
    /\ verifying[s].step = "contact"
    /\ customers' = WithCustomer(verifying[s])
    /\ verifying' = [verifying EXCEPT ![s] = Idle]
    /\ UNCHANGED <<link, minted, overlapped, staffVars>>

\* The clerk enters a customer, whoever has the address.
AddCustomer(e) ==
    /\ customers[e] < MaxCustomers
    /\ customers' = [customers EXCEPT ![e] = @ + 1]
    /\ overlapped' = IF customers[e] = 0 THEN Overlapping(e) ELSE overlapped \cup {e}
    /\ UNCHANGED <<link, verifying, minted, staffVars>>

\* The transaction fails: a link may be used again.
SignInFails(s) ==
    /\ verifying[s].step \in {"consumed", "contact"}
    /\ verifying' = [verifying EXCEPT ![s] = Idle]
    /\ UNCHANGED <<link, customers, minted, overlapped, staffVars>>

StaffNext ==
    \/ RegisterRow \/ RegisterOwner \/ IssueFirst \/ Login \/ Enroll \/ ReadSecret \/ Activate
    \/ \E d \in Devices : Rotate(d) \/ \E i \in DOMAIN sessions : ReadSession(d, i)

ShopperNext ==
    \/ \E l \in Links : requestLink(l) \/ Expire(l) \/ \E s \in Shoppers : ReadLink(s, l)
    \/ \E s \in Shoppers :
         \/ Consume(s) \/ TooLate(s) \/ SignIn(s) \/ SignInFails(s) \/ PlaceOrder(s)
         \/ \E e \in Emails : FindContact(s, e)
    \/ \E e \in Emails : AddCustomer(e)

AccountNext == StaffNext \/ ShopperNext

AccountSpec == AccountInit /\ [][AccountNext]_accountVars
-----------------------------------------------------------------------------
(* Properties *)

\* Every session goes back to one act of signing in.  A link is exchanged for
\* one session at most, and is consumed exactly if it was; an address has two
\* customers only if it was looked for by two at once, or a clerk entered one
\* that was there or being looked for; a session that was rotated is not valid
\* any more; and the second factor that login asks for is one the user has
\* proven, unless it was enrolled during an activation.
SessionsTraceable ==
    /\ \A l \in Links : minted[l] = (IF link[l] = "consumed" THEN 1 ELSE 0)
    /\ \A e \in Emails : customers[e] > 1 => e \in overlapped
    /\ \A i \in DOMAIN sessions :
          LET from == sessions[i].rotated_from IN from # 0 => sessions[from].revoked
    /\ mfa.enabled => mfa.secret \in mfa.proven \/ reenrolled

\* The second factor is "not enabled until a code is verified -- losing the phone
\* mid-enrollment must not lock the account" (auth/service.ts:142-143).  It is:
\* an enrolment between the check of the code and the update is enabled unproven.
EnabledIsVerified == mfa.enabled => mfa.secret \in mfa.proven
=============================================================================
