--------------------------- MODULE RegisterSetup ---------------------------
(***************************************************************************)
(* The till's sign-in and setup (App.tsx): session, device, location and   *)
(* VAT rate in the storage of the register and in the memory of its one    *)
(* window, while tenants sign in after one another, the page is reloaded   *)
(* and requests fail.  A rate, a location or a device is named by the      *)
(* tenant it belongs to.                                                   *)
(***************************************************************************)
EXTENDS Naturals, FiniteSets

CONSTANTS
    Tenants,     \* who signs in at this register
    NoTenant,    \* nobody, nothing
    Setups       \* bound: setups that run at once

ASSUME SetupAssumption == NoTenant \notin Tenants

VARIABLES
    localStorage, \* the storage: session, device, place, rate
    signedIn,     \* tenant of the session in memory, the token requests carry
    phase,        \* what is shown: name, and the location it is about
    vatRate,      \* the rate the till charges: a tenant's, or "fallback"
    setupError,   \* whether the last setup failed
    setup         \* [Setups -> what it awaits, and with whose token]

setupVars == <<localStorage, signedIn, phase, vatRate, setupError, setup>>

Screen(name, place) == [name |-> name, place |-> place]
NoSetup == [awaits |-> "nothing", token |-> NoTenant]
Running == {n \in Setups : setup[n] # NoSetup}

\* resolveVatRate: what the storage has, or the statutory rate, flagged.
resolveVatRate(storage) == IF storage.rate = NoTenant THEN "fallback" ELSE storage.rate

FirstRequest(token) ==
    [awaits |-> IF localStorage.device = NoTenant THEN "device" ELSE "locations",
     token |-> token]

\* bootstrap: a register without a device asks for one, then for the locations.
Bootstrap(n, token) ==
    /\ setup[n] = NoSetup
    /\ setup' = [setup EXCEPT ![n] = FirstRequest(token)]
    /\ phase' = Screen("setup", NoTenant)

SetupInit ==
    /\ localStorage = [f \in {"session", "device", "place", "rate"} |-> NoTenant]
    /\ signedIn = NoTenant
    /\ phase = Screen("login", NoTenant)
    /\ vatRate = "fallback"
    /\ setupError = FALSE
    /\ setup = [n \in Setups |-> NoSetup]

\* handleLoggedIn.  The answer may carry no rate (an older server), and the
\* storage may refuse it; without the session in it nobody is signed in.  The
\* effect of App starts the setup unless an older error is still shown.
LoggedIn(t) ==
    /\ signedIn = NoTenant
    /\ signedIn' = t
    /\ \E cached \in BOOLEAN :
         /\ localStorage' = [localStorage EXCEPT !.session = t,
                                                 !.rate = IF cached THEN t ELSE @]
         /\ vatRate' = resolveVatRate(localStorage')
    /\ IF setupError
       THEN phase' = Screen("setup", NoTenant) /\ setup' = setup
       ELSE \E n \in Setups : Bootstrap(n, t)
    /\ UNCHANGED setupError

\* The button is there after a failed setup only.
Retry ==
    /\ signedIn # NoTenant /\ phase.name = "setup" /\ setupError
    /\ setupError' = FALSE
    /\ \E n \in Setups : Bootstrap(n, signedIn)
    /\ UNCHANGED <<localStorage, signedIn, vatRate>>

DeviceRegistered(n) ==
    /\ setup[n].awaits = "device"
    /\ localStorage' = [localStorage EXCEPT !.device = setup[n].token]
    /\ phase' = Screen("setup", NoTenant)
    /\ setup' = [setup EXCEPT ![n] = [awaits |-> "locations", token |-> signedIn]]
    /\ UNCHANGED <<signedIn, vatRate, setupError>>

\* The tenant's locations: the stored one is among them, or is not, or no more.
LocationsListed(n) ==
    /\ setup[n].awaits = "locations"
    /\ \/ localStorage.place = setup[n].token /\ phase' = Screen("sale", localStorage.place)
       \/ phase' = Screen("pick", setup[n].token)
    /\ setup' = [setup EXCEPT ![n] = NoSetup]
    /\ UNCHANGED <<localStorage, signedIn, vatRate, setupError>>

\* A request fails, or the storage refuses the device that was registered.
SetupFails(n) ==
    /\ setup[n] # NoSetup
    /\ setupError' = TRUE
    /\ phase' = Screen("setup", NoTenant)
    /\ setup' = [setup EXCEPT ![n] = NoSetup]
    /\ UNCHANGED <<localStorage, signedIn, vatRate>>

LocationPicked ==
    /\ signedIn # NoTenant /\ phase.name = "pick"
    /\ localStorage' = [localStorage EXCEPT !.place = phase.place]
    /\ phase' = IF localStorage.device = NoTenant THEN phase ELSE Screen("sale", phase.place)
    /\ UNCHANGED <<signedIn, vatRate, setupError, setup>>

\* Mutant: the rate stays in the storage.
ForgottenSession(storage) == [storage EXCEPT !.session = NoTenant]

\* clearSession and clearTenantConfig; device and location stay.
Forgotten(storage) == [storage EXCEPT !.session = NoTenant, !.rate = NoTenant]

\* The button of the sale screen, of the picker, and of a setup that failed.
\* Mutant: the button is there while a setup is under way.
MayAlwaysSignOut == signedIn # NoTenant

MaySignOut ==
    /\ signedIn # NoTenant
    /\ phase.name = "setup" => setupError

Logout ==
    /\ MaySignOut
    /\ localStorage' = Forgotten(localStorage)
    /\ signedIn' = NoTenant
    /\ phase' = Screen("login", NoTenant)
    /\ UNCHANGED <<vatRate, setupError, setup>>

\* The page is loaded again, with whatever the storage holds.
ReloadTill ==
    /\ signedIn' = localStorage.session
    /\ vatRate' = resolveVatRate(localStorage)
    /\ setupError' = FALSE
    /\ phase' = Screen(IF localStorage.session = NoTenant THEN "login" ELSE "setup", NoTenant)
    /\ IF localStorage.session = NoTenant
       THEN setup' = [n \in Setups |-> NoSetup]
       ELSE \E n \in Setups : setup' = [k \in Setups |->
                IF k = n THEN FirstRequest(localStorage.session) ELSE NoSetup]
    /\ UNCHANGED localStorage

SetupNext ==
    \/ \E t \in Tenants : LoggedIn(t)
    \/ Retry \/ LocationPicked \/ Logout \/ ReloadTill
    \/ \E n \in Setups : DeviceRegistered(n) \/ LocationsListed(n) \/ SetupFails(n)

SetupSpec == SetupInit /\ [][SetupNext]_setupVars

-----------------------------------------------------------------------------
(* Properties                                                              *)

\* The till sells at a location of the tenant that is signed in, and charges the
\* rate of that tenant or one that it flags as a guess; so it does after a
\* reload.  A setup works for the tenant that is signed in, alone; and the setup
\* screen always has a setup under way or a way out (App.tsx, tenantConfig.ts).
SetupSound ==
    /\ signedIn # NoTenant =>
         /\ vatRate \in {signedIn, "fallback"}
         /\ phase.name \in {"sale", "pick"} => phase.place = signedIn
         /\ phase.name = "setup" => setupError \/ Running # {}
    /\ localStorage.rate \in {localStorage.session, NoTenant}
    /\ Cardinality(Running) <= 1
    /\ \A n \in Running : setup[n].token = signedIn /\ phase.name = "setup"
=============================================================================
