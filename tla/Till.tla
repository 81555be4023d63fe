-------------------------------- MODULE Till --------------------------------
(***************************************************************************)
(* A register: cash sessions with a blind close, and the booking of its    *)
(* sales (createPosSale) with prices, discounts, phones and the three      *)
(* wallets a customer can pay from.                                        *)
(*                                                                         *)
(* A sale is rung up and paid, and posted to the server then or later,     *)
(* perhaps several times.  Booking is one                                  *)
(* transaction, and the order counter lets one through at a time, but the  *)
(* open cash session is read without a lock: a close may come between that *)
(* read and the commit.  One register, one variant on offer, one customer  *)
(* with points, a gift card and store credit, one discount approval.       *)
(***************************************************************************)
EXTENDS Integers, FiniteSets, Sums

CONSTANTS
    Sales,        \* client-generated sale ids
    NoSale,
    Sessions,     \* cash sessions of the register
    NoSession,
    Bill,         \* Bill[s]: what the register sends
    ListPrice, PromoPrice,
    Tiers,        \* the customer's price list: [least quantity |-> price]
    BandBp,       \* discount band of a cashier, in basis points
    PointWorth,   \* fils one point pays
    EarnPer,      \* fils that earn a point
    Float,        \* what a session starts with
    Grant         \* what a card or an account is issued with

Wallets == {"points", "gift", "credit"}

PosSaleInput == [quantity : Nat \ {0}, phone : BOOLEAN, discount : Nat, account : BOOLEAN,
                 points : Nat, gift : Nat, credit : Nat]

ASSUME TillAssumption ==
    /\ Bill \in [Sales -> PosSaleInput]
    /\ NoSale \notin Sales /\ NoSession \notin Sessions
    /\ ListPrice \in Nat /\ PromoPrice \in Nat /\ Float \in Nat
    /\ PointWorth \in Nat \ {0} /\ EarnPer \in Nat \ {0} /\ BandBp \in Nat
    /\ Grant \in Nat \ {0}
    /\ \A q \in DOMAIN Tiers : q \in Nat /\ Tiers[q] \in Nat
    /\ IsFiniteSet(Sales)

VARIABLES
    promo,       \* a promotion is running
    rung,        \* rung[s]: unit price on the sale, -1 before it is rung up
    approval,    \* the discount approval
    soldTo,      \* the sale the phone on the shelf went to
    balance,     \* balance[w]: what is left in wallet w
    cardStatus,  \* the gift card
    debited,     \* debited[w][s]: ledger row of sale s in wallet w
    earned,      \* points sale s earned
    issued,      \* issued[w]: put into wallet w, minus what was cancelled
    open,        \* the transaction past the order counter: sale and session
    booked,      \* booked[s]: the order exists
    cashIn,      \* cashIn[s]: session of the cash payment of sale s
    opening,     \* sessions whose opener has checked and not yet inserted
    session,     \* session[x]: "none", "open" or "closed"
    expected,    \* expected[x]: recorded by the close
    straddled    \* <<sale, session>>: read by the sale, closed before its commit

tillSaleVars == <<promo, rung, approval, soldTo, booked, cashIn, open>>
walletVars == <<balance, cardStatus, debited, earned, issued>>
drawerVars == <<opening, session, expected, straddled>>
tillVars == <<tillSaleVars, walletVars, drawerVars>>

NoTx == [sale |-> NoSale, session |-> NoSession]

TillInit ==
    /\ promo = FALSE
    /\ rung = [s \in Sales |-> -1]
    /\ approval = "none"
    /\ soldTo = NoSale
    /\ balance = [w \in Wallets |-> 0]
    /\ cardStatus = "none"
    /\ debited = [w \in Wallets |-> [s \in Sales |-> 0]]
    /\ earned = [s \in Sales |-> 0]
    /\ issued = [w \in Wallets |-> 0]
    /\ open = NoTx
    /\ booked = [s \in Sales |-> FALSE]
    /\ cashIn = [s \in Sales |-> NoSession]
    /\ opening = {}
    /\ session = [x \in Sessions |-> "none"]
    /\ expected = [x \in Sessions |-> 0]
    /\ straddled = {}

-----------------------------------------------------------------------------
(* What a sale costs and who pays                                          *)

\* The lower of catalog and promotion, unless the customer's own list has a
\* tier for the quantity: then the highest tier that the quantity reaches.
Retail == IF promo /\ PromoPrice < ListPrice THEN PromoPrice ELSE ListPrice

Effective(s) ==
    LET reached == {q \in DOMAIN Tiers : q <= Bill[s].quantity}
        highest == {q \in reached : \A r \in reached : r <= q}
    IN IF Bill[s].account /\ highest # {} THEN Tiers[CHOOSE q \in highest : TRUE]
       ELSE Retail

Gross(s) == rung[s] * Bill[s].quantity

BillTotal(s) == Gross(s) - Bill[s].discount

\* The customer pays from the wallets what the bill says, the rest in cash.
CashOf(s) == BillTotal(s) - (Bill[s].points + Bill[s].gift + Bill[s].credit)

CashTaken == [s \in Sales |-> CashOf(s)]

\* There is a payment, each is above nothing, and they make up the total.
PaymentsMatch(s) == BillTotal(s) > 0 /\ CashOf(s) >= 0

Due(w, s) ==
    CASE w = "points" -> Bill[s].points
      [] w = "gift" -> Bill[s].gift
      [] OTHER -> Bill[s].credit

PointsFor(fils) == (fils + PointWorth - 1) \div PointWorth

\* What the wallet's ledger is debited with.
Debit(w, s) == IF w = "points" THEN PointsFor(Due(w, s)) ELSE Due(w, s)

\* Points accrue on what was not paid in points.
Accrued(s) ==
    IF Bill[s].account THEN (BillTotal(s) - Bill[s].points) \div EarnPer ELSE 0

\* Above the band of the cashier a line needs an approved discount approval;
\* neither its amount nor an earlier use of it is looked at.
OverBand(s) == Bill[s].discount > (Gross(s) * BandBp) \div 10000

DiscountAllowed(s) == OverBand(s) => approval = "approved"

\* Mutant: the state of the unit is not checked.
PhoneOnSale(s) == TRUE

\* The scanned unit is in stock, under its row lock.
PhoneFree(s) == Bill[s].phone => soldTo = NoSale

\* Mutant: a card that was cancelled or used up still pays.
CardPays(s) == balance["gift"] >= Bill[s].gift - 1

\* The card is locked; it must be active and hold enough.
CardCovers(s) ==
    Bill[s].gift > 0 => cardStatus = "active" /\ balance["gift"] >= Bill[s].gift

PointsCover(s) ==
    Bill[s].points > 0 => Bill[s].account /\ balance["points"] >= Debit("points", s)

CreditCovers(s) ==
    Bill[s].credit > 0 => Bill[s].account /\ balance["credit"] >= Bill[s].credit

\* Mutant: any session of the register will do.
SessionsOfRegister == {x \in Sessions : session[x] # "none"}

\* The sessions the sale may pick its one from.
OpenSessions == {x \in Sessions : session[x] = "open"}

\* Mutant: the order is not keyed by the sale's id.
ChecksUnkeyed(s) ==
    << [ok |-> rung[s] = Effective(s), code |-> "price"],
       [ok |-> DiscountAllowed(s) /\ PhoneFree(s), code |-> "unit"],
       [ok |-> PaymentsMatch(s), code |-> "payment"],
       [ok |-> PointsCover(s) /\ CardCovers(s) /\ CreditCovers(s), code |-> "wallet"],
       [ok |-> CashOf(s) > 0 => OpenSessions # {}, code |-> "session"] >>

\* The checks in the order the transaction makes them.
Checks(s) ==
    << [ok |-> rung[s] = Effective(s), code |-> "price"],
       [ok |-> DiscountAllowed(s), code |-> "discount"],
       [ok |-> PhoneFree(s), code |-> "unit"],
       [ok |-> PaymentsMatch(s), code |-> "payment"],
       [ok |-> ~booked[s], code |-> "duplicate"],
       [ok |-> PointsCover(s), code |-> "points"],
       [ok |-> CardCovers(s), code |-> "gift"],
       [ok |-> CreditCovers(s), code |-> "credit"],
       [ok |-> CashOf(s) > 0 => OpenSessions # {}, code |-> "session"] >>

Refused(s) == {i \in DOMAIN Checks(s) : ~Checks(s)[i].ok}

-----------------------------------------------------------------------------
(* The sale                                                                *)

\* The cashier rings it up at the price of the moment and takes the cash,
\* with or without a connection.
Ring(s) ==
    /\ rung[s] = -1
    /\ rung' = [rung EXCEPT ![s] = Effective(s)]
    /\ UNCHANGED <<promo, approval, soldTo, booked, cashIn, open, walletVars, drawerVars>>

\* Every check passed; the session was read and nothing is committed.  A check
\* that fails rolls the transaction back and leaves no trace.
Book(s) ==
    /\ rung[s] # -1 /\ open = NoTx
    /\ Refused(s) = {}
    /\ \E x \in IF OpenSessions = {} THEN {NoSession} ELSE OpenSessions :
           open' = [sale |-> s, session |-> x]
    /\ UNCHANGED <<promo, rung, approval, soldTo, booked, cashIn, walletVars, drawerVars>>

\* Mutant: accrual is not counted into the balance.
NewBalanceNoAccrual(w, s) == balance[w] - Debit(w, s)

NewBalance(w, s) ==
    balance[w] - Debit(w, s) + (IF w = "points" THEN Accrued(s) ELSE 0)

\* Orders, lines, payments, wallets, the unit: all at once.
Commit(s) ==
    /\ open.sale = s
    /\ open' = NoTx
    /\ booked' = [booked EXCEPT ![s] = TRUE]
    /\ soldTo' = IF Bill[s].phone THEN s ELSE soldTo
    /\ cashIn' = [cashIn EXCEPT ![s] =
                    IF CashOf(s) > 0 THEN open.session ELSE NoSession]
    /\ balance' = [w \in Wallets |-> NewBalance(w, s)]
    /\ cardStatus' = IF Bill[s].gift > 0 /\ balance["gift"] = Bill[s].gift
                     THEN "depleted" ELSE cardStatus
    /\ debited' = [w \in Wallets |-> [debited[w] EXCEPT ![s] = Debit(w, s)]]
    /\ earned' = [earned EXCEPT ![s] = Accrued(s)]
    /\ UNCHANGED <<promo, rung, approval, issued, drawerVars>>

\* The connection to the database breaks.
RollBack ==
    /\ open # NoTx
    /\ open' = NoTx
    /\ UNCHANGED <<promo, rung, approval, soldTo, booked, cashIn, walletVars, drawerVars>>

\* A promotion starts or ends (its window, or a price list is edited).
PromoTurns ==
    /\ promo' = ~promo
    /\ UNCHANGED <<rung, approval, soldTo, booked, cashIn, open, walletVars, drawerVars>>

RequestDiscount ==
    /\ approval = "none"
    /\ approval' = "pending"
    /\ UNCHANGED <<promo, rung, soldTo, booked, cashIn, open, walletVars, drawerVars>>

DecideDiscount ==
    /\ approval = "pending"
    /\ approval' \in {"approved", "rejected"}
    /\ UNCHANGED <<promo, rung, soldTo, booked, cashIn, open, walletVars, drawerVars>>

-----------------------------------------------------------------------------
(* The wallets.  A booking that has debited a wallet holds its row.        *)

Held(w) == open # NoTx /\ Due(w, open.sale) > 0

IssueCard(amount) ==
    /\ cardStatus = "none"
    /\ cardStatus' = "active"
    /\ balance' = [balance EXCEPT !["gift"] = amount]
    /\ issued' = [issued EXCEPT !["gift"] = amount]
    /\ UNCHANGED <<tillSaleVars, debited, earned, drawerVars>>

CancelCard ==
    /\ cardStatus = "active" /\ ~Held("gift")
    /\ cardStatus' = "cancelled"
    /\ balance' = [balance EXCEPT !["gift"] = 0]
    /\ issued' = [issued EXCEPT !["gift"] = @ - balance["gift"]]
    /\ UNCHANGED <<tillSaleVars, debited, earned, drawerVars>>

\* Once, to bound the run.
IssueCredit(amount) ==
    /\ issued["credit"] = 0 /\ ~Held("credit")
    /\ balance' = [balance EXCEPT !["credit"] = @ + amount]
    /\ issued' = [issued EXCEPT !["credit"] = @ + amount]
    /\ UNCHANGED <<tillSaleVars, cardStatus, debited, earned, drawerVars>>

-----------------------------------------------------------------------------
(* The cash sessions                                                       *)

\* openCashSession looks for an open session of the device ...
CheckNoneOpen(x) ==
    /\ session[x] = "none" /\ x \notin opening
    /\ OpenSessions = {}
    /\ opening' = opening \cup {x}
    /\ UNCHANGED <<tillSaleVars, walletVars, session, expected, straddled>>

\* ... and inserts its own; no unique index backs the check.
InsertSession(x) ==
    /\ x \in opening
    /\ opening' = opening \ {x}
    /\ session' = [session EXCEPT ![x] = "open"]
    /\ UNCHANGED <<tillSaleVars, walletVars, expected, straddled>>

CashBooked(x) == SumOf(CashTaken, {s \in Sales : cashIn[s] = x})

ExpectedIn(x) == Float + CashBooked(x)

\* The cashier declares what is in the drawer and learns the difference.  The
\* row of the session is locked; a sale that has only read it holds nothing.
CloseSession(x) ==
    /\ session[x] = "open"
    /\ session' = [session EXCEPT ![x] = "closed"]
    /\ expected' = [expected EXCEPT ![x] = ExpectedIn(x)]
    /\ straddled' = IF open.session = x THEN straddled \cup {<<open.sale, x>>} ELSE straddled
    /\ UNCHANGED <<tillSaleVars, walletVars, opening>>

TillNext ==
    \/ \E s \in Sales : Ring(s) \/ Book(s) \/ Commit(s)
    \/ RollBack \/ PromoTurns \/ RequestDiscount \/ DecideDiscount
    \/ IssueCard(Grant) \/ IssueCredit(Grant) \/ CancelCard
    \/ \E x \in Sessions : CheckNoneOpen(x) \/ InsertSession(x) \/ CloseSession(x)

TillSpec == TillInit /\ [][TillNext]_tillVars

-----------------------------------------------------------------------------
(* Properties                                                              *)

\* No wallet is overdrawn and no sale costs a fraction or less than nothing.
TillTypeOK ==
    /\ promo \in BOOLEAN
    /\ rung \in [Sales -> {-1} \cup Nat]
    /\ approval \in {"none", "pending", "approved", "rejected"}
    /\ soldTo \in Sales \cup {NoSale}
    /\ balance \in [Wallets -> Nat] /\ issued \in [Wallets -> Nat]
    /\ cardStatus \in {"none", "active", "depleted", "cancelled"}
    /\ debited \in [Wallets -> [Sales -> Nat]] /\ earned \in [Sales -> Nat]
    /\ open \in [sale : Sales \cup {NoSale}, session : Sessions \cup {NoSession}]
    /\ booked \in [Sales -> BOOLEAN]
    /\ cashIn \in [Sales -> Sessions \cup {NoSession}]
    /\ opening \subseteq Sessions
    /\ session \in [Sessions -> {"none", "open", "closed"}]
    /\ expected \in [Sessions -> Nat]
    /\ straddled \subseteq Sales \X Sessions

\* Wallets are ledgers: what was issued and earned is either still there or
\* was debited by a booked sale that it paid for, once; a card is active
\* exactly as long as it holds something.  (LoyaltyService, GiftCardService,
\* StoreCreditService.redeemWith inside the sale's transaction.)
WalletsBalance ==
    /\ \A w \in Wallets :
         balance[w] = issued[w] + (IF w = "points" THEN SumOf(earned, Sales) ELSE 0)
                      - SumOf(debited[w], Sales)
    /\ \A w \in Wallets, s \in Sales :
         debited[w][s] = IF booked[s] THEN Debit(w, s) ELSE 0
    /\ (cardStatus = "active") <=> (balance["gift"] # 0)

\* The phone on the shelf is on one booked bill at most, and every sale of it
\* above the band was approved.
PhoneSoldOnce ==
    /\ \A s, t \in Sales : booked[s] /\ booked[t] /\ Bill[s].phone /\ Bill[t].phone => s = t
    /\ \A s \in Sales : booked[s] /\ OverBand(s) => approval = "approved"

\* All cash a booked sale took lies in a session, and the expected figure of a
\* closed session is short of that only by sales that were being booked while
\* it was closed (the read at salesService.ts:428 takes no lock).
DrawerAccounted ==
    /\ \A s \in Sales : booked[s] /\ CashOf(s) > 0 => cashIn[s] # NoSession
    /\ \A x \in Sessions : session[x] = "closed" =>
         expected[x] = Float + SumOf(CashTaken,
                                  {s \in Sales : cashIn[s] = x /\ <<s, x>> \notin straddled})

\* The register's sales: wallets, phones and drawers agree with what was
\* booked.  (SalesService.createPosSale, OpsService.closeCashSession.)
SalesAccounted == WalletsBalance /\ PhoneSoldOnce /\ DrawerAccounted
=============================================================================
