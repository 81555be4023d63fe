---------------------------- MODULE MCBackOffice ----------------------------
(***************************************************************************)
(* The parts of the back office in one run.  They work on rows of their    *)
(* own, so every behaviour of all of them is an interleaving of one of     *)
(* each: desk picks the part that moves.                                   *)
(***************************************************************************)
EXTENDS AfterSale, Till, MailSession, Catalog, CodGate, EventLog, Accounts,
        NotificationDelivery, AuditTrail, ErrorReports, Migrations, Limits, TLC

CONSTANTS s1, s2, d1, d2, a1

VARIABLE desk

\* Three sales: a phone for cash, the same phone paid from the wallets with a
\* large discount, and two pieces on the customer's own price list.
MCBill == [s \in Sales |->
    IF s = s1 THEN [quantity |-> 1, phone |-> TRUE, discount |-> 0, account |-> TRUE,
                    points |-> 0, gift |-> 1, credit |-> 0]
    ELSE IF s = s2 THEN [quantity |-> 1, phone |-> TRUE, discount |-> 1, account |-> FALSE,
                    points |-> 0, gift |-> 2, credit |-> 0]
    ELSE [quantity |-> 2, phone |-> FALSE, discount |-> 0, account |-> TRUE,
          points |-> 1, gift |-> 0, credit |-> 1]]
MCTiers == 2 :> 2

\* Two orders of one customer and a larger one of another.
MCCustomer == [d \in Deliveries |-> IF d \in {d1, d2} THEN "known" ELSE "new"]
MCValue == [d \in Deliveries |-> IF d = d1 THEN 10 ELSE IF d = d2 THEN 15 ELSE 43]
MCDefault == [enabled |-> TRUE, threshold |-> 10, percent |-> TRUE, percentBp |-> 2000,
              fixed |-> 30, ceiling |-> 70, maximum |-> NoCap]
\* The policies that differ from it in two fields at most.
MCPolicies ==
    LET any == [enabled : BOOLEAN, threshold : {10, 20}, percent : BOOLEAN,
                percentBp : {2000, 9999}, fixed : {30}, ceiling : {40, 70}, maximum : {NoCap, 20}]
    IN {p \in any : Cardinality({f \in DOMAIN p : p[f] # MCDefault[f]}) <= 2}

\* Two visitors; one event is out of the window, one has an unknown name.
MCEvent ==
    LET of(who, what, in) == [session |-> who, name |-> what, inWindow |-> in]
    IN << of("a", "viewed", TRUE), of("a", "viewed", TRUE), of("a", "cart", TRUE),
          of("b", "viewed", FALSE), of("b", "viewed", TRUE), of("b", "cart", TRUE),
          of("b", "misspelt", TRUE) >>
MCBatches == {<<1>>, <<2>>, <<3>>, <<1, 3>>, <<4>>, <<5, 6>>, <<6, 7>>}
MCSteps == <<"viewed", "viewed", "cart">>

\* Two links of one address.
MCEmail == [l \in Links |-> "address"]

\* Two actions that say the same and one that says something else.
MCContent == [a \in Actions |-> IF a = a1 THEN "other" ELSE "same"]

\* The second number was taken by two branches.
MCNumber == <<1, 2, 2, 3>>

\* One edit of an applied file is one the database refuses.
MCBroken == {<<2, "edited">>}

\* Where another part moves, the order and the mail server are any one.
OfficeInit ==
    /\ desk \in {"after sale", "till", "mail", "catalog", "gate", "events",
                 "staff", "shoppers", "notices", "audit", "monitor", "boot", "requests", "calls"}
    /\ MigrationsInit /\ (desk # "boot" => release = [p \in Processes |-> NoRows])
    /\ ReportsInit /\ (desk # "monitor" => reporter = "sentry")
    /\ MailInit
    /\ desk # "mail" => config \in [{"secure", "requireTls", "credentials", "deliverable"} -> {TRUE}]
    /\ Init
    /\ desk # "after sale" =>
          order = "confirmed" /\ sale = [serialized |-> FALSE, cod |-> FALSE, captured |-> Total]
    /\ TillInit /\ CatalogInit /\ GateInit /\ LogInit /\ AccountInit
    /\ NoticeInit /\ TrailInit /\ LimitsInit

opsVars == <<reportVars, migrationVars, limitVars>>
officeVars == <<desk, vars, tillVars, mailVars, catalogVars,
                gateVars, rows, accountVars, noticeVars, trailVars, opsVars>>

AtAfterSale ==
    /\ desk = "after sale" /\ Next
    /\ UNCHANGED <<desk, tillVars, mailVars, catalogVars, gateVars, rows,
                   accountVars, noticeVars, trailVars, opsVars>>
AtTill ==
    /\ desk = "till" /\ TillNext
    /\ UNCHANGED <<desk, vars, mailVars, catalogVars, gateVars, rows,
                   accountVars, noticeVars, trailVars, opsVars>>
AtMail ==
    /\ desk = "mail" /\ MailNext
    /\ UNCHANGED <<desk, vars, tillVars, catalogVars, gateVars, rows,
                   accountVars, noticeVars, trailVars, opsVars>>
AtCatalog ==
    /\ desk = "catalog" /\ CatalogNext
    /\ UNCHANGED <<desk, vars, tillVars, mailVars, gateVars, rows,
                   accountVars, noticeVars, trailVars, opsVars>>
AtGate ==
    /\ desk = "gate" /\ GateNext
    /\ UNCHANGED <<desk, vars, tillVars, mailVars, catalogVars, rows,
                   accountVars, noticeVars, trailVars, opsVars>>
AtEvents ==
    /\ desk = "events" /\ LogNext
    /\ UNCHANGED <<desk, vars, tillVars, mailVars, catalogVars, gateVars,
                   accountVars, noticeVars, trailVars, opsVars>>
AtAccounts ==
    /\ (desk = "staff" /\ StaffNext) \/ (desk = "shoppers" /\ ShopperNext)
    /\ UNCHANGED <<desk, vars, tillVars, mailVars, catalogVars, gateVars,
                   rows, noticeVars, trailVars, opsVars>>
AtNotices ==
    /\ desk = "notices" /\ NoticeNext
    /\ UNCHANGED <<desk, vars, tillVars, mailVars, catalogVars, gateVars,
                   rows, accountVars, trailVars, opsVars>>
AtTrail ==
    /\ desk = "audit" /\ TrailNext
    /\ UNCHANGED <<desk, vars, tillVars, mailVars, catalogVars, gateVars,
                   rows, accountVars, noticeVars, opsVars>>
AtMonitor ==
    /\ desk = "monitor" /\ ReportsNext
    /\ UNCHANGED <<desk, vars, tillVars, mailVars, catalogVars, gateVars,
                   rows, accountVars, noticeVars, trailVars, migrationVars,
                   limitVars>>
AtBoot ==
    /\ desk = "boot" /\ MigrationsNext
    /\ UNCHANGED <<desk, vars, tillVars, mailVars, catalogVars, gateVars,
                   rows, accountVars, noticeVars, trailVars, reportVars,
                   limitVars>>
AtLimits ==
    /\ (desk = "requests" /\ RequestNext) \/ (desk = "calls" /\ BudgetNext)
    /\ UNCHANGED <<desk, vars, tillVars, mailVars, catalogVars, gateVars,
                   rows, accountVars, noticeVars, trailVars, reportVars,
                   migrationVars>>

OfficeNext ==
    \/ AtAfterSale \/ AtTill \/ AtMail \/ AtCatalog \/ AtGate \/ AtEvents \/ AtAccounts
    \/ AtNotices \/ AtTrail \/ AtMonitor \/ AtBoot \/ AtLimits

OfficeSpec == OfficeInit /\ [][OfficeNext]_officeVars

\* Every variable of every part stays in its type: no wallet and no drawer holds
\* less than nothing.
OfficeTypeOK ==
    /\ desk = "after sale" => TypeOK
    /\ desk = "till" => TillTypeOK
    /\ desk = "mail" => MailTypeOK
    /\ desk = "notices" => NoticeTypeOK

\* The gate of cash on delivery never favours the larger order or the worse
\* customer, under any policy; and requests are turned away at their limit only.
GateAgrees ==
    /\ desk = "gate" => GateConsistent
    /\ desk \in {"requests", "calls"} => LimitsHold

\* What was logged is counted for what it is, and shows what became of it; and
\* of what failed, no report is lost without a reason.  What the migrations
\* table says was run was run, once and in order.
LogsAgree ==
    /\ desk = "events" => FunnelTruthful
    /\ desk = "audit" => TrailTells
    /\ desk = "monitor" => ReportsAccounted
    /\ desk = "boot" => MigrationsSound

\* What was recorded of a parcel, a refund, a delivery or a message is not
\* rewritten.
NothingRewritten == HistoryStays /\ FinalStays
=============================================================================
