------------------------------ MODULE TaxRules ------------------------------
(***************************************************************************)
(* VAT of a line, and the domestic reverse charge: which conditions a sale *)
(* must meet, which lines it covers, what is charged.  Amounts are fils,   *)
(* rates basis points; prices include the VAT.                             *)
(***************************************************************************)
EXTENDS Integers, FiniteSets, FiniteSetsExt

\* Mutant: rounded down.
RoundedDown(a, b) == a \div b

\* Math.round(a / b) of amounts that are not negative.
Rounded(a, b) == (2 * a + b) \div (2 * b)

VatFromInclusive(gross, rateBp) == Rounded(gross * rateBp, 10000 + rateBp)

\* lineTotalsForCategory: a reverse-charged line is the price without its VAT.
LineTotals(amount, rateBp, category) ==
    LET vat == VatFromInclusive(amount, rateBp)
    IN CASE category = "S"  -> [gross |-> amount, tax |-> vat, net |-> amount - vat]
         [] category = "AE" -> [gross |-> amount - vat, tax |-> 0, net |-> amount - vat]
         [] OTHER           -> [gross |-> amount, tax |-> 0, net |-> amount]

-----------------------------------------------------------------------------
(* The reverse charge                                                      *)

Qualifies(line) == ~line.zeroRated /\ ~line.exempt /\ line.device

StandardCategory(line) ==
    CASE line.exempt -> "E"
      [] ~line.exempt /\ line.zeroRated -> "Z"
      [] OTHER -> "S"

\* Mutant: a declaration is enough.
VerifiedUnchecked(declaration) == declaration.outcome # "failed"

\* Only a registration that was verified counts.
Verified(declaration) == declaration.outcome = "verified"

\* The first condition that is not met, in the order of the code.
\* A sale: [requested, supplierTrn, declarations (none or one), lines].
RefusalReason(sale) ==
    LET none == sale.declarations = {}
        declared(limb) == \A d \in sale.declarations : d[limb]
    IN CASE ~sale.requested -> "not_requested"
         [] sale.requested /\ ~sale.supplierTrn -> "supplier_not_registered"
         [] sale.requested /\ sale.supplierTrn /\ none -> "buyer_trn_missing"
         [] OTHER ->
              IF ~declared("resale") THEN "resale_intent_not_declared"
              ELSE IF ~declared("registered") THEN "fta_registration_not_declared"
              ELSE IF \E d \in sale.declarations : ~Verified(d)
                   THEN "registration_not_verified"
              ELSE IF ~\E l \in DOMAIN sale.lines : Qualifies(sale.lines[l])
                   THEN "no_qualifying_device_lines"
              ELSE "none"

RcmRefused(sale) == RefusalReason(sale) # "none"

\* Refused for the sale, granted line by line.
CategoryOf(sale, l) ==
    IF ~RcmRefused(sale) /\ Qualifies(sale.lines[l]) THEN "AE"
    ELSE StandardCategory(sale.lines[l])

TreatmentKind(sale) ==
    LET charged == {l \in DOMAIN sale.lines : CategoryOf(sale, l) = "AE"}
    IN CASE charged = {} -> "standard"
         [] charged = DOMAIN sale.lines -> "reverse_charge"
         [] OTHER -> "mixed"

RateOf(category, rateBp) == IF category = "S" THEN rateBp ELSE 0

=============================================================================
