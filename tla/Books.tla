-------------------------------- MODULE Books --------------------------------
(***************************************************************************)
(* The tax and accounting side of a sale: the buyer's declaration, the     *)
(* invoice, its credit notes, and the journal.                             *)
(*                                                                         *)
(* A sale reads the declaration without locking it and commits later; a    *)
(* declaration may be revoked or verified in between.  Credit notes are    *)
(* prorated line by line from the invoice, each compared with the invoice  *)
(* on its own.  Postings read the payments as they are, insert one entry   *)
(* per source and are repeated freely.                                     *)
(***************************************************************************)
EXTENDS TaxRules, Sequences, SequencesExt, Sums

CONSTANTS
    Orders,            \* business sales to one customer
    Goods,             \* lines of every sale
    Line,              \* Line[l]: [device, zeroRated, exempt, price, qty, cost]
    RateBp,            \* tenant.vat_rate_bp
    Requests,          \* what a credit note may ask for: lists of [line, qty]
    ShortOfHalf,       \* <<amount, qty, of>> whose product of doubles, amount *
                       \* (qty / of), falls short of the exact half it stands for
    MaxPostings,       \* bound: postings that run at the same time
    RefundSplit,       \* amounts refunded of a sale, one refund after the other
    MaxRecords         \* bound: declarations, credit notes and entries together

CreditNoteAsk == [line : Goods, qty : Nat]

ASSUME BooksAssumption ==
    /\ IsFiniteSet(Goods) /\ Goods # {}
    /\ Line \in [Goods -> [device : BOOLEAN, zeroRated : BOOLEAN, exempt : BOOLEAN,
                           price : Nat, qty : Nat \ {0}, cost : Nat]]
    /\ RateBp \in 0..10000 /\ MaxPostings \in Nat
    /\ RefundSplit \in Seq(Nat)
    /\ Requests \subseteq Seq(CreditNoteAsk)
    /\ \A t \in ShortOfHalf :
         LET doubled == 2 * (t[1] * t[2]) + t[3]
         IN  2 * (t[3] * (doubled \div (2 * t[3]))) = doubled
    /\ MaxRecords \in Nat

VARIABLES
    declared,    \* declarations, oldest first: [resale, registered, outcome, revoked]
    resolved,    \* resolved[s]: what the sale's transaction has decided, or {}
    invoice,     \* invoice[s]: the committed invoice, or {}
    notes,       \* credit notes, by number: [sale, lines]
    gateway,     \* gateway[s]: "pending", "captured" or "failed"
    refunded,    \* refunded[s]: refunds processed so far, a prefix of RefundSplit
    posting,     \* entries computed by running postings
    journal      \* posted entries: [source, lines]

DeclarationRecord == [resale : BOOLEAN, registered : BOOLEAN, revoked : BOOLEAN,
                      outcome : {"none", "verified", "failed", "unavailable"}]
TaxCategory == {"S", "Z", "E", "O", "AE"}
CreditNoteLine == [line : Goods, total : Nat, tax : Nat, category : TaxCategory, rate : 0..RateBp]
CreditNoteDocument == [sale : Orders, lines : Seq(CreditNoteLine)]

bookVars == <<declared, resolved, invoice, notes, gateway, refunded, posting, journal>>

BooksInit ==
    /\ declared = <<>> /\ notes = <<>>
    /\ resolved = [s \in Orders |-> {}]
    /\ invoice = [s \in Orders |-> {}]
    /\ gateway = [s \in Orders |-> "pending"]
    /\ refunded = [s \in Orders |-> 0]
    /\ posting = {}
    /\ journal = {}

Records == Len(declared) + Len(notes) + Cardinality(journal)

-----------------------------------------------------------------------------
(* RcmService                                                              *)

CaptureDeclaration(resale, registered) ==
    /\ Records < MaxRecords
    /\ declared' = Append(declared, [resale |-> resale, registered |-> registered,
                                     outcome |-> "none", revoked |-> FALSE])
    /\ UNCHANGED <<resolved, invoice, notes, gateway, refunded, posting, journal>>

\* As often as wanted, unless it is revoked.
VerifyDeclaration(d, outcome) ==
    /\ ~declared[d].revoked
    /\ declared' = [declared EXCEPT ![d].outcome = outcome]
    /\ UNCHANGED <<resolved, invoice, notes, gateway, refunded, posting, journal>>

RevokeDeclaration(d) ==
    /\ ~declared[d].revoked
    /\ declared' = [declared EXCEPT ![d].revoked = TRUE]
    /\ UNCHANGED <<resolved, invoice, notes, gateway, refunded, posting, journal>>

Unrevoked == {d \in DOMAIN declared : ~declared[d].revoked}

\* Mutant: a revoked declaration still counts.
LatestOfAll == IF declared = <<>> THEN {} ELSE {Len(declared)}

\* The latest that is not revoked, verified or not.
ActiveDeclaration == IF Unrevoked = {} THEN {} ELSE {Max(Unrevoked)}

SaleContext(requested) ==
    [requested |-> requested, supplierTrn |-> TRUE, lines |-> Line,
     declarations |-> IF requested THEN {declared[d] : d \in ActiveDeclaration} ELSE {}]

\* resolveForSaleWith, in the transaction of the sale: a plain read.
ResolveForSale(s, requested) ==
    LET sale == SaleContext(requested)
    IN
    /\ resolved[s] = {} /\ invoice[s] = {}
    /\ resolved' = [resolved EXCEPT ![s] =
         {[kind |-> TreatmentKind(sale),
           category |-> [l \in Goods |-> CategoryOf(sale, l)],
           by |-> IF TreatmentKind(sale) = "standard" THEN {} ELSE ActiveDeclaration,
           read |-> sale.declarations]}]
    /\ UNCHANGED <<declared, invoice, notes, gateway, refunded, posting, journal>>

Charged(l, category) == LineTotals(Line[l].price * Line[l].qty, RateBp, category)

\* The sale commits with what it resolved.
IssueInvoice(s) ==
    /\ \E r \in resolved[s] :
         invoice' = [invoice EXCEPT ![s] =
           {[kind |-> r.kind, by |-> r.by, read |-> r.read,
             lines |-> [l \in Goods |->
                [category |-> r.category[l], rate |-> RateOf(r.category[l], RateBp),
                 total |-> Charged(l, r.category[l]).gross,
                 tax |-> Charged(l, r.category[l]).tax]]]}]
    /\ resolved' = [resolved EXCEPT ![s] = {}]
    /\ UNCHANGED <<declared, notes, gateway, refunded, posting, journal>>

-----------------------------------------------------------------------------
(* CreditNoteService                                                       *)

TotalOf(inv) == SumOf([l \in Goods |-> inv.lines[l].total], Goods)
TaxOf(inv) == SumOf([l \in Goods |-> inv.lines[l].tax], Goods)

\* Math.round of the amount times a share that is a double: only an exact half
\* can come out on the other side, and then one less.
Prorated(amount, qty, of) ==
    IF <<amount, qty, of>> \in ShortOfHalf THEN Rounded(amount * qty, of) - 1
    ELSE Rounded(amount * qty, of)

\* Mutant: the note takes today's treatment of the line, not the invoice's.
CreditLineNow(inv, ask) ==
    LET category == CategoryOf(SaleContext(TRUE), ask.line)
    IN [line |-> ask.line,
        total |-> Prorated(inv.lines[ask.line].total, ask.qty, Line[ask.line].qty),
        tax |-> Prorated(inv.lines[ask.line].tax, ask.qty, Line[ask.line].qty),
        category |-> category, rate |-> RateOf(category, RateBp)]

\* From the invoice's own numbers; category and rate are copied.
CreditLine(inv, ask) ==
    [line |-> ask.line,
     total |-> Prorated(inv.lines[ask.line].total, ask.qty, Line[ask.line].qty),
     tax |-> Prorated(inv.lines[ask.line].tax, ask.qty, Line[ask.line].qty),
     category |-> inv.lines[ask.line].category, rate |-> inv.lines[ask.line].rate]

WithinLine(ask) == ask.qty \in 1..Line[ask.line].qty

CreditTotal(lines) == FoldSeq(LAMBDA line, sum : line.total + sum, 0, lines)

\* Every line is compared with its invoice line and the whole with the invoice;
\* notes issued before are not looked at.  The number is taken in the same
\* transaction.
IssueCreditNote(s, asked) ==
    \E inv \in invoice[s] :
      LET lines == [i \in DOMAIN asked |-> CreditLine(inv, asked[i])]
      IN
      /\ Records < MaxRecords
      /\ asked # <<>> /\ \A i \in DOMAIN asked : WithinLine(asked[i])
      /\ CreditTotal(lines) <= TotalOf(inv)
      /\ notes' = Append(notes, [sale |-> s, lines |-> lines])
      /\ UNCHANGED <<declared, resolved, invoice, gateway, refunded, posting, journal>>

-----------------------------------------------------------------------------
(* Payments and refunds, as the postings find them                         *)

SettleGateway(s, status) ==
    /\ invoice[s] # {} /\ gateway[s] = "pending"
    /\ gateway' = [gateway EXCEPT ![s] = status]
    /\ UNCHANGED <<declared, resolved, invoice, notes, refunded, posting, journal>>

ProcessRefund(s) ==
    /\ invoice[s] # {} /\ gateway[s] = "captured"
    /\ refunded[s] < Len(RefundSplit)
    /\ refunded' = [refunded EXCEPT ![s] = @ + 1]
    /\ UNCHANGED <<declared, resolved, invoice, notes, gateway, posting, journal>>

-----------------------------------------------------------------------------
(* FinanceService: lines are amounts per account, debits positive          *)

\* Clearing, receivables, inventory, VAT, revenue, refunds, cost of goods.
Accounts == {"1100", "1200", "1300", "2200", "4000", "4900", "5000"}

CostOf == SumOf([l \in Goods |-> Line[l].cost * Line[l].qty], Goods)

\* One gateway payment of the whole total: a receivable while it is pending.
SaleLines(s, inv) ==
    [a \in Accounts |->
        CASE a = "1200" -> IF gateway[s] = "pending" THEN TotalOf(inv) ELSE 0
          [] a = "1100" -> IF gateway[s] = "pending" THEN 0 ELSE TotalOf(inv)
          [] a = "4000" -> -(TotalOf(inv) - TaxOf(inv))
          [] a = "2200" -> -TaxOf(inv)
          [] a = "5000" -> CostOf
          [] a = "1300" -> -CostOf
          [] a = "4900" -> 0]

RefundTax(inv, amount) ==
    IF TotalOf(inv) = 0 THEN 0 ELSE Rounded(amount * TaxOf(inv), TotalOf(inv))

RefundLines(inv, amount) ==
    [a \in Accounts |->
        CASE a = "4900" -> amount - RefundTax(inv, amount)
          [] a = "2200" -> RefundTax(inv, amount)
          [] a = "1100" -> -amount
          [] OTHER -> 0]

\* postSale reads order and payments and computes the entry ...
ComputeSale(s) ==
    /\ Cardinality(posting) < MaxPostings
    /\ \E inv \in invoice[s] :
         posting' = posting \cup {[source |-> <<s, 0>>, lines |-> SaleLines(s, inv)]}
    /\ UNCHANGED <<declared, resolved, invoice, notes, gateway, refunded, journal>>

\* ... postRefund the refund, if it is processed.
ComputeRefund(s, n) ==
    /\ Cardinality(posting) < MaxPostings
    /\ n \in 1..refunded[s]
    /\ \E inv \in invoice[s] :
         posting' = posting \cup
            {[source |-> <<s, n>>, lines |-> RefundLines(inv, RefundSplit[n])]}
    /\ UNCHANGED <<declared, resolved, invoice, notes, gateway, refunded, journal>>

\* Mutant: an entry per call.
Repeatable(source) == FALSE

AlreadyPosted(source) == \E e \in journal : e.source = source

\* The entry is inserted, if its source has none; else the old one is returned.
InsertEntry(e) ==
    /\ Records < MaxRecords
    /\ journal' = IF AlreadyPosted(e.source) THEN journal ELSE journal \cup {e}
    /\ posting' = posting \ {e}
    /\ UNCHANGED <<declared, resolved, invoice, notes, gateway, refunded>>

BalanceOf(entries, a) == NetOf([e \in entries |-> e.lines[a]], entries)
Balance(a) == BalanceOf(journal, a)

\* profitAndLoss, of all time.
ProfitAndLoss ==
    [revenue |-> -Balance("4000"), refunds |-> Balance("4900"),
     cost |-> Balance("5000"), vat |-> -Balance("2200")]

BooksNext ==
    \/ \E resale, registered \in BOOLEAN : CaptureDeclaration(resale, registered)
    \/ \E d \in DOMAIN declared :
         \/ \E o \in {"verified", "failed", "unavailable"} : VerifyDeclaration(d, o)
         \/ RevokeDeclaration(d)
    \/ \E s \in Orders :
         \/ \E requested \in BOOLEAN : ResolveForSale(s, requested)
         \/ IssueInvoice(s) \/ ProcessRefund(s)
         \/ \E status \in {"captured", "failed"} : SettleGateway(s, status)
         \/ \E asked \in Requests : IssueCreditNote(s, asked)
         \/ ComputeSale(s) \/ \E n \in DOMAIN RefundSplit : ComputeRefund(s, n)
    \/ \E e \in posting : InsertEntry(e)

-----------------------------------------------------------------------------
(* Properties                                                              *)

BooksTypeOK ==
    /\ declared \in Seq(DeclarationRecord)
    /\ notes \in Seq(CreditNoteDocument)
    /\ \A s \in Orders : Cardinality(invoice[s]) <= 1 /\ Cardinality(resolved[s]) <= 1
    /\ \A n \in DOMAIN notes : \A i \in DOMAIN notes[n].lines :
         notes[n].lines[i].tax \in 0..notes[n].lines[i].total

\* VAT is left uncharged on the devices of a sale only, and only if the
\* declaration the sale read had both limbs and was verified; what a credit note
\* gives back has the category and rate the invoice had, whatever became of the
\* declaration.  (resolveForSaleWith, resolveSaleTaxTreatment, issueWith.)
ReverseChargeSupported ==
    /\ \A s \in Orders : \A inv \in invoice[s] :
         /\ (inv.kind = "standard") = (inv.by = {})
         /\ \A l \in Goods : inv.lines[l].category = "AE" =>
              /\ Line[l].device /\ inv.lines[l].tax = 0
              /\ \E d \in inv.read : d.resale /\ d.registered /\ d.outcome = "verified"
                                     /\ ~d.revoked
    /\ \A n \in DOMAIN notes : \A inv \in invoice[notes[n].sale] :
         \A i \in DOMAIN notes[n].lines :
           LET credited == notes[n].lines[i]
               line == inv.lines[credited.line]
           IN /\ credited.category = line.category /\ credited.rate = line.rate
              /\ line.tax = 0 => credited.tax = 0

\* What resolveForSaleWith says of its read (rcmService.ts:291): the declaration
\* cannot be revoked between the decision and the invoice.  The read locks
\* nothing, so it can.
InvoiceRestsOnDeclaration ==
    [][\A s \in Orders : \A inv \in invoice'[s] \ invoice[s] :
         \A d \in inv.by : ~declared[d].revoked]_bookVars

\* One entry per source, balanced, so that net revenue and VAT are what customers
\* paid and owe; the VAT of the posted refunds is in proportion to the refunds,
\* but for half a fils each.  (postSale, postRefund, profitAndLoss.)
BooksBalance ==
    /\ \A e, f \in journal : e.source = f.source => e = f
    /\ \A e \in journal : NetOf(e.lines, Accounts) = 0
    /\ ProfitAndLoss.revenue - ProfitAndLoss.refunds + ProfitAndLoss.vat
         = Balance("1100") + Balance("1200")
    /\ \A s \in Orders : \A inv \in invoice[s] :
         LET mine == {e \in journal : e.source[1] = s /\ e.source[2] > 0}
             given == BalanceOf(mine, "2200")
             paid == -BalanceOf(mine, "1100")
             skew == 2 * (given * TotalOf(inv) - paid * TaxOf(inv))
             limit == Cardinality(mine) * TotalOf(inv)
         IN -limit <= skew /\ skew <= limit
=============================================================================
