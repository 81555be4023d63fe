------------------------------ MODULE Catalog ------------------------------
(***************************************************************************)
(* The life of a product (catalog/productService.ts with the trigger of    *)
(* 031_product_lifecycle.sql, and the two routes that insert rows of their *)
(* own): created, edited, published, withdrawn, archived and duplicated    *)
(* while goods of it are received and sold.                                *)
(*                                                                         *)
(* Transactions are READ COMMITTED.  Two of them are kept open between     *)
(* their reads and their commit, because what they read may change: the    *)
(* edit of the tracking mode and the withdrawal.  Archiving and publishing *)
(* are single steps: stock that comes between the read and the update      *)
(* might as well come after it, and what the gate asks for never goes away.*)
(* Slugs, names and images are left out, and price is zero or not.         *)
(***************************************************************************)
EXTENDS Naturals

CONSTANT Products

Tracking == {"none", "batch", "serialized"}
NoMode == "no mode"

VARIABLES
    product,   \* rows of product: status, tracking, and which timestamps are set
    variant,   \* [Products -> [price -> state of the variant of that price]]
    stock,     \* [Products -> stock_level has something on hand or reserved]
    ledger,    \* [Products -> the modes under which movements were posted]
    receipt,   \* [Products -> mode read by a receipt that has not committed]
    editing,   \* [Products -> new mode of an edit that has not committed]
    unlisting, \* products whose unpublish has read the row and not updated it
    listed,    \* history: products inserted as active by the plain route
    flipped,   \* history: products with an edit and a receipt that overlapped
    overtaken  \* history: withdrawals that archiving overtook

catalogVars == <<product, variant, stock, ledger, receipt, editing, unlisting,
                 listed, flipped, overtaken>>

Prices == {0, 1}
NoVariants == [price \in Prices |-> "absent"]
Absent == [status |-> "absent", tracking |-> "none", published |-> FALSE, archived |-> FALSE]
Exists(p) == product[p].status # "absent"

CatalogInit ==
    /\ product = [p \in Products |-> Absent]
    /\ variant = [p \in Products |-> NoVariants]
    /\ stock = [p \in Products |-> FALSE]
    /\ ledger = [p \in Products |-> {}]
    /\ receipt = [p \in Products |-> NoMode]
    /\ editing = [p \in Products |-> NoMode]
    /\ unlisting = {}
    /\ listed = {}
    /\ flipped = {}
    /\ overtaken = {}
-----------------------------------------------------------------------------
(* Creation *)

\* ProductService.create: a draft.
Create(p, mode) ==
    /\ ~Exists(p)
    /\ product' = [product EXCEPT ![p] = [Absent EXCEPT !.status = "draft", !.tracking = mode]]
    /\ UNCHANGED <<variant, stock, ledger, receipt, editing, unlisting, listed,
                   flipped, overtaken>>

\* POST /v1/products inserts the row itself, as active.
CreateListed(p, mode) ==
    /\ ~Exists(p)
    /\ product' = [product EXCEPT ![p] = [Absent EXCEPT !.status = "active", !.tracking = mode]]
    /\ listed' = listed \cup {p}
    /\ UNCHANGED <<variant, stock, ledger, receipt, editing, unlisting, flipped, overtaken>>

\* POST /v1/products/:id/variants: no stock mode yet.
AddVariant(p, price) ==
    /\ Exists(p)
    /\ variant[p][price] = "absent"
    /\ variant' = [variant EXCEPT ![p][price] = "undecided"]
    /\ UNCHANGED <<product, stock, ledger, receipt, editing, unlisting, listed,
                   flipped, overtaken>>

setVariantStockMode(p, price) ==
    /\ variant[p][price] = "undecided"
    /\ variant' = [variant EXCEPT ![p][price] = "decided"]
    /\ UNCHANGED <<product, stock, ledger, receipt, editing, unlisting, listed,
                   flipped, overtaken>>

\* The copy is a draft with the variants and their modes, and no ledger.  To
\* bound the number of products it may take the place of its original, which
\* is not followed any further then.
Duplicate(p, copy) ==
    /\ Exists(p)
    /\ copy = p \/ ~Exists(copy)
    /\ product' = [product EXCEPT ![copy] =
                      [Absent EXCEPT !.status = "draft", !.tracking = product[p].tracking]]
    /\ variant' = [variant EXCEPT ![copy] = variant[p]]
    /\ stock' = [stock EXCEPT ![copy] = FALSE]
    /\ ledger' = [ledger EXCEPT ![copy] = {}]
    /\ receipt' = [receipt EXCEPT ![copy] = NoMode]
    /\ editing' = [editing EXCEPT ![copy] = NoMode]
    /\ unlisting' = unlisting \ {copy}
    /\ listed' = listed \ {copy}
    /\ flipped' = flipped \ {copy}
    /\ overtaken' = overtaken \ {copy}
-----------------------------------------------------------------------------
(* Tracking *)

\* A mistake to compare with: only what is in stock keeps the mode.
LockedByStock(p) == stock[p]

\* The rule of assertTrackingChangeAllowed and of the trigger, which see
\* committed movements and units only.
Locked(p) == ledger[p] # {}

\* A waiting update of the row comes after the edit that holds it.
RowFree(p) == editing[p] = NoMode

StartEdit(p, mode) ==
    /\ Exists(p) /\ RowFree(p)
    /\ mode # product[p].tracking
    /\ ~Locked(p)
    /\ editing' = [editing EXCEPT ![p] = mode]
    /\ UNCHANGED <<product, variant, stock, ledger, receipt, unlisting, listed,
                   flipped, overtaken>>

CommitEdit(p) ==
    /\ editing[p] # NoMode
    /\ product' = [product EXCEPT ![p].tracking = editing[p]]
    /\ editing' = [editing EXCEPT ![p] = NoMode]
    /\ flipped' = IF receipt[p] # NoMode THEN flipped \cup {p} ELSE flipped
    /\ UNCHANGED <<variant, stock, ledger, receipt, unlisting, listed, overtaken>>

\* A receipt reads the mode, which tells whether it needs units, and posts.
StartReceipt(p) ==
    /\ Exists(p) /\ variant[p] # NoVariants
    /\ receipt[p] = NoMode
    /\ receipt' = [receipt EXCEPT ![p] = product[p].tracking]
    /\ UNCHANGED <<product, variant, stock, ledger, editing, unlisting, listed,
                   flipped, overtaken>>

CommitReceipt(p) ==
    /\ receipt[p] # NoMode
    /\ ledger' = [ledger EXCEPT ![p] = @ \cup {receipt[p]}]
    /\ stock' = [stock EXCEPT ![p] = TRUE]
    /\ receipt' = [receipt EXCEPT ![p] = NoMode]
    /\ flipped' = IF editing[p] # NoMode THEN flipped \cup {p} ELSE flipped
    /\ UNCHANGED <<product, variant, editing, unlisting, listed, overtaken>>

SellOut(p) ==
    /\ stock[p]
    /\ stock' = [stock EXCEPT ![p] = FALSE]
    /\ UNCHANGED <<product, variant, ledger, receipt, editing, unlisting, listed,
                   flipped, overtaken>>
-----------------------------------------------------------------------------
(* Publication *)

HasPrice(p) == variant[p][1] # "absent"
HasStockMode(p) == \E price \in Prices : variant[p][price] = "decided"

\* A mistake to compare with: a price is enough.
PricedOnly(p) == HasPrice(p)

\* checklistWith: the two blocking items, which two variants may satisfy.
CanPublish(p) == HasPrice(p) /\ HasStockMode(p)

Publish(p) ==
    /\ Exists(p) /\ RowFree(p)
    /\ CanPublish(p)
    /\ product' = [product EXCEPT ![p].status = "active", ![p].published = TRUE,
                                  ![p].archived = FALSE]
    /\ listed' = listed \ {p}
    /\ overtaken' = overtaken \ {p}
    /\ UNCHANGED <<variant, stock, ledger, receipt, editing, unlisting, flipped>>

\* unpublish reads the status, and updates the row whatever it is by then.
ReadListed(p) ==
    /\ product[p].status = "active"
    /\ unlisting' = unlisting \cup {p}
    /\ UNCHANGED <<product, variant, stock, ledger, receipt, editing, listed,
                   flipped, overtaken>>

Unpublish(p) ==
    /\ p \in unlisting /\ RowFree(p)
    /\ product' = [product EXCEPT ![p].status = "draft"]
    /\ unlisting' = unlisting \ {p}
    /\ listed' = listed \ {p}
    /\ overtaken' = IF product[p].archived THEN overtaken \cup {p} ELSE overtaken
    /\ UNCHANGED <<variant, stock, ledger, receipt, editing, flipped>>

Archive(p, confirm) ==
    /\ Exists(p) /\ RowFree(p)
    /\ stock[p] => confirm
    /\ product' = [product EXCEPT ![p].status = "archived", ![p].archived = TRUE]
    /\ listed' = listed \ {p}
    /\ overtaken' = overtaken \ {p}
    /\ UNCHANGED <<variant, stock, ledger, receipt, editing, unlisting, flipped>>

CatalogNext ==
    \E p \in Products :
        \/ \E mode \in Tracking : Create(p, mode) \/ CreateListed(p, mode) \/ StartEdit(p, mode)
        \/ \E price \in Prices : AddVariant(p, price) \/ setVariantStockMode(p, price)
        \/ \E copy \in Products : Duplicate(p, copy)
        \/ CommitEdit(p) \/ StartReceipt(p) \/ CommitReceipt(p) \/ SellOut(p)
        \/ Publish(p) \/ ReadListed(p) \/ Unpublish(p)
        \/ \E confirm \in BOOLEAN : Archive(p, confirm)

CatalogSpec == CatalogInit /\ [][CatalogNext]_catalogVars
-----------------------------------------------------------------------------
(* Properties *)

\* The catalogue can be relied on, as far as transactions do not overlap.
\* All movements of a product were posted under its present tracking mode,
\* unless the mode was edited during its first receipt.  What was published is
\* priced and has a stock mode, whatever became of it since.  A product that
\* was archived leaves the archive by being published, unless its withdrawal
\* had begun before.
CatalogSound ==
    \A p \in Products :
        /\ ledger[p] \subseteq {product[p].tracking} \/ p \in flipped
        /\ product[p].published => HasPrice(p) /\ HasStockMode(p)
        /\ product[p].archived => product[p].status = "archived" \/ p \in overtaken
        /\ product[p].status = "archived" => product[p].archived
=============================================================================
