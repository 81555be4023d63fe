-------------------------- MODULE BackOfficeProofs --------------------------
(* What TLAPS proves of the parts of the back office: the catalogue, who   *)
(* is signed in, the register, and what follows a sale.                    *)
EXTENDS MCBackOffice, NotificationProofs, OpsProofs

-----------------------------------------------------------------------------
(* The catalogue                                                           *)

ProductRow == [status : {"absent", "draft", "active", "archived"},
               tracking : Tracking, published : BOOLEAN, archived : BOOLEAN]
VariantRow == [Prices -> {"absent", "undecided", "decided"}]

\* Every row of the catalogue keeps its type.
CatalogTypeOK ==
    /\ product \in [Products -> ProductRow]
    /\ variant \in [Products -> VariantRow]
    /\ stock \in [Products -> BOOLEAN]
    /\ ledger \in [Products -> SUBSET Tracking]
    /\ receipt \in [Products -> Tracking \cup {NoMode}]
    /\ editing \in [Products -> Tracking \cup {NoMode}]
    /\ unlisting \subseteq Products
    /\ listed \subseteq Products
    /\ flipped \subseteq Products
    /\ overtaken \subseteq Products

\* Of a product whose edits and receipts did not overlap: a receipt under way
\* read the present mode, an edit under way found no movement, and before the
\* product exists there is none of these.
ModesRead(p) ==
    /\ receipt[p] # NoMode => receipt[p] = product[p].tracking
    /\ editing[p] # NoMode => ledger[p] = {}
    /\ ledger[p] \subseteq {product[p].tracking}
    /\ ~Exists(p) => receipt[p] = NoMode /\ editing[p] = NoMode /\ ledger[p] = {}

Published(p) ==
    /\ product[p].published => HasPrice(p) /\ HasStockMode(p)
    /\ product[p].archived => product[p].status = "archived" \/ p \in overtaken
    /\ product[p].status = "archived" => product[p].archived

Sound(p) == (p \in flipped \/ ModesRead(p)) /\ Published(p)

CatalogInv == CatalogTypeOK /\ \A p \in Products : Sound(p)

\* A step that changes the rows of one product keeps what holds of the others.
LEMMA OthersSound ==
    ASSUME CatalogInv, NEW p \in Products, CatalogTypeOK', Sound(p)',
           \A q \in Products \ {p} :
              /\ product'[q] = product[q] /\ variant'[q] = variant[q]
              /\ ledger'[q] = ledger[q] /\ receipt'[q] = receipt[q]
              /\ editing'[q] = editing[q]
              /\ q \in flipped <=> q \in flipped'
              /\ q \in overtaken <=> q \in overtaken'
    PROVE  CatalogInv'
<1>1. ASSUME NEW q \in Products \ {p} PROVE Sound(q)'
  <2>1. Sound(q)
    BY DEF CatalogInv
  <2> QED
    BY <2>1 DEF Sound, ModesRead, Published, HasPrice, HasStockMode, Exists
<1> QED BY <1>1 DEF CatalogInv

LEMMA CatalogInitially == CatalogInit => CatalogInv
<1> SUFFICES ASSUME CatalogInit PROVE CatalogInv
  OBVIOUS
<1> USE DEF CatalogInit, Absent
<1>1. CatalogTypeOK
  BY DEF CatalogTypeOK, NoVariants, Prices, Tracking, NoMode, ProductRow, VariantRow
<1>2. ASSUME NEW p \in Products PROVE Sound(p)
  BY DEF Sound, ModesRead, Published, NoMode, Exists
<1> QED BY <1>1, <1>2 DEF CatalogInv

\* A product that is created has no movements yet.
LEMMA CreationKeeps ==
    ASSUME CatalogInv, NEW p \in Products, NEW mode \in Tracking,
           Create(p, mode) \/ CreateListed(p, mode)
    PROVE  CatalogInv'
<1>1. /\ ~Exists(p)
      /\ \E s \in {"draft", "active"} :
            product' = [product EXCEPT ![p] =
              [status |-> s, tracking |-> mode, published |-> FALSE, archived |-> FALSE]]
      /\ UNCHANGED <<variant, stock, ledger, receipt, editing, unlisting, flipped, overtaken>>
      /\ listed' \subseteq listed \cup {p}
  BY DEF Create, CreateListed, Absent
<1>2. CatalogTypeOK'
  BY <1>1 DEF CatalogInv, CatalogTypeOK, ProductRow
<1>3. Sound(p)'
  <2>1. product'[p].tracking = mode /\ ~product'[p].published
        /\ ~product'[p].archived /\ product'[p].status # "archived"
    BY <1>1 DEF CatalogInv, CatalogTypeOK
  <2>2. p \in flipped \/ (receipt[p] = NoMode /\ editing[p] = NoMode /\ ledger[p] = {})
    BY <1>1 DEF CatalogInv, Sound, ModesRead
  <2> QED BY <1>1, <2>1, <2>2 DEF Sound, ModesRead, Published, Exists
<1>4. \A q \in Products \ {p} : product'[q] = product[q]
  BY <1>1 DEF CatalogInv, CatalogTypeOK
<1> QED BY <1>1, <1>2, <1>3, <1>4, OthersSound

\* A variant is only added or decided, so a product stays publishable.
LEMMA VariantsKeep ==
    ASSUME CatalogInv, NEW p \in Products, NEW price \in Prices,
           AddVariant(p, price) \/ setVariantStockMode(p, price)
    PROVE  CatalogInv'
<1>1. /\ \/ variant[p][price] = "absent" /\ variant' = [variant EXCEPT ![p][price] = "undecided"]
         \/ variant[p][price] = "undecided" /\ variant' = [variant EXCEPT ![p][price] = "decided"]
      /\ UNCHANGED <<product, stock, ledger, receipt, editing, unlisting, listed,
                     flipped, overtaken>>
  BY DEF AddVariant, setVariantStockMode
<1>2. CatalogTypeOK'
  <2>1. PICK state \in {"undecided", "decided"} :
          variant' = [variant EXCEPT ![p] = [variant[p] EXCEPT ![price] = state]]
    BY <1>1
  <2>2. [variant[p] EXCEPT ![price] = state] \in VariantRow
    BY DEF CatalogInv, CatalogTypeOK, VariantRow
  <2>3. variant' \in [Products -> VariantRow]
    BY <2>1, <2>2 DEF CatalogInv, CatalogTypeOK
  <2> QED BY <1>1, <2>3 DEF CatalogInv, CatalogTypeOK
<1>3. HasPrice(p) => HasPrice(p)'
  BY <1>1 DEF CatalogInv, CatalogTypeOK, VariantRow, HasPrice, Prices
<1>4. HasStockMode(p) => HasStockMode(p)'
  BY <1>1 DEF CatalogInv, CatalogTypeOK, VariantRow, HasStockMode, Prices
<1>5. Sound(p)'
  BY <1>1, <1>3, <1>4 DEF CatalogInv, Sound, ModesRead, Published, Exists
<1>6. \A q \in Products \ {p} : variant'[q] = variant[q]
  BY <1>1 DEF CatalogInv, CatalogTypeOK
<1> QED BY <1>1, <1>2, <1>5, <1>6, OthersSound

\* A copy has the mode and the variants of its original and no ledger.
LEMMA DuplicateKeeps ==
    ASSUME CatalogInv, NEW p \in Products, NEW copy \in Products, Duplicate(p, copy)
    PROVE  CatalogInv'
<1>1. CatalogTypeOK'
  BY DEF Duplicate, CatalogInv, CatalogTypeOK, ProductRow, Absent, NoMode
<1>2. /\ product'[copy].status = "draft"
      /\ ~product'[copy].published /\ ~product'[copy].archived
      /\ ledger'[copy] = {} /\ receipt'[copy] = NoMode /\ editing'[copy] = NoMode
  BY DEF Duplicate, CatalogInv, CatalogTypeOK, Absent
<1>3. Sound(copy)'
  BY <1>2 DEF Sound, ModesRead, Published, Exists
<1>4. \A q \in Products \ {copy} :
        /\ product'[q] = product[q] /\ variant'[q] = variant[q]
        /\ ledger'[q] = ledger[q] /\ receipt'[q] = receipt[q]
        /\ editing'[q] = editing[q]
        /\ q \in flipped <=> q \in flipped'
        /\ q \in overtaken <=> q \in overtaken'
  BY DEF Duplicate, CatalogInv, CatalogTypeOK
<1> QED BY <1>1, <1>3, <1>4, OthersSound

\* An edit finds no movement when it starts.
LEMMA EditStarts ==
    ASSUME CatalogInv, NEW p \in Products, NEW mode \in Tracking, StartEdit(p, mode)
    PROVE  CatalogInv'
<1> USE DEF CatalogInv, CatalogTypeOK
<1>1. CatalogTypeOK'
  BY DEF StartEdit
<1>2. editing'[p] = mode /\ \A q \in Products \ {p} : editing'[q] = editing[q]
  BY DEF StartEdit
<1>3. Sound(p)'
  BY <1>2 DEF StartEdit, Sound, ModesRead, Published, Exists, Locked,
     HasPrice, HasStockMode
<1> QED BY <1>1, <1>2, <1>3, OthersSound DEF StartEdit

\* No movement is posted before it commits, unless the two overlap.
LEMMA EditCommits ==
    ASSUME CatalogInv, NEW p \in Products, CommitEdit(p)
    PROVE  CatalogInv'
<1> USE DEF CatalogInv, CatalogTypeOK
<1>1. editing[p] \in Tracking
  BY DEF CommitEdit
<1>2. CatalogTypeOK'
  <2>1. product' \in [Products -> ProductRow]
    BY <1>1 DEF CommitEdit, ProductRow
  <2> QED BY <2>1 DEF CommitEdit
<1>3. product'[p] = [product[p] EXCEPT !.tracking = editing[p]] /\ editing'[p] = NoMode
  BY DEF CommitEdit
<1>4. \A q \in Products \ {p} : product'[q] = product[q] /\ editing'[q] = editing[q]
  BY DEF CommitEdit
<1>5. p \in flipped' \/ (receipt[p] = NoMode /\ ModesRead(p))
  BY DEF CommitEdit, Sound
<1>6. product[p] \in ProductRow
  OBVIOUS
<1>7. /\ product'[p].status = product[p].status
      /\ product'[p].tracking = editing[p]
      /\ product'[p].published = product[p].published
      /\ product'[p].archived = product[p].archived
  BY <1>3, <1>6 DEF ProductRow
<1>8. p \in flipped' \/ ModesRead(p)'
  BY <1>3, <1>5, <1>7 DEF CommitEdit, ModesRead, Exists
<1>9. Published(p)'
  <2>1. Published(p)
    BY DEF Sound
  <2> QED BY <1>7, <2>1 DEF CommitEdit, Published, HasPrice, HasStockMode
<1> QED BY <1>2, <1>4, <1>8, <1>9, OthersSound DEF CommitEdit, Sound

\* A receipt posts under the mode it read.
LEMMA ReceiptKeeps ==
    ASSUME CatalogInv, NEW p \in Products,
           StartReceipt(p) \/ CommitReceipt(p) \/ SellOut(p)
    PROVE  CatalogInv'
<1> USE DEF CatalogInv, CatalogTypeOK
<1>0. Sound(p)
  OBVIOUS
<1>1. CASE StartReceipt(p)
  <2>1. CatalogTypeOK'
    <3>1. product[p].tracking \in Tracking
      BY DEF ProductRow
    <3> QED BY <1>1, <3>1 DEF StartReceipt
  <2>2. /\ receipt'[p] = product[p].tracking
        /\ \A q \in Products \ {p} : receipt'[q] = receipt[q]
    BY <1>1 DEF StartReceipt
  <2>3. Sound(p)'
    BY <1>0, <1>1, <2>2 DEF StartReceipt, Sound, ModesRead, Published, Exists,
       HasPrice, HasStockMode
  <2> QED BY <1>1, <2>1, <2>2, <2>3, OthersSound DEF StartReceipt
<1>2. CASE CommitReceipt(p)
  <2>1. CatalogTypeOK'
    BY <1>2 DEF CommitReceipt
  <2>2. /\ receipt'[p] = NoMode /\ ledger'[p] = ledger[p] \cup {receipt[p]}
        /\ \A q \in Products \ {p} : receipt'[q] = receipt[q] /\ ledger'[q] = ledger[q]
    BY <1>2 DEF CommitReceipt
  <2>3. p \in flipped' \/ (editing[p] = NoMode /\ ModesRead(p))
    BY <1>0, <1>2 DEF CommitReceipt, Sound
  <2>4. p \in flipped' \/ ModesRead(p)'
    BY <1>2, <2>2, <2>3 DEF CommitReceipt, ModesRead, Exists
  <2>5. Published(p)'
    BY <1>0, <1>2 DEF CommitReceipt, Sound, Published, HasPrice, HasStockMode
  <2> QED BY <1>2, <2>1, <2>2, <2>4, <2>5, OthersSound DEF CommitReceipt, Sound
<1>3. CASE SellOut(p)
  <2>1. CatalogTypeOK'
    BY <1>3 DEF SellOut
  <2>2. Sound(p)'
    BY <1>0, <1>3 DEF SellOut, Sound, ModesRead, Published, Exists, HasPrice, HasStockMode
  <2> QED BY <1>3, <2>1, <2>2, OthersSound DEF SellOut
<1> QED BY <1>1, <1>2, <1>3

\* What the gate asks for is never taken away, and only a withdrawal that had
\* begun takes a product out of the archive without it.
LEMMA StatusKeeps ==
    ASSUME CatalogInv, NEW p \in Products, NEW confirm \in BOOLEAN,
           Publish(p) \/ ReadListed(p) \/ Unpublish(p) \/ Archive(p, confirm)
    PROVE  CatalogInv'
<1> USE DEF CatalogInv, CatalogTypeOK
<1>0. Sound(p)
  OBVIOUS
<1>1. UNCHANGED <<variant, stock, ledger, receipt, editing, flipped>>
  BY DEF Publish, ReadListed, Unpublish, Archive
<1>2. CatalogTypeOK'
  <2>1. product' \in [Products -> ProductRow]
    BY DEF Publish, ReadListed, Unpublish, Archive, ProductRow
  <2>2. unlisting' \subseteq Products /\ listed' \subseteq Products /\ overtaken' \subseteq Products
    BY DEF Publish, ReadListed, Unpublish, Archive
  <2> QED BY <1>1, <2>1, <2>2
<1>3. \A q \in Products \ {p} :
        product'[q] = product[q] /\ (q \in overtaken <=> q \in overtaken')
  BY DEF Publish, ReadListed, Unpublish, Archive
<1>4. /\ product'[p].tracking = product[p].tracking
      /\ Exists(p) => Exists(p)'
  <2>1. product[p] \in ProductRow
    OBVIOUS
  <2>2. CASE Publish(p)
    BY <2>1, <2>2 DEF Publish, Exists, ProductRow
  <2>3. CASE ReadListed(p)
    BY <2>3 DEF ReadListed, Exists
  <2>4. CASE Unpublish(p)
    BY <2>1, <2>4 DEF Unpublish, Exists, ProductRow
  <2>5. CASE Archive(p, confirm)
    BY <2>1, <2>5 DEF Archive, Exists, ProductRow
  <2> QED BY <2>2, <2>3, <2>4, <2>5
<1>5. p \in flipped' \/ ModesRead(p)'
  BY <1>0, <1>1, <1>4 DEF Sound, ModesRead
<1>6. HasPrice(p)' = HasPrice(p) /\ HasStockMode(p)' = HasStockMode(p)
  BY <1>1 DEF HasPrice, HasStockMode
<1>7. Published(p)'
  <2>1. Published(p) /\ product[p] \in ProductRow
    BY <1>0 DEF Sound
  <2>2. CASE Publish(p)
    BY <2>1, <2>2, <1>6 DEF Publish, Published, CanPublish, ProductRow
  <2>3. CASE ReadListed(p)
    BY <2>1, <2>3, <1>6 DEF ReadListed, Published
  <2>4. CASE Unpublish(p)
    BY <2>1, <2>4, <1>6 DEF Unpublish, Published, ProductRow
  <2>5. CASE Archive(p, confirm)
    BY <2>1, <2>5, <1>6 DEF Archive, Published, ProductRow
  <2> QED BY <2>2, <2>3, <2>4, <2>5
<1> QED BY <1>1, <1>2, <1>3, <1>5, <1>7, OthersSound DEF Sound

LEMMA CatalogStep == CatalogInv /\ [CatalogNext]_catalogVars => CatalogInv'
<1> SUFFICES ASSUME CatalogInv, [CatalogNext]_catalogVars PROVE CatalogInv'
  OBVIOUS
<1>1. CASE CatalogNext
  <2>1. PICK p \in Products :
          \/ \E mode \in Tracking : Create(p, mode) \/ CreateListed(p, mode) \/ StartEdit(p, mode)
          \/ \E price \in Prices : AddVariant(p, price) \/ setVariantStockMode(p, price)
          \/ \E copy \in Products : Duplicate(p, copy)
          \/ CommitEdit(p) \/ StartReceipt(p) \/ CommitReceipt(p) \/ SellOut(p)
          \/ Publish(p) \/ ReadListed(p) \/ Unpublish(p)
          \/ \E confirm \in BOOLEAN : Archive(p, confirm)
    BY <1>1 DEF CatalogNext
  <2>2. CASE \E mode \in Tracking : Create(p, mode) \/ CreateListed(p, mode) \/ StartEdit(p, mode)
    BY <2>2, CreationKeeps, EditStarts
  <2>3. CASE \E price \in Prices : AddVariant(p, price) \/ setVariantStockMode(p, price)
    BY <2>3, VariantsKeep
  <2>4. CASE \E copy \in Products : Duplicate(p, copy)
    BY <2>4, DuplicateKeeps
  <2>5. CASE CommitEdit(p) \/ StartReceipt(p) \/ CommitReceipt(p) \/ SellOut(p)
    BY <2>5, EditCommits, ReceiptKeeps
  <2>6. CASE \/ Publish(p) \/ ReadListed(p) \/ Unpublish(p)
             \/ \E confirm \in BOOLEAN : Archive(p, confirm)
    BY <2>6, StatusKeeps
  <2> QED BY <2>1, <2>2, <2>3, <2>4, <2>5, <2>6
<1>2. CASE UNCHANGED catalogVars
  BY <1>2 DEF catalogVars, CatalogInv, CatalogTypeOK, Sound, ModesRead, Published,
     HasPrice, HasStockMode, Exists
<1> QED BY <1>1, <1>2

\* However edits, receipts and changes of status overlap: a product that is
\* published has a price and a stock mode, an archived one was archived or
\* overtaken, and goods are counted in two ways only if a receipt crossed an edit.
THEOREM CatalogAlwaysSound == CatalogSpec => []CatalogSound
<1>1. CatalogInit => CatalogInv
  BY CatalogInitially
<1>2. CatalogInv /\ [CatalogNext]_catalogVars => CatalogInv'
  BY CatalogStep
<1>3. CatalogInv => CatalogSound
  BY DEF CatalogInv, Sound, ModesRead, Published, CatalogSound
<1> QED BY <1>1, <1>2, <1>3, PTL DEF CatalogSpec

-----------------------------------------------------------------------------
(* Who is signed in                                                        *)

VerifyState == [step : {"idle"}] \cup [step : {"found"}, link : Links]
         \cup [step : {"consumed"}, link : Links, email : Emails, customer : BOOLEAN]
         \cup [step : {"contact"}, email : Emails, customer : BOOLEAN]

SessionRow == [revoked : BOOLEAN, rotated_from : Nat]

StaffTypes ==
    /\ sessions \in Seq(SessionRow)
    /\ refreshing \in [Devices -> 0 .. Len(sessions)]
    /\ mfa \in [secret : Nat, enabled : BOOLEAN, proven : SUBSET Nat]
    /\ activating \in Nat
    /\ reenrolled \in BOOLEAN

ShopperTypes ==
    /\ link \in [Links -> {"none", "live", "expired", "consumed"}]
    /\ verifying \in [Shoppers -> VerifyState]
    /\ customers \in [Emails -> Nat]
    /\ minted \in [Links -> Nat]

\* A session was rotated from one of the present rows, which is revoked.
RotatedRevoked ==
    \A i \in DOMAIN sessions :
        LET from == sessions[i].rotated_from
        IN from \in 0 .. Len(sessions) /\ (from # 0 => sessions[from].revoked)

\* The secret that an activation has verified is the one that is stored, or
\* another was enrolled since.
FactorProven ==
    /\ activating # 0 => activating = mfa.secret \/ reenrolled
    /\ mfa.enabled => mfa.secret \in mfa.proven \/ reenrolled

InCommit(s) == verifying[s].step = "consumed"
Looks(s) == verifying[s].step \in {"consumed", "contact"}

\* A link that is being exchanged is not consumed yet, and by one request only.
LinksExchangedOnce ==
    /\ \A l \in Links : minted[l] = (IF link[l] = "consumed" THEN 1 ELSE 0)
    /\ \A s \in Shoppers : InCommit(s) =>
          /\ link[verifying[s].link] # "consumed"
          /\ verifying[s].email = LinkEmail[verifying[s].link]
    /\ \A s, t \in Shoppers :
          InCommit(s) /\ InCommit(t) /\ verifying[s].link = verifying[t].link => s = t

\* Unless two looked for an address at once, what the only request that looks
\* for its customers has found is still so.
CustomerKnown ==
    \A e \in Emails \ overlapped :
        /\ customers[e] <= 1
        /\ \A s, t \in Shoppers :
              /\ Looks(s) /\ verifying[s].email = e
              /\ Looks(t) /\ verifying[t].email = e
              => s = t
        /\ \A s \in Shoppers :
              Looks(s) /\ verifying[s].email = e /\ ~verifying[s].customer
              => customers[e] = 0

StaffInv == StaffTypes /\ RotatedRevoked /\ FactorProven
ShopperInv == ShopperTypes /\ LinksExchangedOnce /\ CustomerKnown
AccountInv == StaffInv /\ ShopperInv

LEMMA AccountsInitially == AccountInit => AccountInv
<1> SUFFICES ASSUME AccountInit PROVE AccountInv
  OBVIOUS
<1> USE DEF AccountInit
<1>1. StaffInv
  <2>1. /\ sessions \in Seq(SessionRow) /\ Len(sessions) = 0 /\ DOMAIN sessions = {}
    OBVIOUS
  <2>2. \A n \in Nat : 0 \in 0 .. n
    OBVIOUS
  <2>3. refreshing \in [Devices -> 0 .. Len(sessions)]
    BY <2>1, <2>2
  <2> QED BY <2>1, <2>3 DEF StaffInv, StaffTypes, RotatedRevoked, FactorProven
<1>2. ShopperTypes
  BY DEF ShopperTypes, VerifyState, Idle
<1>3. \A s \in Shoppers : ~InCommit(s) /\ ~Looks(s)
  BY DEF InCommit, Looks, Idle
<1>4. LinksExchangedOnce /\ CustomerKnown
  BY <1>3 DEF LinksExchangedOnce, CustomerKnown
<1> QED BY <1>1, <1>2, <1>4 DEF AccountInv, ShopperInv

\* One more session, from a written that is revoked with it or from none.
LEMMA SessionAdded ==
    ASSUME StaffInv, NEW from \in 0 .. Len(sessions), NEW old,
           old = IF from = 0 THEN sessions ELSE Revoked(from),
           sessions' = Append(old, [revoked |-> FALSE, rotated_from |-> from])
    PROVE  /\ sessions' \in Seq(SessionRow)
           /\ Len(sessions') = Len(sessions) + 1
           /\ RotatedRevoked'
<1>1. /\ old \in Seq(SessionRow)
      /\ Len(old) = Len(sessions)
      /\ \A i \in 1 .. Len(sessions) :
            /\ old[i].rotated_from = sessions[i].rotated_from
            /\ sessions[i].revoked => old[i].revoked
      /\ from # 0 => old[from].revoked
  <2>1. sessions \in Seq(SessionRow) /\ Len(sessions) \in Nat
    BY DEF StaffInv, StaffTypes
  <2>2. CASE from = 0
    BY <2>1, <2>2
  <2>3. CASE from # 0
    <3>1. PICK written \in SessionRow : /\ written.rotated_from = sessions[from].rotated_from
                              /\ written.revoked
                              /\ written = [sessions[from] EXCEPT !.revoked = TRUE]
      <4>1. sessions[from] \in SessionRow
        BY <2>1, <2>3
      <4> QED BY <4>1 DEF SessionRow
    <3>2. old = [sessions EXCEPT ![from] = written]
      BY <2>3, <3>1 DEF Revoked
    <3>3. from \in 1 .. Len(sessions)
      BY <2>1, <2>3
    <3>4. old \in Seq(SessionRow) /\ Len(old) = Len(sessions)
      <4>1. sessions \in [1 .. Len(sessions) -> SessionRow]
        BY <2>1
      <4>2. old \in [1 .. Len(sessions) -> SessionRow]
        BY <3>2, <4>1
      <4> QED BY <2>1, <4>2
    <3>5. \A i \in 1 .. Len(sessions) : old[i] = IF i = from THEN written ELSE sessions[i]
      BY <2>1, <3>2
    <3> QED BY <3>1, <3>3, <3>4, <3>5
  <2> QED BY <2>2, <2>3
<1>2. [revoked |-> FALSE, rotated_from |-> from] \in SessionRow
  BY DEF SessionRow, StaffInv, StaffTypes
<1>3. /\ sessions' \in Seq(SessionRow)
      /\ Len(sessions') = Len(sessions) + 1
      /\ \A i \in 1 .. Len(sessions) : sessions'[i] = old[i]
      /\ sessions'[Len(sessions) + 1] = [revoked |-> FALSE, rotated_from |-> from]
  BY <1>1, <1>2
<1>4. Len(sessions) \in Nat
  BY DEF StaffInv, StaffTypes
<1>5. ASSUME NEW i \in DOMAIN sessions'
      PROVE  /\ sessions'[i].rotated_from \in 0 .. Len(sessions')
             /\ sessions'[i].rotated_from # 0 => sessions'[sessions'[i].rotated_from].revoked
  <2>1. i = Len(sessions) + 1 \/ i \in 1 .. Len(sessions)
    BY <1>3, <1>4
  <2>2. CASE i = Len(sessions) + 1
    BY <2>2, <1>1, <1>3, <1>4
  <2>3. CASE i \in 1 .. Len(sessions)
    <3>1. LET f == sessions[i].rotated_from
          IN f \in 0 .. Len(sessions) /\ (f # 0 => sessions[f].revoked)
      BY <2>3 DEF StaffInv, StaffTypes, RotatedRevoked
    <3>2. sessions'[i].rotated_from = sessions[i].rotated_from
      BY <2>3, <1>1, <1>3
    <3> QED BY <3>1, <3>2, <1>1, <1>3, <1>4
  <2> QED BY <2>1, <2>2, <2>3
<1> QED BY <1>3, <1>5 DEF RotatedRevoked

LEMMA StaffKeeps ==
    ASSUME StaffInv, StaffNext
    PROVE  StaffInv' /\ UNCHANGED shopperVars
<1> USE DEF StaffInv
<1>1. CASE IssueFirst \/ Login
  <2>1. /\ sessions' = Append(sessions, [revoked |-> FALSE, rotated_from |-> 0])
        /\ UNCHANGED <<refreshing, mfa, activating, reenrolled, shopperVars>>
    BY <1>1 DEF IssueFirst, Login, Issue
  <2>2. Len(sessions) \in Nat
    BY DEF StaffTypes
  <2>3. /\ sessions' \in Seq(SessionRow)
        /\ Len(sessions') = Len(sessions) + 1
        /\ RotatedRevoked'
    BY <2>1, <2>2, SessionAdded
  <2> QED BY <2>1, <2>2, <2>3 DEF StaffTypes, FactorProven
<1>2. ASSUME NEW d \in Devices, Rotate(d)
      PROVE  StaffInv' /\ UNCHANGED shopperVars
  <2> DEFINE from == refreshing[d]
  <2>1. /\ from # 0
        /\ sessions' = Append(Revoked(from), [revoked |-> FALSE, rotated_from |-> from])
        /\ refreshing' = [refreshing EXCEPT ![d] = 0]
        /\ UNCHANGED <<mfa, activating, reenrolled, shopperVars>>
    BY <1>2 DEF Rotate
  <2>2. from \in 0 .. Len(sessions) /\ Len(sessions) \in Nat
    BY DEF StaffTypes
  <2>3. /\ sessions' \in Seq(SessionRow)
        /\ Len(sessions') = Len(sessions) + 1
        /\ RotatedRevoked'
    BY <2>1, <2>2, SessionAdded
  <2> QED BY <2>1, <2>2, <2>3 DEF StaffTypes, FactorProven
<1>3. CASE RegisterRow \/ RegisterOwner \/ Enroll \/ ReadSecret \/ Activate
  <2>1. UNCHANGED <<sessions, refreshing, shopperVars>>
    BY <1>3 DEF RegisterRow, RegisterOwner, Enroll, ReadSecret, Activate
  <2>2. /\ mfa' \in [secret : Nat, enabled : BOOLEAN, proven : SUBSET Nat]
        /\ activating' \in Nat /\ reenrolled' \in BOOLEAN
    <3> DEFINE Factor == [secret : Nat, enabled : BOOLEAN, proven : SUBSET Nat]
    <3>1. /\ mfa \in Factor /\ mfa.secret \in Nat /\ mfa.proven \in SUBSET Nat
          /\ mfa.enabled \in BOOLEAN /\ activating \in Nat /\ reenrolled \in BOOLEAN
          /\ mfa = [secret |-> mfa.secret, enabled |-> mfa.enabled, proven |-> mfa.proven]
      BY DEF StaffTypes
    <3>2. CASE Enroll
      <4>1. mfa' = [secret |-> mfa.secret + 1, enabled |-> FALSE, proven |-> mfa.proven]
        BY <3>1, <3>2 DEF Enroll
      <4>2. mfa' \in Factor
        BY <3>1, <4>1
      <4> QED BY <3>1, <3>2, <4>2 DEF Enroll
    <3>3. CASE Activate
      <4>1. mfa' = [secret |-> mfa.secret, enabled |-> TRUE,
                    proven |-> mfa.proven \cup {activating}]
        BY <3>1, <3>3 DEF Activate
      <4> QED BY <3>1, <3>3, <4>1 DEF Activate
    <3>4. CASE RegisterRow \/ RegisterOwner \/ ReadSecret
      BY <3>1, <3>4 DEF RegisterRow, RegisterOwner, ReadSecret
    <3> QED BY <1>3, <3>2, <3>3, <3>4
  <2>3. FactorProven'
    BY <1>3 DEF RegisterRow, RegisterOwner, Enroll, ReadSecret, Activate, StaffTypes,
                FactorProven
  <2> QED BY <2>1, <2>2, <2>3 DEF StaffTypes, RotatedRevoked
<1>4. ASSUME NEW d \in Devices, NEW i \in DOMAIN sessions, ReadSession(d, i)
      PROVE  StaffInv' /\ UNCHANGED shopperVars
  BY <1>4 DEF ReadSession, StaffTypes, RotatedRevoked, FactorProven
<1> QED BY <1>1, <1>2, <1>3, <1>4 DEF StaffNext

\* Requests that do not commit, and links that nobody exchanges.
LEMMA LinkMoves ==
    ASSUME ShopperInv, NEW l \in Links,
           requestLink(l) \/ Expire(l) \/ \E s \in Shoppers : ReadLink(s, l)
    PROVE  ShopperInv' /\ UNCHANGED staffVars
<1> USE DEF ShopperInv
<1>1. /\ link' \in [Links -> {"none", "live", "expired", "consumed"}]
      /\ \A k \in Links : link'[k] = "consumed" <=> link[k] = "consumed"
      /\ UNCHANGED <<customers, minted, overlapped, staffVars>>
  BY DEF requestLink, Expire, ReadLink, ShopperTypes
<1>2. /\ verifying' \in [Shoppers -> VerifyState]
      /\ \A s \in Shoppers : /\ InCommit(s)' <=> InCommit(s)
                             /\ Looks(s)' <=> Looks(s)
                             /\ Looks(s) => verifying'[s] = verifying[s]
                             /\ InCommit(s) => Looks(s)
  BY DEF requestLink, Expire, ReadLink, ShopperTypes, VerifyState, InCommit, Looks, Idle
<1>3. \A s \in Shoppers : InCommit(s) => verifying[s].link \in Links
  BY DEF ShopperTypes, VerifyState, InCommit
<1>4. LinksExchangedOnce'
  BY <1>1, <1>2, <1>3 DEF LinksExchangedOnce
<1>5. CustomerKnown'
  BY <1>1, <1>2 DEF CustomerKnown
<1> QED BY <1>1, <1>2, <1>4, <1>5 DEF ShopperTypes

\* What request s writes when it looks for the customers of address e.
Seeks(s, e, found) ==
    /\ ~Looks(s)
    /\ found \in VerifyState /\ found.step \in {"consumed", "contact"} /\ found.email = e
    /\ ~found.customer => customers[e] = 0
    /\ verifying' = [verifying EXCEPT ![s] = found]
    /\ overlapped' = Overlapping(e)
    /\ UNCHANGED customers

\* A search finds what is there.
LEMMA SeekingKeeps ==
    ASSUME ShopperInv, NEW s \in Shoppers, NEW e \in Emails, NEW found, Seeks(s, e, found)
    PROVE  CustomerKnown'
<1>1. /\ ~Looks(s) /\ verifying'[s] = found /\ Looks(s)'
      /\ \A t \in Shoppers \ {s} : verifying'[t] = verifying[t] /\ (Looks(t)' <=> Looks(t))
  BY DEF Seeks, ShopperInv, ShopperTypes, Looks
<1>2. e \in overlapped' \/ \A t \in Shoppers : Looks(t) => verifying[t].email # e
  BY DEF Seeks, Overlapping, LookingFor, Looks
<1>3. overlapped \subseteq overlapped' /\ customers' = customers
  BY DEF Seeks, Overlapping
<1>4. found.email = e /\ (~found.customer => customers[e] = 0)
  BY DEF Seeks
<1>5. ASSUME NEW f \in Emails \ overlapped'
      PROVE  /\ customers[f] <= 1
             /\ \A x, y \in Shoppers :
                   /\ Looks(x)' /\ verifying'[x].email = f
                   /\ Looks(y)' /\ verifying'[y].email = f
                   => x = y
             /\ \A x \in Shoppers :
                   Looks(x)' /\ verifying'[x].email = f /\ ~verifying'[x].customer
                   => customers[f] = 0
  <2>1. f \in Emails \ overlapped /\ customers[f] <= 1
    BY <1>3 DEF ShopperInv, CustomerKnown
  <2>2. CASE f # e
    BY <2>1, <2>2, <1>1, <1>4 DEF ShopperInv, CustomerKnown
  <2>3. CASE f = e
    <3>1. \A x \in Shoppers : Looks(x)' /\ verifying'[x].email = f => x = s
      BY <2>3, <1>1, <1>2
    <3> QED BY <2>1, <2>3, <3>1, <1>1, <1>4
  <2> QED BY <2>2, <2>3
<1> QED BY <1>3, <1>5 DEF CustomerKnown

\* A request that commits enters a customer only where it has found none.
LEMMA EnteringKeeps ==
    ASSUME ShopperInv, NEW s \in Shoppers, Looks(s),
           verifying' = [verifying EXCEPT ![s] = Idle],
           customers' = WithCustomer(verifying[s]), overlapped' = overlapped
    PROVE  CustomerKnown' /\ customers' \in [Emails -> Nat]
<1> USE DEF ShopperInv
<1> DEFINE v == verifying[s]
<1>1. v.email \in Emails /\ v.customer \in BOOLEAN
  BY DEF ShopperTypes, VerifyState, Looks
<1>2. customers' = IF v.customer THEN customers ELSE [customers EXCEPT ![v.email] = @ + 1]
  BY DEF WithCustomer
<1>3. customers' \in [Emails -> Nat]
  BY <1>1, <1>2 DEF ShopperTypes
<1>4. /\ ~Looks(s)'
      /\ \A t \in Shoppers \ {s} : verifying'[t] = verifying[t] /\ (Looks(t)' <=> Looks(t))
  BY DEF ShopperTypes, Looks, Idle
<1>5. ASSUME NEW f \in Emails \ overlapped
      PROVE  /\ customers'[f] <= 1
             /\ \A x, y \in Shoppers :
                   /\ Looks(x)' /\ verifying'[x].email = f
                   /\ Looks(y)' /\ verifying'[y].email = f
                   => x = y
             /\ \A x \in Shoppers :
                   Looks(x)' /\ verifying'[x].email = f /\ ~verifying'[x].customer
                   => customers'[f] = 0
  <2>1. customers[f] \in Nat
    BY DEF ShopperTypes
  <2>2. CASE f # v.email
    BY <2>1, <2>2, <1>1, <1>2, <1>4 DEF CustomerKnown, ShopperTypes
  <2>3. CASE f = v.email
    BY <2>1, <2>3, <1>1, <1>2, <1>4 DEF CustomerKnown, ShopperTypes
  <2> QED BY <2>2, <2>3
<1> QED BY <1>3, <1>5 DEF CustomerKnown

\* A link is consumed by one request, which looks for the customer.
LEMMA ConsumeKeeps ==
    ASSUME ShopperInv, NEW s \in Shoppers, Consume(s)
    PROVE  ShopperInv' /\ UNCHANGED staffVars
<1> USE DEF ShopperInv
<1> DEFINE l == verifying[s].link
           e == LinkEmail[l]
           written == [step |-> "consumed", link |-> l, email |-> e, customer |-> customers[e] > 0]
<1>1. /\ verifying[s].step = "found"
      /\ Consuming(l) = {} /\ link[l] # "consumed"
      /\ verifying' = [verifying EXCEPT ![s] = written]
      /\ overlapped' = Overlapping(e)
      /\ UNCHANGED <<link, customers, minted, staffVars>>
  BY DEF Consume, Unconsumed
<1>2. l \in Links /\ e \in Emails /\ written \in VerifyState
  BY <1>1 DEF ShopperTypes, VerifyState, Emails
<1>3. /\ ShopperTypes'
      /\ ~InCommit(s) /\ InCommit(s)' /\ verifying'[s] = written
      /\ \A t \in Shoppers \ {s} : /\ verifying'[t] = verifying[t]
                                   /\ InCommit(t)' <=> InCommit(t)
  BY <1>1, <1>2 DEF ShopperTypes, InCommit
<1>4. \A t \in Shoppers : InCommit(t) => verifying[t].link # l
  BY <1>1 DEF Consuming, InCommit
<1>5. LinksExchangedOnce'
  BY <1>1, <1>2, <1>3, <1>4 DEF LinksExchangedOnce
<1>6. CustomerKnown'
  <2>1. customers[e] \in Nat
    BY <1>2 DEF ShopperTypes
  <2>2. ~(customers[e] > 0) => customers[e] = 0
    BY <2>1
  <2>3. ~written.customer => customers[e] = 0
    BY <2>2, Zenon
  <2>4. ~Looks(s)
    BY <1>1 DEF Looks
  <2>5. Seeks(s, e, written)
    BY <1>1, <1>2, <2>3, <2>4 DEF Seeks
  <2> QED BY <1>2, <2>5, SeekingKeeps
<1> QED BY <1>1, <1>3, <1>5, <1>6

\* A shopper is signed in.
LEMMA SignInKeeps ==
    ASSUME ShopperInv, NEW s \in Shoppers, SignIn(s)
    PROVE  ShopperInv' /\ UNCHANGED staffVars
<1> USE DEF ShopperInv
<1> DEFINE v == verifying[s]
<1>1. /\ v.step = "consumed"
      /\ link' = [link EXCEPT ![v.link] = "consumed"]
      /\ customers' = WithCustomer(v)
      /\ minted' = [minted EXCEPT ![v.link] = @ + 1]
      /\ verifying' = [verifying EXCEPT ![s] = Idle]
      /\ UNCHANGED <<overlapped, staffVars>>
  BY DEF SignIn
<1>2. v.link \in Links /\ InCommit(s) /\ Looks(s)
  BY <1>1 DEF ShopperTypes, VerifyState, InCommit, Looks
<1>3. CustomerKnown' /\ customers' \in [Emails -> Nat]
  BY <1>1, <1>2, EnteringKeeps
<1>4. ShopperTypes'
  BY <1>1, <1>2, <1>3 DEF ShopperTypes, VerifyState, Idle
<1>5. /\ ~InCommit(s)'
      /\ \A t \in Shoppers \ {s} : /\ verifying'[t] = verifying[t]
                                   /\ InCommit(t)' <=> InCommit(t)
  BY <1>1 DEF ShopperTypes, InCommit, Idle
<1>6. LinksExchangedOnce'
  BY <1>1, <1>2, <1>5 DEF LinksExchangedOnce, ShopperTypes
<1> QED BY <1>1, <1>3, <1>4, <1>6

\* An order looks for its customer.
LEMMA ContactKeeps ==
    ASSUME ShopperInv, NEW s \in Shoppers, NEW e \in Emails, FindContact(s, e)
    PROVE  ShopperInv' /\ UNCHANGED staffVars
<1> USE DEF ShopperInv
<1>1. PICK found \in {customers[e] > 0, TRUE} :
          /\ verifying' = [verifying EXCEPT ![s] =
                              [step |-> "contact", email |-> e, customer |-> found]]
          /\ verifying[s] = Idle /\ overlapped' = Overlapping(e)
          /\ UNCHANGED <<link, customers, minted, staffVars>>
  BY DEF FindContact
<1> DEFINE written == [step |-> "contact", email |-> e, customer |-> found]
<1>2. written \in VerifyState
  <2>1. (customers[e] > 0) \in BOOLEAN
    OBVIOUS
  <2>2. found \in BOOLEAN
    BY <2>1
  <2> QED BY <2>2 DEF VerifyState
<1>3. ~found => customers[e] = 0
  <2>1. customers[e] \in Nat
    BY DEF ShopperTypes
  <2>2. ~(customers[e] > 0) => customers[e] = 0
    BY <2>1
  <2> QED BY <2>2, Zenon
<1>4. ~Looks(s) /\ ~InCommit(s)
  BY <1>1 DEF Looks, InCommit, Idle
<1>5. Seeks(s, e, written)
  BY <1>1, <1>2, <1>3, <1>4 DEF Seeks
<1>6. CustomerKnown'
  BY <1>5, SeekingKeeps
<1>7. /\ ~InCommit(s)'
      /\ \A t \in Shoppers \ {s} : /\ verifying'[t] = verifying[t]
                                   /\ InCommit(t)' <=> InCommit(t)
  BY <1>1 DEF ShopperTypes, InCommit
<1>8. LinksExchangedOnce'
  BY <1>1, <1>4, <1>7 DEF LinksExchangedOnce
<1>9. ShopperTypes'
  BY <1>1, <1>2 DEF ShopperTypes
<1> QED BY <1>1, <1>6, <1>8, <1>9

\* A request that signs nobody in goes away, with its order or without.
LEMMA GoingKeeps ==
    ASSUME ShopperInv, NEW s \in Shoppers, TooLate(s) \/ SignInFails(s) \/ PlaceOrder(s)
    PROVE  ShopperInv' /\ UNCHANGED staffVars
<1> USE DEF ShopperInv
<1>1. /\ verifying' = [verifying EXCEPT ![s] = Idle]
      /\ UNCHANGED <<link, minted, overlapped, staffVars>>
  BY DEF TooLate, SignInFails, PlaceOrder
<1>2. CustomerKnown' /\ customers' \in [Emails -> Nat]
  <2>1. CASE PlaceOrder(s)
    <3>1. Looks(s)
      BY <2>1 DEF PlaceOrder, Looks
    <3> QED BY <2>1, <3>1, <1>1, EnteringKeeps DEF PlaceOrder
  <2>2. CASE TooLate(s) \/ SignInFails(s)
    <3>1. customers' = customers
      BY <2>2 DEF TooLate, SignInFails
    <3>2. /\ ~Looks(s)'
          /\ \A t \in Shoppers \ {s} : verifying'[t] = verifying[t] /\ (Looks(t)' <=> Looks(t))
      BY <1>1 DEF ShopperTypes, Looks, Idle
    <3> QED BY <1>1, <3>1, <3>2 DEF CustomerKnown, ShopperTypes
  <2> QED BY <2>1, <2>2
<1>3. ShopperTypes'
  BY <1>1, <1>2 DEF ShopperTypes, VerifyState, Idle
<1>4. /\ ~InCommit(s)'
      /\ \A t \in Shoppers \ {s} : /\ verifying'[t] = verifying[t]
                                   /\ InCommit(t)' <=> InCommit(t)
  BY <1>1 DEF ShopperTypes, InCommit, Idle
<1>5. LinksExchangedOnce'
  BY <1>1, <1>4 DEF LinksExchangedOnce
<1> QED BY <1>1, <1>2, <1>3, <1>5

\* A clerk enters a customer.
LEMMA ClerkKeeps ==
    ASSUME ShopperInv, NEW e \in Emails, AddCustomer(e)
    PROVE  ShopperInv' /\ UNCHANGED staffVars
<1> USE DEF ShopperInv
<1>1. /\ customers' = [customers EXCEPT ![e] = @ + 1]
      /\ overlapped' = IF customers[e] = 0 THEN Overlapping(e) ELSE overlapped \cup {e}
      /\ UNCHANGED <<link, verifying, minted, staffVars>>
  BY DEF AddCustomer
<1>2. ShopperTypes' /\ LinksExchangedOnce'
  BY <1>1 DEF ShopperTypes, LinksExchangedOnce, InCommit
<1>3. overlapped \subseteq overlapped' /\ \A t \in Shoppers : Looks(t)' <=> Looks(t)
  BY <1>1 DEF Overlapping, Looks
<1>4. \/ e \in overlapped'
      \/ customers[e] = 0 /\ \A t \in Shoppers : Looks(t) => verifying[t].email # e
  BY <1>1 DEF Overlapping, LookingFor, Looks
<1>5. /\ customers'[e] = customers[e] + 1
      /\ \A f \in Emails \ {e} : customers'[f] = customers[f]
  BY <1>1 DEF ShopperTypes
<1>6. ASSUME NEW f \in Emails \ overlapped'
      PROVE  /\ customers'[f] <= 1
             /\ \A x, y \in Shoppers :
                   /\ Looks(x) /\ verifying[x].email = f
                   /\ Looks(y) /\ verifying[y].email = f
                   => x = y
             /\ \A x \in Shoppers :
                   Looks(x) /\ verifying[x].email = f /\ ~verifying[x].customer
                   => customers'[f] = 0
  <2>1. CASE f # e
    BY <2>1, <1>3, <1>5 DEF CustomerKnown
  <2>2. CASE f = e
    BY <2>2, <1>4, <1>5
  <2> QED BY <2>1, <2>2
<1>7. CustomerKnown'
  BY <1>1, <1>3, <1>6 DEF CustomerKnown
<1> QED BY <1>1, <1>2, <1>7

LEMMA AccountStep == AccountInv /\ [AccountNext]_accountVars => AccountInv'
<1> SUFFICES ASSUME AccountInv, [AccountNext]_accountVars PROVE AccountInv'
  OBVIOUS
<1> USE DEF AccountInv
<1>1. ASSUME UNCHANGED shopperVars PROVE ShopperInv'
  BY <1>1 DEF shopperVars, ShopperInv, ShopperTypes, LinksExchangedOnce, CustomerKnown, InCommit,
              Looks
<1>2. ASSUME UNCHANGED staffVars PROVE StaffInv'
  BY <1>2 DEF staffVars, StaffInv, StaffTypes, RotatedRevoked, FactorProven
<1>3. CASE StaffNext
  BY <1>1, <1>3, StaffKeeps
<1>4. CASE ShopperNext
  BY <1>2, <1>4, LinkMoves, ConsumeKeeps, SignInKeeps, ContactKeeps, GoingKeeps, ClerkKeeps
     DEF ShopperNext
<1>5. CASE UNCHANGED accountVars
  BY <1>1, <1>2, <1>5 DEF accountVars, staffVars, shopperVars
<1> QED BY <1>3, <1>4, <1>5 DEF AccountNext

\* Any number of shoppers and devices at once: a link is exchanged for one
\* session at most, an address has two customers only if two looked for it at
\* once or a clerk entered one that was there, a rotated session is revoked, and
\* the second factor that login asks for was proven or enrolled during an
\* activation.
THEOREM SessionsAreTraceable == AccountSpec => []SessionsTraceable
<1>1. AccountInit => AccountInv
  BY AccountsInitially
<1>2. AccountInv /\ [AccountNext]_accountVars => AccountInv'
  BY AccountStep
<1>3. AccountInv => SessionsTraceable
  <2> SUFFICES ASSUME AccountInv PROVE SessionsTraceable
    OBVIOUS
  <2>1. \A e \in Emails : customers[e] > 1 => e \in overlapped
    BY DEF AccountInv, ShopperInv, CustomerKnown, ShopperTypes
  <2> QED BY <2>1 DEF AccountInv, StaffInv, ShopperInv, RotatedRevoked, FactorProven,
             LinksExchangedOnce, SessionsTraceable
<1> QED BY <1>1, <1>2, <1>3, PTL DEF AccountSpec

-----------------------------------------------------------------------------
(* The register                                                            *)

\* What the checks found, and what the locks keep until the commit.
MayBook(s) ==
    /\ rung[s] # -1 /\ ~booked[s]
    /\ DiscountAllowed(s) /\ PhoneFree(s) /\ PaymentsMatch(s)
    /\ PointsCover(s) /\ CardCovers(s) /\ CreditCovers(s)
    /\ CashOf(s) > 0 => open.session # NoSession

\* A transaction is open for a sale that may be booked, with a session that is
\* open or was closed behind its back.
OpenSound ==
    /\ open.sale # NoSale => MayBook(open.sale)
    /\ open.session # NoSession =>
          /\ open.sale # NoSale
          /\ \/ session[open.session] = "open"
             \/ session[open.session] = "closed" /\ <<open.sale, open.session>> \in straddled

\* A booked sale was rung up and paid; nothing is earned and no cash lies in a
\* drawer for another.
BookedPaid ==
    \A s \in Sales :
        /\ booked[s] => rung[s] # -1 /\ PaymentsMatch(s) /\ (Bill[s].phone => soldTo = s)
        /\ ~booked[s] => earned[s] = 0 /\ cashIn[s] = NoSession

\* Sessions are opened once, and straddled ones are closed.
DrawersSound ==
    /\ \A x \in opening : session[x] = "none"
    /\ \A s \in Sales, x \in Sessions : <<s, x>> \in straddled => session[x] = "closed"

CardNotIssued == cardStatus = "none" => issued["gift"] = 0

TillInv ==
    /\ TillTypeOK /\ OpenSound /\ BookedPaid /\ DrawersSound /\ CardNotIssued
    /\ WalletsBalance /\ PhoneSoldOnce /\ DrawerAccounted

-----------------------------------------------------------------------------
(* Amounts                                                                 *)

LEMMA QuotientIsNat ==
    ASSUME NEW n \in Nat, NEW d \in Nat \ {0}
    PROVE  n \div d \in Nat /\ (n < d => n \div d = 0)
OBVIOUS

LEMMA BillsAre ==
    ASSUME NEW s \in Sales
    PROVE  /\ Bill[s].quantity \in Nat \ {0} /\ Bill[s].discount \in Nat
           /\ Bill[s].points \in Nat /\ Bill[s].gift \in Nat /\ Bill[s].credit \in Nat
           /\ Bill[s].phone \in BOOLEAN /\ Bill[s].account \in BOOLEAN
BY TillAssumption DEF PosSaleInput

LEMMA DebitsAre ==
    ASSUME NEW s \in Sales, NEW w \in Wallets
    PROVE  /\ Due(w, s) \in Nat /\ Debit(w, s) \in Nat
           /\ Due(w, s) = 0 => Debit(w, s) = 0
<1>1. Due(w, s) \in Nat
  BY BillsAre DEF Due
<1>2. PointWorth \in Nat \ {0}
  BY TillAssumption
<1> DEFINE fils == Due(w, s)
<1>3. fils \in Nat
  BY <1>1
<1> HIDE DEF fils
<1>4. fils + PointWorth - 1 \in Nat
  BY <1>2, <1>3
<1>5. PointsFor(fils) \in Nat /\ (fils = 0 => PointsFor(fils) = 0)
  <2> DEFINE n == fils + PointWorth - 1
  <2>1. n \in Nat /\ (fils = 0 => n < PointWorth)
    BY <1>2, <1>3, <1>4
  <2> HIDE DEF n
  <2>2. n \div PointWorth \in Nat /\ (n < PointWorth => n \div PointWorth = 0)
    BY <1>2, <2>1, QuotientIsNat
  <2> QED BY <2>1, <2>2 DEF PointsFor, n
<1> QED BY <1>3, <1>5 DEF Debit, fils

LEMMA PricesAre ==
    ASSUME TillTypeOK, NEW s \in Sales
    PROVE  Effective(s) \in Nat
<1> DEFINE reached == {q \in DOMAIN Tiers : q <= Bill[s].quantity}
           highest == {q \in reached : \A r \in reached : r <= q}
<1>1. Retail \in Nat
  BY TillAssumption DEF Retail
<1>2. CASE highest # {}
  <2> DEFINE tier == CHOOSE q \in highest : TRUE
  <2>1. tier \in DOMAIN Tiers
    BY <1>2
  <2>2. Tiers[tier] \in Nat
    BY <2>1, TillAssumption
  <2> QED BY <1>1, <2>2 DEF Effective
<1>3. CASE highest = {}
  BY <1>1, <1>3 DEF Effective
<1> QED BY <1>2, <1>3

LEMMA TotalsAre ==
    ASSUME TillTypeOK, NEW s \in Sales, rung[s] # -1
    PROVE  /\ Gross(s) \in Nat
           /\ BillTotal(s) \in Int /\ CashOf(s) \in Int
           /\ PaymentsMatch(s) => CashOf(s) \in Nat /\ Accrued(s) \in Nat
<1>1. rung[s] \in Nat
  BY DEF TillTypeOK
<1>2. Gross(s) \in Nat
  <2> DEFINE q == Bill[s].quantity
  <2>1. q \in Nat
    BY BillsAre
  <2> HIDE DEF q
  <2>2. rung[s] * q \in Nat
    BY <1>1, <2>1
  <2> QED BY <2>2 DEF Gross, q
<1>3. /\ BillTotal(s) \in Int
      /\ BillTotal(s) = CashOf(s) + Bill[s].points + Bill[s].gift + Bill[s].credit
      /\ CashOf(s) \in Int
  BY <1>2, BillsAre DEF BillTotal, CashOf
<1>4. ASSUME PaymentsMatch(s) PROVE CashOf(s) \in Nat /\ Accrued(s) \in Nat
  <2>1. CashOf(s) \in Nat
    BY <1>3, <1>4 DEF PaymentsMatch
  <2> DEFINE n == BillTotal(s) - Bill[s].points
  <2>2. n \in Nat
    BY <1>3, <2>1, BillsAre
  <2> HIDE DEF n
  <2>3. n \div EarnPer \in Nat
    BY <2>2, QuotientIsNat, TillAssumption
  <2> QED BY <2>1, <2>3 DEF Accrued, n
<1> QED BY <1>2, <1>3, <1>4

-----------------------------------------------------------------------------
(* The bill of a sale is fixed when it is rung up                          *)

LEMMA AmountsStay ==
    ASSUME NEW s \in Sales, rung'[s] = rung[s]
    PROVE  /\ CashOf(s)' = CashOf(s) /\ (PaymentsMatch(s)' <=> PaymentsMatch(s))
           /\ Accrued(s)' = Accrued(s) /\ (OverBand(s)' <=> OverBand(s))
BY DEF CashOf, PaymentsMatch, Accrued, OverBand, BillTotal, Gross

LEMMA DebitsStay ==
    ASSUME NEW s \in Sales, NEW w \in Wallets
    PROVE  Debit(w, s)' = Debit(w, s)
BY DEF Debit, Due, PointsFor

-----------------------------------------------------------------------------
(* The steps                                                               *)

LEMMA TillInitially == TillInit => TillInv
<1> SUFFICES ASSUME TillInit PROVE TillInv
  OBVIOUS
<1> USE DEF TillInit
<1>1. TillTypeOK
  BY DEF TillTypeOK, NoTx
<1>2. /\ OpenSound /\ BookedPaid /\ DrawersSound /\ PhoneSoldOnce /\ DrawerAccounted
      /\ CardNotIssued
  BY DEF OpenSound, BookedPaid, DrawersSound, PhoneSoldOnce, DrawerAccounted, NoTx,
     CardNotIssued, Wallets
<1>3. WalletsBalance
  <2>1. IsFiniteSet(Sales)
    BY TillAssumption
  <2>2. SumOf(earned, Sales) = 0
    BY <2>1, SumZero
  <2>3. \A w \in Wallets : SumOf(debited[w], Sales) = 0
    <3> TAKE w \in Wallets
    <3> DEFINE none == debited[w]
    <3>1. \A s \in Sales : none[s] = 0
      OBVIOUS
    <3> HIDE DEF none
    <3> QED BY <3>1, <2>1, SumZero DEF none
  <2> QED BY <2>2, <2>3 DEF WalletsBalance, Wallets
<1> QED BY <1>1, <1>2, <1>3 DEF TillInv

\* The wallets and what is booked stay.
LEMMA WalletsStay ==
    ASSUME WalletsBalance, CardNotIssued, UNCHANGED <<walletVars, booked>>
    PROVE  WalletsBalance' /\ CardNotIssued'
<1>1. UNCHANGED <<balance, cardStatus, debited, earned, issued, booked>>
  BY DEF walletVars
<1> QED BY <1>1, DebitsStay DEF WalletsBalance, CardNotIssued

LEMMA RingKeeps ==
    ASSUME TillInv, NEW s \in Sales, Ring(s)
    PROVE  TillInv'
<1> USE DEF TillInv
<1>1. /\ rung[s] = -1 /\ rung' = [rung EXCEPT ![s] = Effective(s)]
      /\ UNCHANGED <<promo, approval, soldTo, booked, cashIn, open, walletVars, drawerVars>>
      /\ UNCHANGED <<balance, cardStatus, debited, earned, issued>>
      /\ UNCHANGED <<opening, session, expected, straddled>>
  BY DEF Ring, walletVars, drawerVars
<1>2. \A t \in Sales \ {s} : rung'[t] = rung[t]
  BY <1>1 DEF TillTypeOK
<1>3. \A t \in Sales : booked[t] => t # s
  BY <1>1 DEF BookedPaid
<1>4. open.sale # NoSale => open.sale \in Sales \ {s}
  BY <1>1 DEF OpenSound, MayBook, TillTypeOK
<1>5. TillTypeOK'
  BY <1>1, PricesAre DEF TillTypeOK
<1>6. OpenSound'
  <2>1. CASE open.sale = NoSale
    BY <2>1, <1>1 DEF OpenSound
  <2>2. CASE open.sale # NoSale
    <3> DEFINE o == open.sale
    <3>1. rung'[o] = rung[o] /\ o \in Sales /\ MayBook(o)
      BY <2>2, <1>2, <1>4 DEF OpenSound
    <3>2. /\ CashOf(o)' = CashOf(o) /\ (PaymentsMatch(o)' <=> PaymentsMatch(o))
          /\ (OverBand(o)' <=> OverBand(o))
      BY <3>1, <1>1, AmountsStay
    <3>3. /\ PointsCover(o)' <=> PointsCover(o)
          /\ CardCovers(o)' <=> CardCovers(o)
          /\ CreditCovers(o)' <=> CreditCovers(o)
          /\ PhoneFree(o)' <=> PhoneFree(o)
      BY <1>1, DebitsStay, <3>1 DEF PointsCover, CardCovers, CreditCovers, PhoneFree, Debit, Due, PointsFor
    <3>4. MayBook(o)'
      BY <3>1, <3>2, <3>3, <1>1 DEF MayBook, DiscountAllowed
    <3> QED BY <3>4, <1>1, <2>2 DEF OpenSound
  <2> QED BY <2>1, <2>2
<1>7. BookedPaid'
  <2> SUFFICES ASSUME NEW t \in Sales
               PROVE  /\ booked[t] => rung'[t] # -1 /\ PaymentsMatch(t)'
                                      /\ (Bill[t].phone => soldTo = t)
                      /\ ~booked[t] => earned[t] = 0 /\ cashIn[t] = NoSession
    BY <1>1 DEF BookedPaid
  <2>1. CASE booked[t]
    <3>1. rung'[t] = rung[t]
      BY <2>1, <1>2, <1>3
    <3>2. PaymentsMatch(t)' <=> PaymentsMatch(t)
      BY <3>1, AmountsStay
    <3> QED BY <2>1, <3>1, <3>2 DEF BookedPaid
  <2>2. CASE ~booked[t]
    BY <2>2 DEF BookedPaid
  <2> QED BY <2>1, <2>2
<1>8. DrawersSound'
  BY <1>1 DEF DrawersSound
<1>9. WalletsBalance' /\ CardNotIssued'
  BY <1>1, WalletsStay
<1>10. PhoneSoldOnce'
  <2>1. \A t \in Sales : booked[t] => (OverBand(t)' <=> OverBand(t))
    BY <1>2, <1>3, AmountsStay
  <2> QED BY <1>1, <2>1 DEF PhoneSoldOnce
<1>11. DrawerAccounted'
  <2>1. \A t \in Sales : booked[t] => CashOf(t)' = CashOf(t)
    BY <1>2, <1>3, AmountsStay
  <2>2. ASSUME NEW x \in Sessions
        PROVE  LET told == {t \in Sales : cashIn[t] = x /\ <<t, x>> \notin straddled}
               IN SumOf(CashTaken', told) = SumOf(CashTaken, told)
    <3> DEFINE told == {t \in Sales : cashIn[t] = x /\ <<t, x>> \notin straddled}
    <3>1. \A t \in told : booked[t] /\ t \in Sales
      BY TillAssumption DEF BookedPaid
    <3>2. \A t \in told : CashTaken'[t] = CashTaken[t]
      BY <2>1, <3>1 DEF CashTaken
    <3> HIDE DEF told
    <3>3. SumOf(CashTaken', told) = SumOf(CashTaken, told)
      BY <3>2, SumSame
    <3> QED BY <3>3 DEF told
  <2>3. \A t \in Sales : booked[t] /\ CashOf(t)' > 0 => cashIn[t] # NoSession
    BY <2>1 DEF DrawerAccounted
  <2> QED BY <1>1, <2>2, <2>3 DEF DrawerAccounted
<1> QED BY <1>5, <1>6, <1>7, <1>8, <1>9, <1>10, <1>11

\* The amounts of every sale stay where nothing is rung up.
LEMMA AllAmountsStay ==
    ASSUME UNCHANGED rung
    PROVE  /\ \A s \in Sales : /\ CashOf(s)' = CashOf(s)
                               /\ PaymentsMatch(s)' <=> PaymentsMatch(s)
                               /\ Accrued(s)' = Accrued(s)
                               /\ OverBand(s)' <=> OverBand(s)
           /\ CashTaken' = CashTaken
<1>1. \A s \in Sales : rung'[s] = rung[s]
  OBVIOUS
<1>2. \A s \in Sales : /\ CashOf(s)' = CashOf(s)
                       /\ PaymentsMatch(s)' <=> PaymentsMatch(s)
                       /\ Accrued(s)' = Accrued(s)
                       /\ OverBand(s)' <=> OverBand(s)
  BY <1>1, AmountsStay
<1>3. CashTaken' = CashTaken
  BY <1>2 DEF CashTaken
<1> QED BY <1>2, <1>3

\* What a sale may do stays while the rows it has read or locked do.
LEMMA MayBookStays ==
    ASSUME NEW s \in Sales, MayBook(s),
           UNCHANGED <<rung, booked, soldTo>>,
           approval = "approved" => approval' = "approved",
           Due("points", s) > 0 => balance'["points"] = balance["points"],
           Due("gift", s) > 0 => /\ balance'["gift"] = balance["gift"]
                                 /\ cardStatus' = cardStatus,
           Due("credit", s) > 0 => balance'["credit"] = balance["credit"],
           open'.session = open.session
    PROVE  MayBook(s)'
<1>1. /\ CashOf(s)' = CashOf(s)
      /\ PaymentsMatch(s)' <=> PaymentsMatch(s)
      /\ OverBand(s)' <=> OverBand(s)
  BY AllAmountsStay
<1>2. /\ Due("points", s) = Bill[s].points /\ Due("gift", s) = Bill[s].gift
      /\ Due("credit", s) = Bill[s].credit
  BY DEF Due
<1>3. DiscountAllowed(s)' /\ PhoneFree(s)'
  BY <1>1 DEF MayBook, DiscountAllowed, PhoneFree
<1>4. Debit("points", s)' = Debit("points", s)
  BY DebitsStay DEF Wallets
<1>5. PointsCover(s)'
  BY <1>2, <1>4 DEF MayBook, PointsCover
<1>6. CardCovers(s)' /\ CreditCovers(s)'
  BY <1>2 DEF MayBook, CardCovers, CreditCovers
<1> QED BY <1>1, <1>3, <1>5, <1>6 DEF MayBook

\* The transaction that is open stays, and the sessions with it.
LEMMA OpenStays ==
    ASSUME OpenSound, UNCHANGED <<open, session, straddled>>,
           open.sale # NoSale => MayBook(open.sale)'
    PROVE  OpenSound'
BY DEF OpenSound

\* What was booked stays, and so do the drawers.
LEMMA BookingsStay ==
    ASSUME TillInv, UNCHANGED <<rung, booked, soldTo, cashIn, earned>>,
           approval = "approved" => approval' = "approved"
    PROVE  BookedPaid' /\ PhoneSoldOnce'
<1>1. \A s \in Sales : /\ PaymentsMatch(s)' <=> PaymentsMatch(s)
                       /\ OverBand(s)' <=> OverBand(s)
  BY AllAmountsStay
<1> QED BY <1>1 DEF TillInv, BookedPaid, PhoneSoldOnce

LEMMA DrawersStay ==
    ASSUME TillInv, UNCHANGED <<rung, booked, cashIn, drawerVars>>
    PROVE  DrawersSound' /\ DrawerAccounted'
<1>1. UNCHANGED <<opening, session, expected, straddled>>
  BY DEF drawerVars
<1>2. \A s \in Sales : CashOf(s)' = CashOf(s)
  BY AllAmountsStay
<1>3. CashTaken' = CashTaken
  BY AllAmountsStay
<1> QED BY <1>1, <1>2, <1>3 DEF TillInv, DrawersSound, DrawerAccounted

LEMMA BookKeeps ==
    ASSUME TillInv, NEW s \in Sales, Book(s)
    PROVE  TillInv'
<1> USE DEF TillInv
<1>1. /\ rung[s] # -1 /\ open = NoTx /\ Refused(s) = {}
      /\ UNCHANGED <<promo, rung, approval, soldTo, booked, cashIn, walletVars, drawerVars>>
      /\ UNCHANGED <<balance, cardStatus, debited, earned, issued>>
      /\ UNCHANGED <<opening, session, expected, straddled>>
  BY DEF Book, walletVars, drawerVars
<1>2. PICK x \in IF OpenSessions = {} THEN {NoSession} ELSE OpenSessions :
          open' = [sale |-> s, session |-> x]
  BY DEF Book
<1>3. \A i \in 1 .. 9 : Checks(s)[i].ok
  BY <1>1 DEF Refused, Checks
<1>4. /\ DiscountAllowed(s) /\ PhoneFree(s) /\ PaymentsMatch(s) /\ ~booked[s]
      /\ PointsCover(s) /\ CardCovers(s) /\ CreditCovers(s)
      /\ CashOf(s) > 0 => OpenSessions # {}
  <2>1. /\ Checks(s)[2].ok = DiscountAllowed(s) /\ Checks(s)[3].ok = PhoneFree(s)
        /\ Checks(s)[4].ok = PaymentsMatch(s) /\ Checks(s)[5].ok = ~booked[s]
        /\ Checks(s)[6].ok = PointsCover(s) /\ Checks(s)[7].ok = CardCovers(s)
        /\ Checks(s)[8].ok = CreditCovers(s)
        /\ Checks(s)[9].ok = (CashOf(s) > 0 => OpenSessions # {})
    BY DEF Checks
  <2>2. /\ Checks(s)[2].ok /\ Checks(s)[3].ok /\ Checks(s)[4].ok /\ Checks(s)[5].ok
        /\ Checks(s)[6].ok /\ Checks(s)[7].ok /\ Checks(s)[8].ok /\ Checks(s)[9].ok
    BY <1>3
  <2> QED BY <2>1, <2>2, Zenon
<1>5. x # NoSession => x \in Sessions /\ session[x] = "open"
  BY <1>2 DEF OpenSessions
<1>6. TillTypeOK'
  BY <1>1, <1>2, <1>5 DEF TillTypeOK
<1>7. OpenSound'
  <2>1. CashOf(s) > 0 => x # NoSession
    BY <1>2, <1>4, TillAssumption DEF OpenSessions
  <2>2. /\ CashOf(s)' = CashOf(s)
        /\ PaymentsMatch(s)' <=> PaymentsMatch(s)
        /\ OverBand(s)' <=> OverBand(s)
    BY <1>1, AllAmountsStay
  <2>3. PointsCover(s)' <=> PointsCover(s)
    BY <1>1, DebitsStay DEF PointsCover, Wallets
  <2>4. MayBook(s)'
    BY <1>1, <1>2, <1>4, <2>1, <2>2, <2>3 DEF MayBook, DiscountAllowed, PhoneFree, CardCovers, CreditCovers
  <2>5. s # NoSale
    BY TillAssumption
  <2> QED BY <1>1, <1>2, <1>5, <2>4, <2>5 DEF OpenSound
<1>8. WalletsBalance' /\ CardNotIssued'
  BY <1>1, WalletsStay
<1>9. BookedPaid' /\ PhoneSoldOnce'
  BY <1>1, BookingsStay
<1>10. DrawersSound' /\ DrawerAccounted'
  BY <1>1, DrawersStay
<1> QED BY <1>6, <1>7, <1>8, <1>9, <1>10

\* The connection breaks, a promotion turns, a discount is asked for or decided.
LEMMA CounterKeeps ==
    ASSUME TillInv, RollBack \/ PromoTurns \/ RequestDiscount \/ DecideDiscount
    PROVE  TillInv'
<1> USE DEF TillInv
<1>1. /\ UNCHANGED <<rung, soldTo, booked, cashIn, walletVars, drawerVars>>
      /\ UNCHANGED <<balance, cardStatus, debited, earned, issued>>
      /\ UNCHANGED <<opening, session, expected, straddled>>
      /\ approval = "approved" => approval' = "approved"
      /\ open' \in {open, NoTx}
  BY DEF RollBack, PromoTurns, RequestDiscount, DecideDiscount, walletVars, drawerVars
<1>2. promo' \in BOOLEAN /\ approval' \in {"none", "pending", "approved", "rejected"}
  BY DEF RollBack, PromoTurns, RequestDiscount, DecideDiscount, TillTypeOK
<1>3. TillTypeOK'
  BY <1>1, <1>2 DEF TillTypeOK, NoTx
<1>4. OpenSound'
  <2>1. CASE open' = NoTx
    BY <2>1 DEF OpenSound, NoTx
  <2>2. CASE open' = open
    <3>1. open.sale # NoSale => open.sale \in Sales /\ MayBook(open.sale)
      BY DEF OpenSound, TillTypeOK
    <3>2. open.sale # NoSale => MayBook(open.sale)'
      BY <1>1, <2>2, <3>1, MayBookStays
    <3> QED BY <1>1, <2>2, <3>2, OpenStays
  <2> QED BY <1>1, <2>1, <2>2
<1>5. WalletsBalance' /\ CardNotIssued'
  BY <1>1, WalletsStay
<1>6. BookedPaid' /\ PhoneSoldOnce'
  BY <1>1, BookingsStay
<1>7. DrawersSound' /\ DrawerAccounted'
  BY <1>1, DrawersStay
<1> QED BY <1>3, <1>4, <1>5, <1>6, <1>7

\* What a sale may be paid with covers what it takes from the wallets.
LEMMA WalletsCover ==
    ASSUME TillTypeOK, NEW s \in Sales, MayBook(s), NEW w \in Wallets
    PROVE  Debit(w, s) <= balance[w] /\ NewBalance(w, s) \in Nat
<1>1. /\ Debit(w, s) \in Nat /\ balance[w] \in Nat /\ Accrued(s) \in Nat
      /\ Due(w, s) = 0 => Debit(w, s) = 0
      /\ Due(w, s) \in Nat
  BY DebitsAre, TotalsAre DEF MayBook, TillTypeOK
<1>2. CASE w = "points"
  BY <1>1, <1>2 DEF MayBook, PointsCover, Due, NewBalance
<1>3. CASE w = "gift"
  <2>1. Due(w, s) = Bill[s].gift /\ Debit(w, s) = Bill[s].gift
    BY <1>3 DEF Due, Debit
  <2> QED BY <1>1, <1>3, <2>1 DEF MayBook, CardCovers, NewBalance
<1>4. CASE w = "credit"
  <2>1. Due(w, s) = Bill[s].credit /\ Debit(w, s) = Bill[s].credit
    BY <1>4 DEF Due, Debit
  <2> QED BY <1>1, <1>4, <2>1 DEF MayBook, CreditCovers, NewBalance
<1> QED BY <1>2, <1>3, <1>4 DEF Wallets

LEMMA CommitWallets ==
    ASSUME TillInv, NEW s \in Sales, Commit(s), MayBook(s)
    PROVE  /\ balance' \in [Wallets -> Nat]
           /\ debited' \in [Wallets -> [Sales -> Nat]] /\ earned' \in [Sales -> Nat]
           /\ WalletsBalance'
<1> USE DEF TillInv
<1>1. /\ booked' = [booked EXCEPT ![s] = TRUE]
      /\ balance' = [w \in Wallets |-> NewBalance(w, s)]
      /\ cardStatus' = IF Bill[s].gift > 0 /\ balance["gift"] = Bill[s].gift
                       THEN "depleted" ELSE cardStatus
      /\ debited' = [w \in Wallets |-> [debited[w] EXCEPT ![s] = Debit(w, s)]]
      /\ earned' = [earned EXCEPT ![s] = Accrued(s)]
      /\ UNCHANGED <<rung, issued>>
  BY DEF Commit
<1>2. ~booked[s] /\ earned[s] = 0 /\ Accrued(s) \in Nat
  BY TotalsAre DEF MayBook, BookedPaid
<1>3. /\ balance' \in [Wallets -> Nat]
      /\ debited' \in [Wallets -> [Sales -> Nat]] /\ earned' \in [Sales -> Nat]
  BY <1>1, <1>2, WalletsCover, DebitsAre DEF TillTypeOK
<1>4. IsFiniteSet(Sales)
  BY TillAssumption
<1>5. SumOf(earned', Sales) = SumOf(earned, Sales) + Accrued(s)
      /\ SumOf(earned, Sales) \in Nat
  <2>1. /\ \A t \in Sales : earned[t] \in Nat /\ earned'[t] \in Nat
        /\ \A t \in Sales \ {s} : earned[t] = earned'[t]
        /\ earned'[s] = Accrued(s)
    BY <1>1, <1>3 DEF TillTypeOK
  <2> DEFINE before == earned  after == earned'
  <2>2. /\ \A t \in Sales : before[t] \in Nat /\ after[t] \in Nat
        /\ \A t \in Sales \ {s} : before[t] = after[t]
        /\ after[s] = Accrued(s) /\ before[s] = 0
    BY <2>1, <1>2
  <2> HIDE DEF before, after
  <2>3. SumOf(after, Sales) + before[s] = SumOf(before, Sales) + after[s]
    BY <1>4, <2>2, SumChange
  <2>4. SumOf(after, Sales) \in Nat /\ SumOf(before, Sales) \in Nat
    BY <1>4, <2>2, SumType
  <2> QED BY <2>2, <2>3, <2>4, <1>2 DEF before, after
<1>6. ASSUME NEW w \in Wallets
      PROVE  /\ SumOf(debited'[w], Sales) = SumOf(debited[w], Sales) + Debit(w, s)
             /\ SumOf(debited[w], Sales) \in Nat
             /\ \A t \in Sales : debited'[w][t] = IF t = s THEN Debit(w, s) ELSE debited[w][t]
  <2>1. /\ debited[w] \in [Sales -> Nat] /\ debited'[w] \in [Sales -> Nat]
        /\ debited'[w] = [debited[w] EXCEPT ![s] = Debit(w, s)]
    BY <1>1, <1>3 DEF TillTypeOK
  <2>2. debited[w][s] = 0
    BY <1>2 DEF WalletsBalance
  <2> DEFINE before == debited[w]  after == debited'[w]  amount == Debit(w, s)
  <2>3. /\ \A t \in Sales : before[t] \in Nat /\ after[t] \in Nat
        /\ \A t \in Sales \ {s} : before[t] = after[t]
        /\ after[s] = amount /\ before[s] = 0 /\ amount \in Nat
    BY <2>1, <2>2, DebitsAre
  <2> HIDE DEF before, after, amount
  <2>4. SumOf(after, Sales) + before[s] = SumOf(before, Sales) + after[s]
    BY <1>4, <2>3, SumChange
  <2>5. SumOf(after, Sales) \in Nat /\ SumOf(before, Sales) \in Nat
    BY <1>4, <2>3, SumType
  <2>6. \A t \in Sales : after[t] = IF t = s THEN amount ELSE before[t]
    BY <2>3
  <2> QED BY <2>3, <2>4, <2>5, <2>6 DEF before, after, amount
<1>7. \A w \in Wallets, t \in Sales :
          debited'[w][t] = IF booked'[t] THEN Debit(w, t)' ELSE 0
  <2> TAKE w \in Wallets, t \in Sales
  <2>1. booked'[t] = IF t = s THEN TRUE ELSE booked[t]
    BY <1>1 DEF TillTypeOK
  <2>2. debited[w][t] = IF booked[t] THEN Debit(w, t) ELSE 0
    BY DEF WalletsBalance
  <2>3. debited'[w][t] = IF t = s THEN Debit(w, s) ELSE debited[w][t]
    BY <1>6
  <2>4. Debit(w, t)' = Debit(w, t)
    BY DebitsStay
  <2> QED BY <2>1, <2>2, <2>3, <2>4
<1>8. ASSUME NEW w \in Wallets
      PROVE  balance'[w] = issued'[w] + (IF w = "points" THEN SumOf(earned', Sales) ELSE 0)
                           - SumOf(debited'[w], Sales)
  <2>1. balance[w] = issued[w] + (IF w = "points" THEN SumOf(earned, Sales) ELSE 0)
                     - SumOf(debited[w], Sales)
    BY DEF WalletsBalance
  <2>2. balance'[w] = balance[w] - Debit(w, s) + (IF w = "points" THEN Accrued(s) ELSE 0)
    BY <1>1 DEF NewBalance
  <2>3. balance[w] \in Nat /\ issued[w] \in Nat /\ Debit(w, s) \in Nat /\ issued' = issued
    BY <1>1, DebitsAre DEF TillTypeOK
  <2> QED BY <2>1, <2>2, <2>3, <1>2, <1>5, <1>6
<1>9. (cardStatus' = "active") <=> (balance'["gift"] # 0)
  <2>1. balance'["gift"] = balance["gift"] - Bill[s].gift
    <3>1. "gift" \in Wallets /\ Debit("gift", s) = Bill[s].gift
      BY DEF Wallets, Debit, Due
    <3>2. balance'["gift"] = NewBalance("gift", s)
      BY <1>1, <3>1
    <3>3. balance["gift"] \in Nat /\ Bill[s].gift \in Nat
      BY <3>1, BillsAre DEF TillTypeOK
    <3> QED BY <3>1, <3>2, <3>3 DEF NewBalance
  <2>2. /\ Bill[s].gift \in Nat /\ balance["gift"] \in Nat
        /\ (cardStatus = "active") <=> (balance["gift"] # 0)
        /\ Bill[s].gift > 0 => cardStatus = "active" /\ balance["gift"] >= Bill[s].gift
    BY BillsAre DEF TillTypeOK, WalletsBalance, MayBook, CardCovers, Wallets
  <2>3. CASE Bill[s].gift > 0 /\ balance["gift"] = Bill[s].gift
    BY <1>1, <2>1, <2>2, <2>3
  <2>4. CASE ~(Bill[s].gift > 0 /\ balance["gift"] = Bill[s].gift)
    <3>1. cardStatus' = cardStatus
      BY <1>1, <2>4
    <3>2. (balance'["gift"] # 0) <=> (balance["gift"] # 0)
      BY <2>1, <2>2, <2>4
    <3> QED BY <2>2, <3>1, <3>2
  <2> QED BY <2>3, <2>4
<1>10. WalletsBalance'
  BY <1>7, <1>8, <1>9 DEF WalletsBalance
<1> QED BY <1>3, <1>10

LEMMA CommitKeeps ==
    ASSUME TillInv, NEW s \in Sales, Commit(s)
    PROVE  TillInv'
<1> USE DEF TillInv
<1>1. /\ open.sale = s /\ open' = NoTx
      /\ booked' = [booked EXCEPT ![s] = TRUE]
      /\ soldTo' = IF Bill[s].phone THEN s ELSE soldTo
      /\ cashIn' = [cashIn EXCEPT ![s] =
                       IF CashOf(s) > 0 THEN open.session ELSE NoSession]
      /\ cardStatus' = IF Bill[s].gift > 0 /\ balance["gift"] = Bill[s].gift
                       THEN "depleted" ELSE cardStatus
      /\ earned' = [earned EXCEPT ![s] = Accrued(s)]
      /\ UNCHANGED <<promo, rung, approval, issued>>
      /\ UNCHANGED <<opening, session, expected, straddled>>
  BY DEF Commit, drawerVars
<1>2. MayBook(s)
  BY <1>1, TillAssumption DEF OpenSound
<1>3. /\ \A t \in Sales : booked'[t] = (t = s \/ booked[t])
      /\ \A t \in Sales \ {s} : cashIn'[t] = cashIn[t] /\ earned'[t] = earned[t]
      /\ cashIn'[s] = IF CashOf(s) > 0 THEN open.session ELSE NoSession
      /\ ~booked[s] /\ cashIn[s] = NoSession
  BY <1>1, <1>2 DEF TillTypeOK, MayBook, BookedPaid
<1>4. TillTypeOK'
  <2>1. /\ balance' \in [Wallets -> Nat]
        /\ debited' \in [Wallets -> [Sales -> Nat]] /\ earned' \in [Sales -> Nat]
    BY <1>2, CommitWallets
  <2>2. open.session \in Sessions \cup {NoSession}
    BY DEF TillTypeOK
  <2> QED BY <1>1, <2>1, <2>2 DEF TillTypeOK, NoTx
<1>5. OpenSound'
  BY <1>1 DEF OpenSound, NoTx
<1>6. BookedPaid'
  <2>1. \A t \in Sales : PaymentsMatch(t)' <=> PaymentsMatch(t)
    BY <1>1, AllAmountsStay
  <2>2. \A t \in Sales : booked[t] /\ Bill[t].phone => soldTo' = soldTo
    BY <1>1, <1>2, TillAssumption DEF BookedPaid, MayBook, PhoneFree
  <2>3. ASSUME NEW t \in Sales, booked'[t]
        PROVE  rung'[t] # -1 /\ PaymentsMatch(t)' /\ (Bill[t].phone => soldTo' = t)
    <3>1. CASE t = s
      BY <1>1, <1>2, <2>1, <3>1 DEF MayBook
    <3>2. CASE t # s
      BY <1>1, <1>3, <2>1, <2>2, <2>3, <3>2 DEF BookedPaid
    <3> QED BY <3>1, <3>2
  <2>4. ASSUME NEW t \in Sales, ~booked'[t]
        PROVE  earned'[t] = 0 /\ cashIn'[t] = NoSession
    BY <1>3, <2>4 DEF BookedPaid
  <2> QED BY <2>3, <2>4 DEF BookedPaid
<1>7. DrawersSound'
  BY <1>1 DEF DrawersSound
<1>8. WalletsBalance' /\ CardNotIssued'
  BY <1>1, <1>2, CommitWallets DEF CardNotIssued
<1>9. PhoneSoldOnce'
  <2>1. \A t, u \in Sales : booked'[t] /\ booked'[u] /\ Bill[t].phone /\ Bill[u].phone => t = u
    BY <1>6 DEF BookedPaid
  <2>2. \A t \in Sales : OverBand(t)' <=> OverBand(t)
    BY <1>1, AllAmountsStay
  <2>3. ASSUME NEW t \in Sales, booked'[t], OverBand(t) PROVE approval = "approved"
    <3>1. CASE t = s
      BY <2>3, <3>1, <1>2 DEF MayBook, DiscountAllowed
    <3>2. CASE t # s
      <4>1. booked[t]
        BY <2>3, <3>2, <1>1 DEF TillTypeOK
      <4> QED BY <2>3, <4>1 DEF PhoneSoldOnce
    <3> QED BY <3>1, <3>2
  <2> QED BY <1>1, <2>1, <2>2, <2>3 DEF PhoneSoldOnce
<1>10. DrawerAccounted'
  <2>1. \A t \in Sales : CashOf(t)' = CashOf(t)
    BY <1>1, AllAmountsStay
  <2>2. CashTaken' = CashTaken
    BY <1>1, AllAmountsStay
  <2>3. \A t \in Sales : booked'[t] /\ CashOf(t) > 0 => cashIn'[t] # NoSession
    BY <1>2, <1>3 DEF MayBook, DrawerAccounted
  <2>4. ASSUME NEW x \in Sessions, session[x] = "closed"
        PROVE  {t \in Sales : cashIn'[t] = x /\ <<t, x>> \notin straddled}
               = {t \in Sales : cashIn[t] = x /\ <<t, x>> \notin straddled}
    <3>1. x # NoSession
      BY TillAssumption
    <3>2. cashIn'[s] = x => <<s, x>> \in straddled
      BY <1>1, <1>3, <2>4, <3>1 DEF OpenSound
    <3> QED BY <1>3, <3>1, <3>2
  <2> QED BY <1>1, <2>1, <2>2, <2>3, <2>4 DEF DrawerAccounted
<1> QED BY <1>4, <1>5, <1>6, <1>7, <1>8, <1>9, <1>10

\* The card is issued or cancelled, or store credit is issued: not while a
\* booking holds the row.
LEMMA WalletKeeps ==
    ASSUME TillInv, IssueCard(Grant) \/ IssueCredit(Grant) \/ CancelCard
    PROVE  TillInv'
<1> USE DEF TillInv
<1>1. /\ UNCHANGED <<promo, rung, approval, soldTo, booked, cashIn, open>>
      /\ UNCHANGED <<debited, earned, drawerVars>>
      /\ UNCHANGED <<opening, session, expected, straddled>>
  BY DEF IssueCard, IssueCredit, CancelCard, tillSaleVars, drawerVars
<1>2. Grant \in Nat \ {0} /\ IsFiniteSet(Sales)
  BY TillAssumption
<1>3. /\ balance["gift"] \in Nat /\ issued["gift"] \in Nat
      /\ balance["credit"] \in Nat /\ issued["credit"] \in Nat
      /\ balance["points"] \in Nat
  BY DEF TillTypeOK, Wallets
<1>4. \A w \in Wallets : SumOf(debited[w], Sales) \in Nat
  <2> TAKE w \in Wallets
  <2> DEFINE f == debited[w]
  <2>1. \A s \in Sales : f[s] \in Nat
    BY DEF TillTypeOK
  <2> HIDE DEF f
  <2>2. SumOf(f, Sales) \in Nat
    BY <1>2, <2>1, SumType
  <2> QED BY <2>2 DEF f
<1>5. balance["gift"] = issued["gift"] - SumOf(debited["gift"], Sales)
  <2>1. "gift" \in Wallets /\ "gift" # "points"
    BY DEF Wallets
  <2>2. SumOf(debited["gift"], Sales) \in Nat
    BY <2>1, <1>4
  <2>3. balance["gift"] = issued["gift"] + 0 - SumOf(debited["gift"], Sales)
    BY <2>1 DEF WalletsBalance
  <2> QED BY <1>3, <2>2, <2>3
<1>6. cardStatus = "none" => balance["gift"] = 0 /\ issued["gift"] = 0
  BY DEF WalletsBalance, CardNotIssued
\* Either the balance and what was issued rise alike, or the card is emptied.
<1>7. /\ balance' \in [Wallets -> Nat] /\ issued' \in [Wallets -> Nat]
      /\ \A w \in Wallets : balance'[w] - balance[w] = issued'[w] - issued[w]
      /\ balance'["points"] = balance["points"]
      /\ cardStatus' \in {"active", "cancelled", cardStatus}
      /\ (cardStatus' = "active") <=> (balance'["gift"] # 0)
      /\ cardStatus' = "none" => issued'["gift"] = 0
  <2>1. CASE IssueCredit(Grant)
    <3>1. /\ balance' = [balance EXCEPT !["credit"] = @ + Grant]
          /\ issued' = [issued EXCEPT !["credit"] = @ + Grant]
          /\ cardStatus' = cardStatus
      BY <2>1 DEF IssueCredit
    <3> QED BY <1>2, <1>3, <3>1 DEF TillTypeOK, WalletsBalance, CardNotIssued, Wallets
  <2>2. CASE CancelCard
    <3>1. /\ balance' = [balance EXCEPT !["gift"] = 0]
          /\ issued' = [issued EXCEPT !["gift"] = @ - balance["gift"]]
          /\ cardStatus' = "cancelled"
      BY <2>2 DEF CancelCard
    <3>2. SumOf(debited["gift"], Sales) \in Nat
      BY <1>4 DEF Wallets
    <3>3. issued["gift"] - balance["gift"] \in Nat
      BY <1>3, <1>5, <3>2
    <3> QED BY <1>3, <3>1, <3>3 DEF TillTypeOK, Wallets
  <2>3. CASE IssueCard(Grant)
    <3>1. /\ balance' = [balance EXCEPT !["gift"] = Grant]
          /\ issued' = [issued EXCEPT !["gift"] = Grant]
          /\ cardStatus' = "active" /\ cardStatus = "none"
      BY <2>3 DEF IssueCard
    <3> QED BY <1>2, <1>3, <1>6, <3>1 DEF TillTypeOK, Wallets
  <2> QED BY <2>1, <2>2, <2>3
<1>8. TillTypeOK'
  BY <1>1, <1>7 DEF TillTypeOK
<1>9. OpenSound'
  <2>1. /\ open.sale # NoSale => open.sale \in Sales /\ MayBook(open.sale)
        /\ open.sale # NoSale => open # NoTx
    BY DEF OpenSound, TillTypeOK, NoTx
  <2>2. ASSUME open.sale # NoSale PROVE MayBook(open.sale)'
    <3> DEFINE o == open.sale
    <3>1. Due("gift", o) > 0 => balance'["gift"] = balance["gift"] /\ cardStatus' = cardStatus
      <4>1. Due("gift", o) > 0 => cardStatus = "active"
        BY <2>1, <2>2 DEF MayBook, CardCovers, Due
      <4> QED BY <2>1, <2>2, <4>1, <1>3 DEF IssueCard, IssueCredit, CancelCard, Held, TillTypeOK, Wallets
    <3>2. Due("credit", o) > 0 => balance'["credit"] = balance["credit"]
      BY <2>1, <2>2 DEF IssueCard, IssueCredit, CancelCard, Held, TillTypeOK, Wallets
    <3> QED BY <2>1, <2>2, <3>1, <3>2, <1>1, <1>7, MayBookStays
  <2> QED BY <1>1, <2>2, OpenStays
<1>10. WalletsBalance' /\ CardNotIssued'
  <2>1. ASSUME NEW w \in Wallets
        PROVE  balance'[w] = issued'[w] + (IF w = "points" THEN SumOf(earned', Sales) ELSE 0)
                             - SumOf(debited'[w], Sales)
    <3>1. /\ balance[w] = issued[w] + (IF w = "points" THEN SumOf(earned, Sales) ELSE 0)
                          - SumOf(debited[w], Sales)
          /\ balance'[w] - balance[w] = issued'[w] - issued[w]
          /\ SumOf(debited[w], Sales) \in Nat
      BY <1>4, <1>7 DEF WalletsBalance
    <3>2. SumOf(earned, Sales) \in Nat
      BY <1>2, SumType DEF TillTypeOK
    <3>3. balance[w] \in Nat /\ issued[w] \in Nat /\ balance'[w] \in Nat /\ issued'[w] \in Nat
      BY <1>7 DEF TillTypeOK
    <3>4. /\ SumOf(earned', Sales) = SumOf(earned, Sales)
          /\ SumOf(debited'[w], Sales) = SumOf(debited[w], Sales)
      BY <1>1
    <3> DEFINE more == IF w = "points" THEN SumOf(earned, Sales) ELSE 0
               gone == SumOf(debited[w], Sales)
    <3>5. more \in Nat /\ gone \in Nat /\ balance[w] = issued[w] + more - gone
      BY <3>1, <3>2
    <3> HIDE DEF more, gone
    <3>6. balance'[w] = issued'[w] + more - gone
      BY <3>1, <3>3, <3>5
    <3> QED BY <3>4, <3>6 DEF more, gone
  <2> QED BY <2>1, <1>1, <1>7, DebitsStay DEF WalletsBalance, CardNotIssued
<1>11. BookedPaid' /\ PhoneSoldOnce'
  BY <1>1, BookingsStay
<1>12. DrawersSound' /\ DrawerAccounted'
  BY <1>1, DrawersStay
<1> QED BY <1>8, <1>9, <1>10, <1>11, <1>12

\* A cash session is opened: it holds no cash yet.
LEMMA OpeningKeeps ==
    ASSUME TillInv, NEW x \in Sessions, CheckNoneOpen(x) \/ InsertSession(x)
    PROVE  TillInv'
<1> USE DEF TillInv
<1>1. /\ UNCHANGED <<promo, rung, approval, soldTo, booked, cashIn, open>>
      /\ UNCHANGED <<walletVars, balance, cardStatus, debited, earned, issued>>
      /\ UNCHANGED <<expected, straddled>>
      /\ opening' \subseteq Sessions
  BY DEF CheckNoneOpen, InsertSession, tillSaleVars, walletVars, TillTypeOK
<1>2. /\ session' \in [Sessions -> {"none", "open", "closed"}]
      /\ \A y \in Sessions : (session'[y] = "closed") <=> (session[y] = "closed")
      /\ \A y \in Sessions : session[y] = "open" => session'[y] = "open"
      /\ \A y \in opening' : session'[y] = "none"
  BY DEF CheckNoneOpen, InsertSession, TillTypeOK, DrawersSound
<1>3. TillTypeOK'
  BY <1>1, <1>2 DEF TillTypeOK
<1>4. OpenSound'
  <2>1. open.sale # NoSale => open.sale \in Sales /\ MayBook(open.sale)
    BY DEF OpenSound, TillTypeOK
  <2>2. open.sale # NoSale => MayBook(open.sale)'
    BY <1>1, <2>1, MayBookStays
  <2>3. open.session # NoSession => open.session \in Sessions
    BY DEF TillTypeOK
  <2> QED BY <1>1, <1>2, <2>2, <2>3 DEF OpenSound
<1>5. WalletsBalance' /\ CardNotIssued'
  BY <1>1, WalletsStay
<1>6. BookedPaid' /\ PhoneSoldOnce'
  BY <1>1, BookingsStay
<1>7. DrawersSound'
  BY <1>1, <1>2 DEF DrawersSound
<1>8. DrawerAccounted'
  <2>1. \A s \in Sales : CashOf(s)' = CashOf(s)
    BY <1>1, AllAmountsStay
  <2>2. CashTaken' = CashTaken
    BY <1>1, AllAmountsStay
  <2> QED BY <1>1, <1>2, <2>1, <2>2 DEF DrawerAccounted
<1> QED BY <1>3, <1>4, <1>5, <1>6, <1>7, <1>8

\* A session is closed: what it is short of is being booked.
LEMMA CloseKeeps ==
    ASSUME TillInv, NEW x \in Sessions, CloseSession(x)
    PROVE  TillInv'
<1> USE DEF TillInv
<1>1. /\ session[x] = "open" /\ session' = [session EXCEPT ![x] = "closed"]
      /\ expected' = [expected EXCEPT ![x] = ExpectedIn(x)]
      /\ straddled' = IF open.session = x THEN straddled \cup {<<open.sale, x>>} ELSE straddled
      /\ UNCHANGED <<promo, rung, approval, soldTo, booked, cashIn, open>>
      /\ UNCHANGED <<walletVars, balance, cardStatus, debited, earned, issued>>
      /\ UNCHANGED opening
  BY DEF CloseSession, tillSaleVars, walletVars
<1>2. /\ \A y \in Sessions : session'[y] = IF y = x THEN "closed" ELSE session[y]
      /\ \A y \in Sessions : expected'[y] = IF y = x THEN ExpectedIn(x) ELSE expected[y]
  BY <1>1 DEF TillTypeOK
<1>3. x # NoSession
  BY TillAssumption
<1>4. ExpectedIn(x) \in Nat
  <2> DEFINE paid == {s \in Sales : cashIn[s] = x}
  <2>1. IsFiniteSet(paid)
    BY TillAssumption, FS_Subset
  <2>2. \A s \in paid : CashTaken[s] \in Nat
    BY <1>3, TotalsAre DEF BookedPaid, CashTaken
  <2>3. SumOf(CashTaken, paid) \in Nat
    <3> HIDE DEF paid
    <3> QED BY <2>1, <2>2, SumType
  <2> QED BY <2>3, TillAssumption DEF ExpectedIn, CashBooked
<1>5. open.session = x => open.sale \in Sales /\ ~booked[open.sale]
  BY <1>3 DEF OpenSound, MayBook, TillTypeOK
<1>6. TillTypeOK'
  BY <1>1, <1>4, <1>5 DEF TillTypeOK
<1>7. OpenSound'
  <2>1. open.sale # NoSale => open.sale \in Sales /\ MayBook(open.sale)
    BY DEF OpenSound, TillTypeOK
  <2>2. open.sale # NoSale => MayBook(open.sale)'
    BY <1>1, <2>1, MayBookStays
  <2>3. open.session # NoSession => open.session \in Sessions
    BY DEF TillTypeOK
  <2> QED BY <1>1, <1>2, <2>2, <2>3 DEF OpenSound
<1>8. WalletsBalance' /\ CardNotIssued'
  BY <1>1, WalletsStay
<1>9. BookedPaid' /\ PhoneSoldOnce'
  BY <1>1, BookingsStay
<1>10. DrawersSound'
  BY <1>1, <1>2 DEF DrawersSound
<1>11. DrawerAccounted'
  <2>1. \A s \in Sales : CashOf(s)' = CashOf(s)
    BY <1>1, AllAmountsStay
  <2>2. CashTaken' = CashTaken
    BY <1>1, AllAmountsStay
  <2>3. {s \in Sales : cashIn[s] = x /\ <<s, x>> \notin straddled'} = {s \in Sales : cashIn[s] = x}
    <3>1. ASSUME NEW s \in Sales, cashIn[s] = x PROVE <<s, x>> \notin straddled'
      <4>1. booked[s]
        BY <1>3, <3>1 DEF BookedPaid
      <4>2. <<s, x>> \notin straddled
        BY <1>1 DEF DrawersSound
      <4> QED BY <1>1, <1>5, <4>1, <4>2
    <3> QED BY <3>1
  <2>4. ASSUME NEW y \in Sessions, y # x
        PROVE  {s \in Sales : cashIn[s] = y /\ <<s, y>> \notin straddled'}
               = {s \in Sales : cashIn[s] = y /\ <<s, y>> \notin straddled}
    BY <1>1, <2>4
  <2>5. ASSUME NEW y \in Sessions, session'[y] = "closed"
        PROVE  expected'[y] = Float + SumOf(CashTaken,
                                   {s \in Sales : cashIn[s] = y /\ <<s, y>> \notin straddled'})
    <3>1. CASE y = x
      BY <3>1, <1>2, <2>3 DEF ExpectedIn, CashBooked
    <3>2. CASE y # x
      BY <2>4, <2>5, <3>2, <1>2 DEF DrawerAccounted
    <3> QED BY <3>1, <3>2
  <2> QED BY <1>1, <2>1, <2>2, <2>5 DEF DrawerAccounted
<1> QED BY <1>6, <1>7, <1>8, <1>9, <1>10, <1>11

LEMMA TillStep == TillInv /\ [TillNext]_tillVars => TillInv'
<1> SUFFICES ASSUME TillInv, [TillNext]_tillVars PROVE TillInv'
  OBVIOUS
<1>1. CASE TillNext
  BY <1>1, RingKeeps, BookKeeps, CommitKeeps, CounterKeeps, WalletKeeps, OpeningKeeps,
     CloseKeeps DEF TillNext
<1>2. CASE UNCHANGED tillVars
  <2>1. /\ UNCHANGED <<promo, rung, approval, soldTo, booked, cashIn, open>>
        /\ UNCHANGED <<walletVars, balance, cardStatus, debited, earned, issued>>
        /\ UNCHANGED <<drawerVars, opening, session, expected, straddled>>
    BY <1>2 DEF tillVars, tillSaleVars, walletVars, drawerVars
  <2>2. TillTypeOK'
    BY <2>1 DEF TillInv, TillTypeOK
  <2>3. OpenSound'
    <3>1. open.sale # NoSale => open.sale \in Sales /\ MayBook(open.sale)
      BY DEF TillInv, OpenSound, TillTypeOK
    <3>2. open.sale # NoSale => MayBook(open.sale)'
      BY <2>1, <3>1, MayBookStays
    <3> QED BY <2>1, <3>2, OpenStays DEF TillInv
  <2>4. WalletsBalance' /\ CardNotIssued'
    BY <2>1, WalletsStay DEF TillInv
  <2>5. BookedPaid' /\ PhoneSoldOnce' /\ DrawersSound' /\ DrawerAccounted'
    BY <2>1, BookingsStay, DrawersStay
  <2> QED BY <2>2, <2>3, <2>4, <2>5 DEF TillInv
<1> QED BY <1>1, <1>2

\* TillInv holds in every reachable state.
THEOREM TillInvariance == TillSpec => []TillInv
<1> QED BY TillInitially, TillStep, PTL DEF TillSpec

\* Every variable stays in its type; no wallet and no drawer falls below nothing.
THEOREM TillTypeCorrect == TillSpec => []TillTypeOK
<1>1. TillInv => TillTypeOK
  BY DEF TillInv
<1> QED BY <1>1, TillInvariance, PTL

\* For any bills, prices and number of sessions: the wallets are what was put in
\* and earned minus what booked sales took, the phone is sold once, and a closed
\* drawer is short only of sales that were being booked while it was closed.
THEOREM SalesAreAccounted == TillSpec => []SalesAccounted
<1>1. TillInv => SalesAccounted
  BY DEF TillInv, SalesAccounted
<1> QED BY <1>1, TillInvariance, PTL

-----------------------------------------------------------------------------
(* What follows a sale                                                     *)

USE AfterSaleAssumption
USE DEF OrderStatus, ShipmentStatus, DoorOutcome, RefundStatus, Path

-----------------------------------------------------------------------------
(* The inductive invariant                                                 *)

\* A parcel is returned on file only if the courier returned it for good, and
\* then no step of an order that was shipped is left.
ReturnIsFinal ==
    shipment = "returned" => courier = "returned" /\ order \notin ShippedStatus

\* An order is confirmed until its goods leave the shelf or a refund is paid;
\* a scanned unit that is still sold was never credited.
UnitTrail ==
    /\ order = "confirmed" => unit = "in_stock" /\ returned["refund"] = 0
    /\ sale.serialized /\ unit = "sold" => \A p \in Path : returned[p] = 0

AfterSaleInv == TypeOK /\ OrderAccounted /\ ReturnIsFinal /\ UnitTrail

-----------------------------------------------------------------------------
(* Money                                                                   *)

money == [r \in Refunds |-> refund[r].amount]

\* The amounts are natural numbers, and so are their sums.
LEMMA MoneyType ==
    ASSUME TypeOK
    PROVE  /\ \A r \in Refunds : money[r] \in Nat
           /\ IsFiniteSet(Claims) /\ IsFiniteSet(Processed)
           /\ \A S \in SUBSET Refunds : Amounts(S) = SumOf(money, S)
           /\ \A S \in SUBSET Refunds : IsFiniteSet(S) /\ Amounts(S) \in Nat
<1>1. \A r \in Refunds : money[r] \in Nat
  BY DEF TypeOK, money
<1>2. \A S : Amounts(S) = SumOf(money, S)
  BY DEF Amounts, money
<1>3. \A S \in SUBSET Refunds : IsFiniteSet(S)
  BY FS_Subset
<1>4. Claims \in SUBSET Refunds /\ Processed \in SUBSET Refunds
  BY DEF Claims, Processed
<1>5. \A S \in SUBSET Refunds : SumOf(money, S) \in Nat
  <2> TAKE S \in SUBSET Refunds
  <2>1. \A r \in S : money[r] \in Nat
    BY <1>1
  <2> QED BY <1>3, <2>1, SumType
<1> QED BY <1>1, <1>2, <1>3, <1>4, <1>5

\* A step that leaves the refunds alone leaves the money where it is, and the
\* order's status says so if it is no status of a refund.
LEMMA RefundsUntouched ==
    ASSUME AfterSaleInv, UNCHANGED <<sale, refund, noteOf>>,
           \/ order' = order
           \/ /\ order \notin {"refunded", "partially_refunded"}
              /\ order' \notin {"refunded", "partially_refunded"}
    PROVE  (RefundsWithinCapture /\ OneNotePerRefund /\ StatusFollowsMoney)'
<1> USE DEF AfterSaleInv, OrderAccounted
<1>1. money' = money /\ Claims' = Claims /\ Processed' = Processed
  BY DEF money, Claims, Processed
<1>2. Amounts(Claims)' = Amounts(Claims) /\ Amounts(Processed)' = Amounts(Processed)
  BY <1>1 DEF money, Amounts
<1>3. RefundsWithinCapture'
  BY <1>2 DEF RefundsWithinCapture
<1>4. OneNotePerRefund'
  BY DEF OneNotePerRefund
<1>5. StatusFollowsMoney'
  BY <1>1, <1>2 DEF StatusFollowsMoney
<1> QED BY <1>3, <1>4, <1>5

\* A step that changes neither the parcel nor the order keeps what is said of
\* returns.
LEMMA ReturnUntouched ==
    ASSUME AfterSaleInv, UNCHANGED <<sale, shipment, freight, courier, outcome>>,
           returned'["shipment"] = returned["shipment"],
           order \in ShippedStatus \/ order' \notin ShippedStatus
    PROVE  (ReturnBookedOnce /\ ReturnsAreSeen /\ ReturnIsFinal)'
BY DEF AfterSaleInv, OrderAccounted, ReturnBookedOnce, ReturnsAreSeen,
       ReturnIsFinal, LineQty, ShippedStatus

\* Without refunds nothing is claimed.
LEMMA AfterSaleInit ==
    ASSUME Init
    PROVE  AfterSaleInv
<1>1. TypeOK
  BY DEF Init, TypeOK, LineQty, NoRefund
<1>2. Claims = {} /\ Processed = {}
  BY DEF Init, NoRefund, Claims, Processed
<1>3. Amounts({}) = 0
  BY SumEmpty DEF Amounts
<1>4. RefundsWithinCapture
  BY <1>1, <1>2, <1>3 DEF RefundsWithinCapture, TypeOK
<1>5. OneNotePerRefund
  BY DEF Init, NoRefund, OneNotePerRefund
<1>6. StatusFollowsMoney
  BY <1>2, <1>3 DEF StatusFollowsMoney, Init
<1>7. ReturnBookedOnce /\ ReturnsAreSeen /\ ReturnIsFinal /\ UnitTrail
  BY <1>1 DEF Init, ReturnBookedOnce, ReturnsAreSeen, ReturnIsFinal, UnitTrail,
              NoRefund, TypeOK, LineQty
<1> QED BY <1>1, <1>4, <1>5, <1>6, <1>7 DEF AfterSaleInv, OrderAccounted

-----------------------------------------------------------------------------
(* One lemma per action                                                    *)

LEMMA FulfillKeeps ==
    ASSUME AfterSaleInv, Fulfill
    PROVE  AfterSaleInv'
<1> USE DEF AfterSaleInv
<1>1. TypeOK'
  BY DEF Fulfill, TypeOK, parcelVars, refundVars
<1>2. (RefundsWithinCapture /\ OneNotePerRefund /\ StatusFollowsMoney)'
  BY RefundsUntouched DEF Fulfill, refundVars
<1>3. (ReturnBookedOnce /\ ReturnsAreSeen /\ ReturnIsFinal)'
  BY ReturnUntouched DEF Fulfill, parcelVars, ShippedStatus
<1>4. UnitTrail'
  <2>1. shipment # "returned"
    BY DEF Fulfill, ReturnIsFinal, ShippedStatus
  <2>2. returned["shipment"] \in Nat /\ returned["shipment"] <= LineQty * 0 /\ LineQty \in Nat
    BY <2>1, AfterSaleAssumption DEF OrderAccounted, ReturnBookedOnce, TypeOK, LineQty
  <2>3. returned["shipment"] = 0 /\ returned["refund"] = 0
    BY <2>2 DEF Fulfill, UnitTrail
  <2>4. order' = "fulfilled" /\ returned' = returned
    BY DEF Fulfill
  <2> QED BY <2>3, <2>4 DEF UnitTrail, Path
<1> QED BY <1>1, <1>2, <1>3, <1>4 DEF OrderAccounted

LEMMA CancelKeeps ==
    ASSUME AfterSaleInv, Cancel
    PROVE  AfterSaleInv'
<1> USE DEF AfterSaleInv
<1>1. TypeOK'
  BY DEF Cancel, TypeOK, parcelVars, refundVars
<1>2. (RefundsWithinCapture /\ OneNotePerRefund /\ StatusFollowsMoney)'
  BY RefundsUntouched DEF Cancel, refundVars
<1>3. (ReturnBookedOnce /\ ReturnsAreSeen /\ ReturnIsFinal)'
  BY ReturnUntouched DEF Cancel, parcelVars, ShippedStatus
<1>4. UnitTrail'
  BY DEF Cancel, refundVars, UnitTrail
<1> QED BY <1>1, <1>2, <1>3, <1>4 DEF OrderAccounted

LEMMA CreateShipmentKeeps ==
    ASSUME AfterSaleInv, CreateShipment
    PROVE  AfterSaleInv'
<1> USE DEF AfterSaleInv
<1>1. TypeOK'
  BY DEF CreateShipment, TypeOK, saleVars, refundVars
<1>2. (RefundsWithinCapture /\ OneNotePerRefund /\ StatusFollowsMoney)'
  BY RefundsUntouched DEF CreateShipment, saleVars, refundVars
<1>q. LineQty' = LineQty
  BY DEF CreateShipment, saleVars, LineQty
<1>3. (ReturnBookedOnce /\ ReturnsAreSeen /\ ReturnIsFinal)'
  <2>1. ReturnBookedOnce'
    BY <1>q DEF CreateShipment, saleVars, OrderAccounted, ReturnBookedOnce
  <2>2. ReturnsAreSeen' /\ ReturnIsFinal'
    BY DEF CreateShipment, ReturnsAreSeen, ReturnIsFinal
  <2> QED BY <2>1, <2>2
<1>4. UnitTrail'
  BY DEF CreateShipment, saleVars, refundVars, UnitTrail
<1> QED BY <1>1, <1>2, <1>3, <1>4 DEF OrderAccounted

LEMMA CourierMovesKeeps ==
    ASSUME AfterSaleInv, NEW s \in ShipmentStatus, CourierMoves(s)
    PROVE  AfterSaleInv'
<1> USE DEF AfterSaleInv
<1>1. TypeOK'
  BY DEF CourierMoves, TypeOK, saleVars, refundVars
<1>2. (RefundsWithinCapture /\ OneNotePerRefund /\ StatusFollowsMoney)'
  BY RefundsUntouched DEF CourierMoves, saleVars, refundVars
<1>3. (ReturnBookedOnce /\ ReturnsAreSeen /\ ReturnIsFinal)'
  BY DEF CourierMoves, saleVars, OrderAccounted, ReturnBookedOnce,
         ReturnsAreSeen, ReturnIsFinal, LineQty
<1>4. UnitTrail'
  BY DEF CourierMoves, saleVars, refundVars, UnitTrail
<1> QED BY <1>1, <1>2, <1>3, <1>4 DEF OrderAccounted

\* The poll that finds the parcel returned is the first that does.
LEMMA ReturnKeeps ==
    ASSUME AfterSaleInv, RefreshTracking, courier = "returned", ReturnToOrigin
    PROVE  AfterSaleInv'
<1> USE DEF AfterSaleInv
<1>0. /\ shipment # "returned" /\ shipment' = "returned"
      /\ UNCHANGED <<sale, held, courier, refund, seen, noteOf>>
  BY DEF RefreshTracking, News, refundVars
<1>t. /\ LineQty \in Nat /\ LineQty' = LineQty /\ freight = 0
      /\ returned["shipment"] = 0
  <2>1. freight = 0
    BY <1>0 DEF OrderAccounted, ReturnBookedOnce
  <2>2. LineQty \in Nat /\ LineQty' = LineQty
    BY <1>0 DEF LineQty
  <2>3. returned["shipment"] \in Nat /\ returned["shipment"] <= LineQty * 0
    BY <2>1 DEF OrderAccounted, ReturnBookedOnce, TypeOK
  <2> QED BY <2>1, <2>2, <2>3
<1>r. /\ returned' \in [Path -> Nat]
      /\ returned'["shipment"] \in {0, LineQty}
      /\ returned'["refund"] = returned["refund"]
      /\ StillSold \/ returned' = returned
  BY <1>t DEF ReturnToOrigin, TypeOK
<1>o. /\ order' \notin ShippedStatus
      /\ \/ order' = order
         \/ order \in ShippedStatus /\ order' = "returned_to_origin"
  BY DEF ReturnToOrigin, ShippedStatus
<1>1. TypeOK'
  BY <1>0, <1>r, <1>o, <1>t DEF ReturnToOrigin, FirstOutcome, TypeOK
<1>2. (RefundsWithinCapture /\ OneNotePerRefund /\ StatusFollowsMoney)'
  BY <1>0, <1>o, RefundsUntouched DEF ShippedStatus
<1>3. ReturnBookedOnce'
  <2>1. freight' = 1
    BY <1>t DEF ReturnToOrigin
  <2> QED BY <1>0, <1>t, <1>r, <2>1 DEF ReturnBookedOnce
<1>4. ReturnsAreSeen'
  BY <1>0, <1>o DEF ReturnsAreSeen, ReturnToOrigin, FirstOutcome, TypeOK, ShippedStatus
<1>5. ReturnIsFinal'
  BY <1>0, <1>o DEF ReturnIsFinal, ShippedStatus
<1>6. UnitTrail'
  BY <1>0, <1>r DEF UnitTrail, ReturnToOrigin, StillSold, TypeOK
<1> QED BY <1>1, <1>2, <1>3, <1>4, <1>5, <1>6 DEF OrderAccounted

LEMMA RefreshTrackingKeeps ==
    ASSUME AfterSaleInv, RefreshTracking
    PROVE  AfterSaleInv'
<1> USE DEF AfterSaleInv
<1>1. CASE courier = "returned"
  BY <1>1, ReturnKeeps DEF RefreshTracking
<1>2. CASE courier # "returned"
  <2>0. /\ shipment' = courier /\ shipment # "returned"
        /\ order' = IF courier = "delivered" /\ order = "fulfilled"
                    THEN "completed" ELSE order
        /\ UNCHANGED <<sale, held, courier, returned, unit, freight, outcome,
                       refund, seen, noteOf>>
    BY <1>2 DEF RefreshTracking, refundVars, ReturnIsFinal
  <2>1. TypeOK'
    BY <2>0 DEF TypeOK
  <2>2. (RefundsWithinCapture /\ OneNotePerRefund /\ StatusFollowsMoney)'
    BY <2>0, RefundsUntouched
  <2>q. LineQty' = LineQty
    BY <2>0 DEF LineQty
  <2>3. ReturnBookedOnce'
    BY <1>2, <2>0, <2>q DEF OrderAccounted, ReturnBookedOnce
  <2>5. ReturnsAreSeen' /\ ReturnIsFinal'
    BY <1>2, <2>0 DEF ReturnsAreSeen, ReturnIsFinal
  <2>4. UnitTrail'
    BY <2>0 DEF UnitTrail
  <2> QED BY <2>1, <2>2, <2>3, <2>4, <2>5 DEF OrderAccounted
<1> QED BY <1>1, <1>2

LEMMA RecordOutcomeKeeps ==
    ASSUME AfterSaleInv, NEW o \in DoorOutcome, RecordOutcome(o)
    PROVE  AfterSaleInv'
<1> USE DEF AfterSaleInv
<1>1. TypeOK'
  BY DEF RecordOutcome, FirstOutcome, TypeOK, saleVars, refundVars
<1>2. (RefundsWithinCapture /\ OneNotePerRefund /\ StatusFollowsMoney)'
  BY RefundsUntouched DEF RecordOutcome, saleVars, refundVars
<1>3. (ReturnBookedOnce /\ ReturnsAreSeen /\ ReturnIsFinal)'
  BY DEF RecordOutcome, FirstOutcome, saleVars, OrderAccounted, ReturnBookedOnce,
         ReturnsAreSeen, ReturnIsFinal, LineQty
<1>4. UnitTrail'
  BY DEF RecordOutcome, saleVars, refundVars, UnitTrail
<1> QED BY <1>1, <1>2, <1>3, <1>4 DEF OrderAccounted

\* A step on one refund that leaves the amounts alone.
LEMMA SameAmounts ==
    ASSUME TypeOK, NEW r \in Refunds, NEW s \in RefundStatus,
           refund' = [refund EXCEPT ![r].status = s]
    PROVE  /\ refund' \in [Refunds -> [status : RefundStatus, amount : 0 .. Total,
                                      restock : 0 .. Qty + 1]]
           /\ money' = money
           /\ \A q \in Refunds : refund'[q].restock = refund[q].restock
           /\ refund'[r].status = s
           /\ \A q \in Refunds \ {r} : refund'[q] = refund[q]
BY DEF TypeOK, money

LEMMA ReadClaimsKeeps ==
    ASSUME AfterSaleInv, NEW r \in Refunds, ReadClaims(r)
    PROVE  AfterSaleInv'
<1> USE DEF AfterSaleInv
<1>0. /\ refund[r].status = "none"
      /\ refund' = [refund EXCEPT ![r].status = "reading"]
      /\ seen' = [seen EXCEPT ![r] = Amounts(Claims)]
      /\ UNCHANGED <<sale, held, unit, returned, order, shipment, courier, freight,
                     outcome, noteOf>>
  BY DEF ReadClaims, saleVars, parcelVars
<1>s. /\ refund' \in [Refunds -> [status : RefundStatus, amount : 0 .. Total,
                                  restock : 0 .. Qty + 1]]
      /\ money' = money
      /\ \A q \in Refunds : refund'[q].restock = refund[q].restock
      /\ refund'[r].status = "reading"
      /\ \A q \in Refunds \ {r} : refund'[q] = refund[q]
  BY <1>0, SameAmounts
<1>c. Claims' = Claims /\ Processed' = Processed
  BY <1>0, <1>s DEF Claims, Processed
<1>m. /\ Claims \in SUBSET Refunds
      /\ Amounts(Claims) \in Nat
      /\ Amounts(Claims)' = Amounts(Claims) /\ Amounts(Processed)' = Amounts(Processed)
  BY <1>c, <1>s, MoneyType DEF Amounts, money, Claims
<1>1. TypeOK'
  BY <1>0, <1>s, <1>m DEF TypeOK
<1>2. RefundsWithinCapture'
  BY <1>0, <1>m DEF OrderAccounted, RefundsWithinCapture
<1>3. OneNotePerRefund'
  BY <1>0, <1>s DEF OrderAccounted, OneNotePerRefund
<1>4. StatusFollowsMoney'
  BY <1>0, <1>c, <1>m DEF OrderAccounted, StatusFollowsMoney
<1>5. (ReturnBookedOnce /\ ReturnsAreSeen /\ ReturnIsFinal)'
  BY <1>0, ReturnUntouched
<1>6. UnitTrail'
  BY <1>0, <1>s DEF UnitTrail
<1> QED BY <1>1, <1>2, <1>3, <1>4, <1>5, <1>6 DEF OrderAccounted

\* The trigger looks at the claims that are there when the row is written.
LEMMA RequestRefundKeeps ==
    ASSUME AfterSaleInv, NEW r \in Refunds, NEW amount \in 1 .. Total,
           NEW restock \in RestockQty, RequestRefund(r, amount, restock)
    PROVE  AfterSaleInv'
<1> USE DEF AfterSaleInv
<1>0. /\ refund[r].status = "reading"
      /\ WithinCapture(r, amount)
      /\ refund' = [refund EXCEPT ![r] = [status |-> "pending", amount |-> amount,
                                          restock |-> restock]]
      /\ UNCHANGED <<sale, held, unit, returned, order, shipment, courier, freight,
                     outcome, seen, noteOf>>
  BY DEF RequestRefund, saleVars, parcelVars
<1>q. restock \in 0 .. Qty + 1
  BY AfterSaleAssumption DEF RestockQty, LineQty
<1>s. /\ refund' \in [Refunds -> [status : RefundStatus, amount : 0 .. Total,
                                  restock : 0 .. Qty + 1]]
      /\ refund'[r] = [status |-> "pending", amount |-> amount, restock |-> restock]
      /\ \A q \in Refunds \ {r} : refund'[q] = refund[q]
  BY <1>0, <1>q DEF TypeOK
<1>c. /\ r \notin Claims /\ Claims' = Claims \cup {r} /\ Claims \ {r} = Claims
      /\ r \notin Processed /\ Processed' = Processed
      /\ Claims \subseteq Refunds /\ Processed \subseteq Refunds
  BY <1>0, <1>s DEF Claims, Processed
<1>f. /\ \A q \in Refunds : money'[q] \in Nat
      /\ money'[r] = amount
      /\ \A q \in Refunds \ {r} : money'[q] = money[q]
  BY <1>s DEF money, TypeOK
<1>a. Amounts(Claims)' = Amounts(Claims) + amount
  <2> DEFINE f == money'
             S == Claims
  <2>1. /\ IsFiniteSet(S) /\ r \notin S
        /\ \A y \in S \cup {r} : f[y] \in Nat
        /\ \A y \in S : f[y] = money[y]
        /\ f[r] = amount
    BY <1>c, <1>f, MoneyType
  <2>2. Amounts(Claims)' = SumOf(f, S \cup {r})
    BY <1>c DEF Amounts, money
  <2>3. Amounts(Claims) = SumOf(money, S)
    BY DEF Amounts, money
  <2> HIDE DEF f, S
  <2>4. SumOf(f, S \cup {r}) = SumOf(f, S) + f[r]
    BY <2>1, SumAdd
  <2>5. SumOf(f, S) = SumOf(money, S)
    BY <2>1, SumSame
  <2> QED BY <2>1, <2>2, <2>3, <2>4, <2>5
<1>p. Amounts(Processed)' = Amounts(Processed)
  <2> DEFINE f == money'
             S == Processed
  <2>1. \A y \in S : f[y] = money[y]
    BY <1>c, <1>f
  <2>2. Amounts(Processed)' = SumOf(f, S) /\ Amounts(Processed) = SumOf(money, S)
    BY <1>c DEF Amounts, money
  <2> HIDE DEF f, S
  <2> QED BY <2>1, <2>2, SumSame
<1>1. TypeOK'
  BY <1>0, <1>s DEF TypeOK
<1>2. RefundsWithinCapture'
  <2>1. Amounts(Claims) + amount <= sale.captured
    BY <1>0, <1>c DEF WithinCapture
  <2> QED BY <1>0, <1>a, <2>1 DEF RefundsWithinCapture
<1>3. OneNotePerRefund'
  BY <1>0, <1>s DEF OrderAccounted, OneNotePerRefund
<1>4. StatusFollowsMoney'
  BY <1>0, <1>c, <1>p DEF OrderAccounted, StatusFollowsMoney
<1>5. (ReturnBookedOnce /\ ReturnsAreSeen /\ ReturnIsFinal)'
  BY <1>0, ReturnUntouched
<1>6. UnitTrail'
  BY <1>0 DEF UnitTrail
<1> QED BY <1>1, <1>2, <1>3, <1>4, <1>5, <1>6 DEF OrderAccounted

LEMMA RejectRefundKeeps ==
    ASSUME AfterSaleInv, NEW r \in Refunds, RejectRefund(r)
    PROVE  AfterSaleInv'
<1> USE DEF AfterSaleInv
<1>0. /\ refund[r].status = "pending"
      /\ refund' = [refund EXCEPT ![r].status = "rejected"]
      /\ UNCHANGED <<sale, held, unit, returned, order, shipment, courier, freight,
                     outcome, seen, noteOf>>
  BY DEF RejectRefund, Undecided, saleVars, parcelVars
<1>s. /\ refund' \in [Refunds -> [status : RefundStatus, amount : 0 .. Total,
                                  restock : 0 .. Qty + 1]]
      /\ money' = money
      /\ \A q \in Refunds : refund'[q].restock = refund[q].restock
      /\ refund'[r].status = "rejected"
      /\ \A q \in Refunds \ {r} : refund'[q] = refund[q]
  BY <1>0, SameAmounts
<1>c. /\ Claims \in SUBSET Refunds /\ Claims' \in SUBSET Claims
      /\ Processed' = Processed
  BY <1>0, <1>s DEF Claims, Processed
<1>p. Amounts(Processed)' = Amounts(Processed)
  BY <1>c, <1>s DEF Amounts, money
<1>a. Amounts(Claims)' <= Amounts(Claims) /\ Amounts(Claims)' \in Nat /\ Amounts(Claims) \in Nat
  <2> DEFINE S == Claims
             T == Claims'
  <2>1. /\ IsFiniteSet(S) /\ T \in SUBSET S /\ \A y \in S : money[y] \in Nat
        /\ S \in SUBSET Refunds /\ T \in SUBSET Refunds
    BY <1>c, MoneyType
  <2>2. Amounts(Claims)' = SumOf(money, T) /\ Amounts(Claims) = SumOf(money, S)
    BY <1>s DEF Amounts, money
  <2>t. \A U \in SUBSET Refunds : SumOf(money, U) \in Nat
    BY MoneyType
  <2> HIDE DEF S, T
  <2>3. SumOf(money, T) <= SumOf(money, S)
    BY <2>1, SumSubset
  <2> QED BY <2>1, <2>2, <2>3, <2>t
<1>1. TypeOK'
  BY <1>0, <1>s DEF TypeOK
<1>2. RefundsWithinCapture'
  BY <1>0, <1>a DEF OrderAccounted, RefundsWithinCapture, TypeOK
<1>3. OneNotePerRefund'
  BY <1>0, <1>s DEF OrderAccounted, OneNotePerRefund
<1>4. StatusFollowsMoney'
  BY <1>0, <1>c, <1>p DEF OrderAccounted, StatusFollowsMoney
<1>5. (ReturnBookedOnce /\ ReturnsAreSeen /\ ReturnIsFinal)'
  BY <1>0, ReturnUntouched
<1>6. UnitTrail'
  BY <1>0, <1>s DEF UnitTrail
<1> QED BY <1>1, <1>2, <1>3, <1>4, <1>5, <1>6 DEF OrderAccounted

\* The amount was a claim before and is paid now.
LEMMA ApproveRefundKeeps ==
    ASSUME AfterSaleInv, NEW r \in Refunds, ApproveRefund(r)
    PROVE  AfterSaleInv'
<1> USE DEF AfterSaleInv
<1>0. /\ refund[r].status = "pending"
      /\ refund' = [refund EXCEPT ![r].status = "processed"]
      /\ returned' = [returned EXCEPT !["refund"] = @ + refund[r].restock]
      /\ unit' = IF refund[r].restock > 0 /\ unit = "sold"
                 THEN "returned_pending" ELSE unit
      /\ order' = RefundedStatus(r)
      /\ noteOf' = [noteOf EXCEPT ![r] = @ + 1]
      /\ UNCHANGED <<sale, held, shipment, courier, freight, outcome, seen>>
  BY DEF ApproveRefund, Undecided, parcelVars
<1>s. /\ refund' \in [Refunds -> [status : RefundStatus, amount : 0 .. Total,
                                  restock : 0 .. Qty + 1]]
      /\ money' = money
      /\ \A q \in Refunds : refund'[q].restock = refund[q].restock
      /\ refund'[r].status = "processed"
      /\ \A q \in Refunds \ {r} : refund'[q] = refund[q]
  BY <1>0, SameAmounts
<1>c. /\ Claims' = Claims
      /\ Processed' = Processed \cup {r} /\ Processed \cup {r} \in SUBSET Refunds
  BY <1>0, <1>s DEF Claims, Processed
<1>a. /\ Amounts(Claims)' = Amounts(Claims)
      /\ Amounts(Processed)' = Amounts(Processed \cup {r})
  BY <1>c, <1>s DEF Amounts, money
<1>n. Amounts(Processed \cup {r}) \in Nat
  BY <1>c, MoneyType
<1>r. /\ returned' \in [Path -> Nat]
      /\ returned'["shipment"] = returned["shipment"]
      /\ returned'["refund"] = returned["refund"] + refund[r].restock
      /\ refund[r].restock \in Nat
  BY <1>0 DEF TypeOK
<1>o. order' \in {"refunded", "partially_refunded"}
  BY <1>0 DEF RefundedStatus
<1>1. TypeOK'
  BY <1>0, <1>s, <1>r, <1>o DEF TypeOK
<1>2. RefundsWithinCapture'
  BY <1>0, <1>a DEF OrderAccounted, RefundsWithinCapture
<1>3. OneNotePerRefund'
  BY <1>0, <1>s DEF OrderAccounted, OneNotePerRefund, TypeOK
<1>4. StatusFollowsMoney'
  BY <1>0, <1>a, <1>c, <1>n DEF StatusFollowsMoney, RefundedStatus
<1>5. (ReturnBookedOnce /\ ReturnsAreSeen /\ ReturnIsFinal)'
  BY <1>0, <1>r, <1>o, ReturnUntouched DEF ShippedStatus
<1>6. UnitTrail'
  <2>1. order' # "confirmed" /\ sale' = sale
    BY <1>0, <1>o
  <2>2. ASSUME sale.serialized, unit' = "sold", NEW p \in Path
        PROVE  returned'[p] = 0
    <3>1. unit = "sold" /\ refund[r].restock = 0
      BY <1>0, <1>r, <2>2
    <3>2. returned[p] = 0
      BY <2>2, <3>1 DEF UnitTrail
    <3> QED BY <1>0, <3>1, <3>2 DEF TypeOK
  <2> QED BY <2>1, <2>2 DEF UnitTrail
<1> QED BY <1>1, <1>2, <1>3, <1>4, <1>5, <1>6 DEF OrderAccounted

LEMMA AfterSaleStutters ==
    ASSUME AfterSaleInv, UNCHANGED vars
    PROVE  AfterSaleInv'
BY DEF AfterSaleInv, TypeOK, OrderAccounted, RefundsWithinCapture, OneNotePerRefund,
       StatusFollowsMoney, ReturnBookedOnce, ReturnsAreSeen, ReturnIsFinal, UnitTrail,
       Amounts, Claims, Processed, LineQty, ShippedStatus,
       vars, parcelVars, refundVars, saleVars

LEMMA AfterSaleStep ==
    ASSUME AfterSaleInv, [Next]_vars
    PROVE  AfterSaleInv'
<1>1. CASE Fulfill
  BY <1>1, FulfillKeeps
<1>2. CASE Cancel
  BY <1>2, CancelKeeps
<1>3. CASE CreateShipment
  BY <1>3, CreateShipmentKeeps
<1>4. CASE RefreshTracking
  BY <1>4, RefreshTrackingKeeps
<1>5. CASE \E s \in ShipmentStatus : CourierMoves(s)
  BY <1>5, CourierMovesKeeps
<1>6. CASE \E o \in DoorOutcome : RecordOutcome(o)
  BY <1>6, RecordOutcomeKeeps
<1>7. CASE \E r \in Refunds : ReadClaims(r)
  BY <1>7, ReadClaimsKeeps
<1>8. CASE \E r \in Refunds : RejectRefund(r)
  BY <1>8, RejectRefundKeeps
<1>9. CASE \E r \in Refunds : ApproveRefund(r)
  BY <1>9, ApproveRefundKeeps
<1>10. CASE \E r \in Refunds, amount \in 1 .. Total, restock \in RestockQty :
                RequestRefund(r, amount, restock)
  BY <1>10, RequestRefundKeeps
<1>11. CASE UNCHANGED vars
  BY <1>11, AfterSaleStutters
<1> QED BY <1>1, <1>2, <1>3, <1>4, <1>5, <1>6, <1>7, <1>8, <1>9, <1>10, <1>11 DEF Next

-----------------------------------------------------------------------------
(* The theorems                                                            *)

\* AfterSaleInv holds in every reachable state.
THEOREM AfterSaleInvariance == Spec => []AfterSaleInv
<1>1. Init => AfterSaleInv
  BY AfterSaleInit
<1>2. AfterSaleInv /\ [Next]_vars => AfterSaleInv'
  BY AfterSaleStep
<1> QED BY <1>1, <1>2, PTL DEF Spec

\* Every variable stays in its type.
THEOREM AfterSaleTypeCorrect == Spec => []TypeOK
<1>1. AfterSaleInv => TypeOK
  BY DEF AfterSaleInv
<1> QED BY <1>1, AfterSaleInvariance, PTL

\* For any number of refund requests that read the same total before one of
\* them is written: no more is claimed than was captured, each refund that was
\* paid has its one credit note, the order's status is the share that went
\* back, and a returned parcel is credited and booked once and is seen.
THEOREM OrdersAccounted == Spec => []OrderAccounted
<1>1. AfterSaleInv => OrderAccounted
  BY DEF AfterSaleInv
<1> QED BY <1>1, AfterSaleInvariance, PTL

\* No courier return credits a scanned unit that came back before, and what
\* was recorded at the door first is never rewritten.
THEOREM ParcelHistoryStays == Spec => HistoryStays
<1> DEFINE Stays ==
      /\ sale.serialized /\ returned'["shipment"] > returned["shipment"]
             => returned["refund"] = 0 /\ returned["shipment"] = 0
      /\ outcome # "none" => outcome' = outcome
<1>1. AfterSaleInv /\ [Next]_vars => Stays
  <2> SUFFICES ASSUME AfterSaleInv, [Next]_vars PROVE Stays
    OBVIOUS
  <2>t. returned \in [Path -> Nat]
    BY DEF AfterSaleInv, TypeOK
  <2>1. CASE RefreshTracking
    BY <2>1, <2>t DEF RefreshTracking, ReturnToOrigin, StillSold, FirstOutcome,
                      AfterSaleInv, UnitTrail
  <2>2. CASE \E r \in Refunds : ApproveRefund(r)
    BY <2>2, <2>t DEF ApproveRefund, parcelVars
  <2>3. CASE \E o \in DoorOutcome : RecordOutcome(o)
    BY <2>3, <2>t DEF RecordOutcome, FirstOutcome, saleVars
  <2>4. CASE UNCHANGED <<returned, outcome>>
    BY <2>4, <2>t
  <2> QED BY <2>1, <2>2, <2>3, <2>4 DEF Next, Fulfill, Cancel, CreateShipment, CourierMoves,
             ReadClaims, RejectRefund, RequestRefund, vars, saleVars, parcelVars
<1>2. AfterSaleInv /\ [Next]_vars => [Stays]_vars
  BY <1>1
<1> QED BY <1>2, AfterSaleInvariance, PTL DEF Spec, HistoryStays

-----------------------------------------------------------------------------
(* The parts in one office                                                 *)

\* Every behaviour of the office is one of each of its parts: whichever desk
\* moves, the others stutter.
LEMMA PartsMove ==
    ASSUME [OfficeNext]_officeVars
    PROVE  /\ [Next]_vars /\ [TillNext]_tillVars /\ [MailNext]_mailVars
           /\ [CatalogNext]_catalogVars /\ [AccountNext]_accountVars
           /\ [NoticeNext]_noticeVars /\ [GateNext]_gateVars
           /\ [LimitsNext]_limitVars /\ [LogNext]_rows /\ [TrailNext]_trailVars
           /\ [ReportsNext]_reportVars /\ [MigrationsNext]_migrationVars
<1>1. CASE AtAfterSale
  BY <1>1 DEF AtAfterSale, opsVars
<1>2. CASE AtTill
  BY <1>2 DEF AtTill, opsVars
<1>3. CASE AtMail
  BY <1>3 DEF AtMail, opsVars
<1>4. CASE AtCatalog
  BY <1>4 DEF AtCatalog, opsVars
<1>5. CASE AtAccounts
  BY <1>5 DEF AtAccounts, AccountNext, opsVars
<1>6. CASE AtNotices
  BY <1>6 DEF AtNotices, opsVars
<1>7. CASE AtGate
  BY <1>7 DEF AtGate, opsVars
<1>8. CASE AtLimits
  BY <1>8 DEF AtLimits, LimitsNext
<1>9. CASE AtEvents
  BY <1>9 DEF AtEvents, opsVars
<1>10. CASE AtTrail
  BY <1>10 DEF AtTrail, opsVars
<1>11. CASE AtMonitor
  BY <1>11 DEF AtMonitor, opsVars
<1>12. CASE AtBoot
  BY <1>12 DEF AtBoot, opsVars
<1>13. CASE UNCHANGED officeVars
  BY <1>13 DEF officeVars, opsVars
<1> QED BY <1>1, <1>2, <1>3, <1>4, <1>5, <1>6, <1>7, <1>8, <1>9, <1>10, <1>11, <1>12, <1>13
        DEF OfficeNext

LEMMA OfficeParts ==
    OfficeSpec => /\ Spec /\ TillSpec /\ MailSpec /\ CatalogSpec /\ AccountSpec
                  /\ NoticeSafety /\ GateSpec /\ LimitsSpec
                  /\ LogSpec /\ TrailSpec /\ ReportsSpec /\ MigrationsSpec
<1>1. OfficeInit => Init /\ TillInit /\ MailInit /\ CatalogInit /\ AccountInit /\ NoticeInit
                 /\ GateInit /\ LimitsInit /\ LogInit /\ TrailInit /\ ReportsInit
                 /\ MigrationsInit
  BY DEF OfficeInit
<1>2. [OfficeNext]_officeVars =>
         /\ [Next]_vars /\ [TillNext]_tillVars /\ [MailNext]_mailVars
         /\ [CatalogNext]_catalogVars /\ [AccountNext]_accountVars
         /\ [NoticeNext]_noticeVars /\ [GateNext]_gateVars /\ [LimitsNext]_limitVars
         /\ [LogNext]_rows /\ [TrailNext]_trailVars
         /\ [ReportsNext]_reportVars /\ [MigrationsNext]_migrationVars
  BY PartsMove
<1> QED BY <1>1, <1>2, PTL
        DEF OfficeSpec, Spec, TillSpec, MailSpec, CatalogSpec, AccountSpec, NoticeSafety,
            GateSpec, LimitsSpec, LogSpec, TrailSpec, ReportsSpec, MigrationsSpec

\* Whatever desk moves, the variables of every part stay in their types.
THEOREM OfficeTypeCorrect == OfficeSpec => []OfficeTypeOK
<1>1. TypeOK /\ TillTypeOK /\ MailTypeOK /\ NoticeTypeOK => OfficeTypeOK
  BY DEF OfficeTypeOK
<1>2. NoticeInv => NoticeTypeOK
  BY DEF NoticeInv
<1> QED BY <1>1, <1>2, OfficeParts, AfterSaleTypeCorrect, TillTypeCorrect, MailTypeCorrect,
           NoticeInvariance, PTL

\* What was recorded of a parcel, a refund or a message in a final status is
\* not rewritten, whatever the office does.
THEOREM HistoryStands == OfficeSpec => NothingRewritten
BY OfficeParts, ParcelHistoryStays, FinalStatusKept, PTL DEF NothingRewritten

\* The gate of cash on delivery is consistent under any policy, and the limits
\* are kept, whatever else the office does.
THEOREM GateAlwaysAgrees == OfficeSpec => []GateAgrees
<1>1. GateConsistent /\ LimitsHold => GateAgrees
  BY DEF GateAgrees
<1> QED BY <1>1, OfficeParts, GateHolds, LimitsAlwaysHold, PTL

\* What was logged tells what happened, no report of a failure is lost without
\* a reason, and what the migrations table says was run was run, whatever else
\* the office does.
THEOREM LogsAlwaysAgree == OfficeSpec => []LogsAgree
<1>1. FunnelTruthful /\ TrailTells /\ ReportsAccounted /\ MigrationsSound => LogsAgree
  BY DEF LogsAgree
<1> QED BY <1>1, OfficeParts, FunnelsAreTruthful, TrailAlwaysTells, ReportsAlwaysAccounted,
           MigrationsAlwaysSound, PTL
=============================================================================
