------------------------------ MODULE MCStock ------------------------------
(***************************************************************************)
(* The parts of the stock operations, the channels that follow them and    *)
(* the books in one run.  They touch different variants and tables, so     *)
(* every behaviour of all of them is an interleaving of one of each: desk  *)
(* picks the part that moves.                                              *)
(***************************************************************************)
EXTENDS UnitLife, StockRoom, Warehouse, Purchasing, OrderImport, Books

CONSTANTS
    l1, g1,
    EventsAmongImports    \* bound: announced movements where imports run

VARIABLE desk

\* Of the purchase order, one line of two pieces and one of a single piece.
MCOrdered == [l \in Lines |-> IF l = l1 THEN 2 ELSE 1]

\* Two orders of a marketplace: one with two lines that fit one by one and not
\* together after a sale, one with a single piece.
MCLines == << <<1, 1>>, <<1>> >>

\* A device and twenty-two accessories whose tax does not divide evenly; notes
\* for the device, for the device and fifteen of the others (a tax of 11 * (15 /
\* 22), which is 7.499... in doubles), and for more than was bought.
MCLine == [g \in Goods |->
    [device |-> g = g1, zeroRated |-> FALSE, exempt |-> FALSE, cost |-> 1,
     price |-> IF g = g1 THEN 7 ELSE 4, qty |-> IF g = g1 THEN 1 ELSE 22]]
MCShortOfHalf == {<<11, 15, 22>>}
MCSplit == <<17, 35>>
MCRequests ==
    LET other == CHOOSE g \in Goods : g # g1
        back(g, n) == [line |-> g, qty |-> n]
    IN {<<back(g1, 1)>>, <<back(g1, 1), back(other, 15)>>, <<back(other, 22), back(other, 22)>>}

Init ==
    /\ desk \in {"units", "room", "warehouse", "purchasing", "feed", "imports", "books"}
    /\ UnitInit /\ RoomInit /\ WhInit /\ PoInit /\ ImportInit /\ BooksInit

channelVars == <<feedVars, importVars>>
stockVars == <<unitVars, roomVars, whVars, poVars, channelVars>>

AtUnits ==
    /\ desk = "units" /\ UnitNext
    /\ UNCHANGED <<desk, roomVars, whVars, poVars, channelVars, bookVars>>
AtRoom ==
    /\ desk = "room" /\ RoomNext
    /\ UNCHANGED <<desk, unitVars, whVars, poVars, channelVars, bookVars>>
AtWarehouse ==
    /\ desk = "warehouse" /\ WhNext
    /\ UNCHANGED <<desk, unitVars, roomVars, poVars, channelVars, bookVars>>
AtPurchasing ==
    /\ desk = "purchasing" /\ PoNext
    /\ UNCHANGED <<desk, unitVars, roomVars, whVars, channelVars, bookVars>>
AtFeed ==
    /\ desk = "feed" /\ FeedNext
    /\ UNCHANGED <<desk, unitVars, roomVars, whVars, poVars, importVars, bookVars>>
AtImports ==
    /\ desk = "imports" /\ ImportNext
    /\ lastSeq' <= EventsAmongImports
    /\ UNCHANGED <<desk, unitVars, roomVars, whVars, poVars, bookVars>>
AtBooks == desk = "books" /\ BooksNext /\ UNCHANGED <<desk, stockVars>>

Next == AtUnits \/ AtRoom \/ AtWarehouse \/ AtPurchasing \/ AtFeed \/ AtImports \/ AtBooks

Spec == Init /\ [][Next]_<<desk, stockVars, bookVars>>

\* Every variable of every part stays in its type; no quantity of stock, in a
\* bucket or in a bin, becomes negative, no job of the queue is doubled, and no
\* account of the books holds less than nothing.
StockTypeOK ==
    /\ desk = "units" => UnitTypeOK
    /\ desk = "room" => RoomTypeOK
    /\ desk = "warehouse" => WhTypeOK
    /\ desk = "purchasing" => PoTypeOK
    /\ desk \in {"feed", "imports"} => FeedTypeOK
    /\ desk = "books" => BooksTypeOK

\* Tax is left to the buyer only on a declaration, and the books balance.
BooksAccounted == desk = "books" => ReverseChargeSupported /\ BooksBalance
=============================================================================
