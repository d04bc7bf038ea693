----------------------------- MODULE CheckoutProofs ----------------------------
(******************************************************************************)
(* Proofs about Checkout, for any numbers of products, users and requests,    *)
(* any quantities and any faults.                                             *)
(******************************************************************************)
EXTENDS Checkout, TLAPS

\* A product gets its row, unreserved, from the one SetStock that follows its
\* INSERT, and no deduction comes before that.
RowInv ==
    \A p \in Products :
        /\ creation[p] \in {"none", "inserted"} => inventory[p] = None
        /\ inventory[p] = None => ledger[p] = <<>>
        /\ inventory[p] # None => inventory[p].reserved = 0

\* What checkout r read, pr, was once the row of its product, and had enough: its
\* version determines the quantity it shows, and r's own deductions are older.
Explained(r, pr) ==
    LET p == pr.line.product
    IN  /\ pr # None
        /\ inventory[p] # None
        /\ pr.row.version <= Len(ledger[p]) + 1
        /\ pr.row.quantity = Balance(p, pr.row.version)
        /\ pr.row.reserved = 0
        /\ pr.row.quantity >= pr.line.quantity
        /\ \A k \in 1 .. Len(ledger[p]) :
              ledger[p][k].by = r => k < pr.row.version

ProbeInv ==
    \A r \in Checkouts :
        pc[r] \in {"reserve", "diagnose"} \/ answer[r] = "conflict" =>
            Explained(r, probe[r])

\* An UPDATE that matched no row was beaten by another deduction.
BeatenInv ==
    \A r \in Checkouts :
        pc[r] = "diagnose" \/ answer[r] = "conflict" =>
            probe[r].row.version <= Len(ledger[probe[r].line.product])

\* The loop: a line is still to do, was skipped, or has its stock.
LoopInv ==
    \A r \in Checkouts :
        /\ \A l \in lines[r] \ (todo[r] \cup skipped[r]) : TookFor(r, l)
        /\ pc[r] \in {"persist", "clear"} => todo[r] = {}
        /\ pc[r] = "reserve" => probe[r].line \in todo[r]

\* The ledger holds only lines the loop has passed, unless the checkout is over.
LedgerInv ==
    \A p \in Products : \A k \in 1 .. Len(ledger[p]) :
        LET d == ledger[p][k]
        IN  /\ d.line.product = p
            /\ pc[d.by] # "idle"
            /\ pc[d.by] \in {"probe", "reserve"} => d.line \notin todo[d.by]

\* A stored order is the cart its checkout read, all lines done.
StoredInv ==
    \A r \in Checkouts :
        /\ orders[r] # None =>
              /\ orders[r].lines = lines[r]
              /\ todo[r] = {}
              /\ pc[r] \in {"clear", "done", "crashed"}
        /\ pc[r] = "clear" => orders[r] # None
        /\ answer[r] # "none" => pc[r] = "done"

IndInv ==
    /\ TypeOK
    /\ RowInv
    /\ StockChain
    /\ ProbeInv
    /\ BeatenInv
    /\ LoopInv
    /\ LedgerInv
    /\ StoredInv
    /\ OrderBacked
    /\ TakesOnce

--------------------------------------------------------------------------------
(* Types                                                                      *)

\* Go's wrap-around addition yields an integer.
LEMMA AddIntType == ASSUME NEW a \in Int, NEW b \in Int PROVE AddInt(a, b) \in Int
<1> DEFINE m == 2 * (MaxInt + 1)
<1>1. m \in Nat \ {0} /\ MaxInt \in Nat
  BY CartAssumption
<1>2. a + b + MaxInt + 1 \in Int
  BY <1>1
<1> HIDE DEF m
<1>3. (a + b + MaxInt + 1) % m \in Int
  BY <1>1, <1>2
<1> QED
  BY <1>1, <1>3 DEF AddInt, m

\* The merge loop of AddItem keeps a document a set of lines.
LEMMA MergeType ==
    ASSUME NEW ls \in SUBSET Line, NEW p \in Products, NEW q \in Int
    PROVE  Merge(ls, p, q) \in SUBSET Line
<1>1. CASE \E l \in ls : l.product = p
  <2> DEFINE old == CHOOSE l \in ls : l.product = p
  <2>1. old \in ls
    BY <1>1
  <2>2. old.quantity \in Int
    BY <2>1 DEF Line
  <2>3. [product |-> p, quantity |-> AddInt(old.quantity, q)] \in Line
    BY <2>2, AddIntType DEF Line
  <2> QED
    BY <1>1, <2>1, <2>3 DEF Merge
<1>2. CASE ~ \E l \in ls : l.product = p
  BY <1>2 DEF Merge, Line
<1> QED
  BY <1>1, <1>2

\* The steps of CreateProduct keep the tables well typed.
LEMMA InvNextType == ASSUME InvTypeOK, InvNext PROVE InvTypeOK'
<1>1. PICK p \in Products : \/ InsertProduct(p)
                           \/ InsertProductUnacknowledged(p)
                           \/ InitialStock(p)
                           \/ InitialStockFails(p)
  BY DEF InvNext
<1>2. CASE InitialStock(p)
  <2>1. PICK q \in StockQuantities : SetStock(p, q)
    BY <1>2 DEF InitialStock
  <2>2. q \in Nat
    BY <2>1, InventoryAssumption DEF SetStock
  <2>3. NewRow(q) \in Row
    BY <2>2 DEF NewRow, Row
  <2>4. inventory[p] # None => Written(inventory[p], q) \in Row
    BY <2>2 DEF InvTypeOK, Row, Written
  <2> QED
    BY <1>2, <2>1, <2>2, <2>3, <2>4 DEF InvTypeOK, InitialStock, SetStock, CreationStates
<1>3. CASE ~InitialStock(p)
  BY <1>1, <1>3 DEF InvTypeOK, InsertProduct, InsertProductUnacknowledged,
       InitialStockFails, CreationStates
<1> QED
  BY <1>2, <1>3

\* GetByUserID returns a cart.
LEMMA GetByUserIDType ==
    ASSUME CartTypeOK, NEW u \in Users, NEW c \in GetByUserID(u)
    PROVE  c \in SUBSET Line
  BY DEF CartTypeOK, GetByUserID

\* StoreCart writes a cart.
LEMMA StoreCartType ==
    ASSUME CartTypeOK, NEW u \in Users, NEW ls \in SUBSET Line, StoreCart(u, ls)
    PROVE  carts' \in [Users -> SUBSET Line]
  BY DEF CartTypeOK, StoreCart

\* The steps of the cart requests keep the carts well typed.
LEMMA CartNextType == ASSUME CartTypeOK, CartNext PROVE CartTypeOK'
<1>1. ASSUME NEW e \in Edits, NEW p \in Products, NEW q \in AddQuantities,
             AddItem(e, p, q)
      PROVE  CartTypeOK'
  <2>1. RequestedQuantity(q) \in Int
    BY CartAssumption DEF RequestedQuantity
  <2>2. PICK ls \in GetByUserID(editor[e]) :
          document' = [document EXCEPT ![e] = Merge(ls, p, RequestedQuantity(q))]
    BY <1>1 DEF AddItem
  <2>3. editor[e] \in Users
    BY DEF CartTypeOK
  <2>4. Merge(ls, p, RequestedQuantity(q)) \in SUBSET Line
    BY <2>1, <2>3, GetByUserIDType, MergeType
  <2>5. document' \in [Edits -> SUBSET Line]
    BY <2>2, <2>4 DEF CartTypeOK
  <2>6. added' \in [Users -> [Products -> Int]]
    BY <1>1, <2>1, <2>3 DEF CartTypeOK, AddItem
  <2> QED
    BY <1>1, <2>5, <2>6 DEF CartTypeOK, AddItem, EditStates
<1>2. ASSUME NEW e \in Edits, NEW p \in Products, AddItemNoProduct(e, p)
      PROVE  CartTypeOK'
  BY <1>2 DEF CartTypeOK, AddItemNoProduct, EditStates
<1>3. ASSUME NEW e \in Edits, NEW p \in Products, RemoveItem(e, p)
      PROVE  CartTypeOK'
  <2>1. PICK ls \in GetByUserID(editor[e]) :
          document' = [document EXCEPT ![e] = Without(ls, p)]
    BY <1>3 DEF RemoveItem
  <2>2. editor[e] \in Users
    BY DEF CartTypeOK
  <2>3. Without(ls, p) \in SUBSET Line
    BY <2>2, GetByUserIDType DEF Without
  <2> QED
    BY <1>3, <2>1, <2>3 DEF CartTypeOK, RemoveItem, EditStates
<1>4. ASSUME NEW e \in Edits, SaveCart(e) PROVE CartTypeOK'
  <2>1. editor[e] \in Users /\ document[e] \in SUBSET Line
    BY DEF CartTypeOK
  <2>2. carts' \in [Users -> SUBSET Line]
    BY <1>4, <2>1, StoreCartType DEF SaveCart
  <2> QED
    BY <1>4, <2>2 DEF CartTypeOK, SaveCart, EditStates
<1>5. ASSUME NEW e \in Edits, SaveCartFails(e) PROVE CartTypeOK'
  BY <1>5 DEF CartTypeOK, SaveCartFails, EditStates
<1>6. ASSUME NEW u \in Users, CartExpires(u) PROVE CartTypeOK'
  BY <1>6 DEF CartTypeOK, CartExpires
<1> QED
  BY <1>1, <1>2, <1>3, <1>4, <1>5, <1>6 DEF CartNext

\* What a checkout about to reserve holds in its hands.
LEMMA ProbeType ==
    ASSUME TypeOK, ProbeInv, NEW r \in Checkouts,
           pc[r] \in {"reserve", "diagnose"} \/ answer[r] = "conflict"
    PROVE  /\ probe[r].line \in Line
           /\ probe[r].line.product \in Products
           /\ probe[r].line.quantity \in Int
           /\ probe[r].row \in Row
           /\ probe[r].row.version \in Nat \ {0}
           /\ probe[r].row.quantity \in Nat
           /\ inventory[probe[r].line.product] \in Row
<1>1. probe[r] \in Probe
  BY DEF TypeOK, ProbeInv, Explained
<1>2. probe[r].line \in Line /\ probe[r].row \in Row
  BY <1>1 DEF Probe
<1>3. inventory[probe[r].line.product] # None
  BY DEF ProbeInv, Explained
<1> QED
  BY <1>2, <1>3 DEF Line, Row, TypeOK, InvTypeOK

\* The deduction that Deduct(r) records.
DeductionOf(r) == [by |-> r, line |-> probe[r].line, saw |-> probe[r].row]

\* What the UPDATE of ReserveStockWithOptimisticLock does to row and ledger.
LEMMA DeductFacts ==
    ASSUME TypeOK, ProbeInv, NEW r \in Checkouts, pc[r] = "reserve", Deduct(r),
           NEW p, p = probe[r].line.product
    PROVE  /\ p \in Products
           /\ DeductionOf(r) \in Deduction
           /\ inventory[p].version = probe[r].row.version
           /\ inventory' = [inventory EXCEPT ![p] =
                 Written(inventory[p], inventory[p].quantity - probe[r].line.quantity)]
           /\ inventory'[p] \in Row
           /\ inventory' \in [Products -> Row \cup {None}]
           /\ ledger' = [ledger EXCEPT ![p] = Append(ledger[p], DeductionOf(r))]
           /\ ledger' \in [Products -> Seq(Deduction)]
           /\ Len(ledger'[p]) = Len(ledger[p]) + 1
           /\ ledger'[p][Len(ledger[p]) + 1] = DeductionOf(r)
           /\ \A k \in 1 .. Len(ledger[p]) : ledger'[p][k] = ledger[p][k]
           /\ \A q \in Products \ {p} :
                 ledger'[q] = ledger[q] /\ inventory'[q] = inventory[q]
<1>1. /\ p \in Products
      /\ probe[r].line \in Line
      /\ probe[r].line.quantity \in Int
      /\ probe[r].row \in Row
      /\ inventory[p] \in Row
  BY ProbeType
<1>2. DeductionOf(r) \in Deduction
  BY <1>1 DEF DeductionOf, Deduction
<1>3. /\ inventory[p].version = probe[r].row.version
      /\ inventory[p].quantity - inventory[p].reserved >= probe[r].line.quantity
  BY DEF Deduct, ReserveMatches, AvailableQuantity
<1>4. inventory' = [inventory EXCEPT ![p] =
         Written(inventory[p], inventory[p].quantity - probe[r].line.quantity)]
  BY DEF Deduct, ReserveUpdate
<1>5. Written(inventory[p], inventory[p].quantity - probe[r].line.quantity) \in Row
  <2>1. inventory[p].quantity - probe[r].line.quantity \in Nat
    BY <1>1, <1>3 DEF Row
  <2>2. inventory[p].reserved \in Nat /\ inventory[p].version + 1 \in Nat \ {0}
    BY <1>1 DEF Row
  <2> QED
    BY <2>1, <2>2 DEF Row, Written
<1>6. ledger' = [ledger EXCEPT ![p] = Append(ledger[p], DeductionOf(r))]
  BY DEF Deduct, DeductionOf
<1>7. /\ inventory'[p] \in Row
      /\ inventory' \in [Products -> Row \cup {None}]
      /\ \A q \in Products \ {p} : inventory'[q] = inventory[q]
  BY <1>1, <1>4, <1>5 DEF TypeOK, InvTypeOK
<1>8. ledger[p] \in Seq(Deduction) /\ ledger'[p] = Append(ledger[p], DeductionOf(r))
  BY <1>1, <1>6 DEF TypeOK
<1>9. /\ ledger' \in [Products -> Seq(Deduction)]
      /\ \A q \in Products \ {p} : ledger'[q] = ledger[q]
  BY <1>1, <1>2, <1>6, <1>8 DEF TypeOK
<1>10. /\ Len(ledger'[p]) = Len(ledger[p]) + 1
       /\ ledger'[p][Len(ledger[p]) + 1] = DeductionOf(r)
       /\ \A k \in 1 .. Len(ledger[p]) : ledger'[p][k] = ledger[p][k]
  BY <1>2, <1>8
<1> QED
  BY <1>1, <1>2, <1>3, <1>4, <1>6, <1>7, <1>9, <1>10

\* The steps of a checkout keep every store and local well typed.
LEMMA CheckoutStepType ==
    ASSUME TypeOK, ProbeInv, LoopInv, NEW r \in Checkouts, CheckoutStep(r)
    PROVE  TypeOK'
<1> USE DEF TypeOK, Answer, Advance, PcStates, Answers, invVars, cartVars
<1>1. CASE ReadCart(r)
  <2>1. PICK c \in GetByUserID(buyer[r]) : /\ lines' = [lines EXCEPT ![r] = c]
                                          /\ todo' = [todo EXCEPT ![r] = c]
    BY <1>1 DEF ReadCart
  <2>2. c \in SUBSET Line
    BY <2>1, GetByUserIDType
  <2> QED
    BY <1>1, <2>1, <2>2 DEF ReadCart, InvTypeOK, CartTypeOK
<1>2. CASE ReadCartEmpty(r)
  BY <1>2 DEF ReadCartEmpty, InvTypeOK, CartTypeOK
<1>3. ASSUME NEW l \in todo[r], ProbeStock(r, l) PROVE TypeOK'
  <2>1. l \in Line /\ inventory[l.product] \in Row
    BY <1>3 DEF ProbeStock, InvTypeOK, Line
  <2>2. [line |-> l, row |-> inventory[l.product]] \in Probe
    BY <2>1 DEF Probe
  <2> QED
    BY <1>3, <2>2 DEF ProbeStock, InvTypeOK, CartTypeOK
<1>4. ASSUME NEW l \in todo[r], ProbeInsufficient(r, l) PROVE TypeOK'
  BY <1>4 DEF ProbeInsufficient, InvTypeOK, CartTypeOK
<1>5. ASSUME NEW l \in todo[r], ProbeFails(r, l) PROVE TypeOK'
  <2>1. l \in Line
    OBVIOUS
  <2> QED
    BY <1>5, <2>1 DEF ProbeFails, InvTypeOK, CartTypeOK
<1>6. CASE Reserve(r)
  <2>1. pc[r] = "reserve" /\ Deduct(r)
    BY <1>6 DEF Reserve
  <2>2. /\ inventory' \in [Products -> Row \cup {None}]
        /\ ledger' \in [Products -> Seq(Deduction)]
    BY <2>1, DeductFacts
  <2> QED
    BY <1>6, <2>2 DEF Reserve, InvTypeOK, CartTypeOK
<1>7. CASE ReserveUnacknowledged(r)
  <2>1. pc[r] = "reserve" /\ Deduct(r)
    BY <1>7 DEF ReserveUnacknowledged
  <2>2. /\ inventory' \in [Products -> Row \cup {None}]
        /\ ledger' \in [Products -> Seq(Deduction)]
    BY <2>1, DeductFacts
  <2> QED
    BY <1>7, <2>2 DEF ReserveUnacknowledged, InvTypeOK, CartTypeOK
<1>8. CASE ReserveFails(r)
  BY <1>8 DEF ReserveFails, InvTypeOK, CartTypeOK
<1>9. CASE ReserveNoRows(r)
  BY <1>9 DEF ReserveNoRows, InvTypeOK, CartTypeOK
<1>10. CASE Diagnose(r)
  BY <1>10 DEF Diagnose, InvTypeOK, CartTypeOK
<1>11. CASE Persist(r)
  BY <1>11 DEF Persist, InsertOrder, Order, InvTypeOK, CartTypeOK
<1>12. CASE PersistUnacknowledged(r)
  BY <1>12 DEF PersistUnacknowledged, InsertOrder, Order, InvTypeOK, CartTypeOK
<1>13. CASE PersistFails(r)
  BY <1>13 DEF PersistFails, InvTypeOK, CartTypeOK
<1>14. CASE ClearCart(r)
  <2>1. carts' \in [Users -> SUBSET Line]
    BY <1>14, StoreCartType DEF ClearCart, CartTypeOK
  <2>2. dispatched' \in SUBSET Jobs
    BY <1>14 DEF ClearCart, Jobs
  <2> QED
    BY <1>14, <2>1, <2>2 DEF ClearCart, InvTypeOK, CartTypeOK
<1> QED
  BY <1>1, <1>2, <1>3, <1>4, <1>5, <1>6, <1>7, <1>8, <1>9, <1>10, <1>11, <1>12,
     <1>13, <1>14 DEF CheckoutStep

\* Every step keeps the types.
LEMMA TypeStep == ASSUME IndInv, [Next]_vars PROVE TypeOK'
<1> USE DEF IndInv
<1>1. CASE InvNext /\ UNCHANGED <<cartVars, coVars>>
  <2>1. InvTypeOK'
    BY <1>1, InvNextType DEF TypeOK
  <2> QED
    BY <1>1, <2>1 DEF TypeOK, cartVars, coVars, CartTypeOK
<1>2. CASE CartNext /\ UNCHANGED <<invVars, coVars>>
  <2>1. CartTypeOK'
    BY <1>2, CartNextType DEF TypeOK
  <2> QED
    BY <1>2, <2>1 DEF TypeOK, invVars, coVars, InvTypeOK
<1>3. ASSUME NEW r \in Checkouts, CheckoutStep(r) PROVE TypeOK'
  BY <1>3, CheckoutStepType
<1>4. CASE Crash
  <2>1. pc' \in [Checkouts -> PcStates]
    BY <1>4 DEF Crash, TypeOK, PcStates
  <2>2. creation' \in [Products -> CreationStates]
    BY <1>4 DEF Crash, InvCrash, TypeOK, InvTypeOK, CreationStates
  <2>3. editPc' \in [Edits -> EditStates]
    BY <1>4 DEF Crash, CartCrash, TypeOK, CartTypeOK, EditStates
  <2> QED
    BY <1>4, <2>1, <2>2, <2>3 DEF Crash, TypeOK, InvTypeOK, CartTypeOK
<1>5. CASE UNCHANGED vars
  BY <1>5 DEF vars, invVars, cartVars, coVars, TypeOK, InvTypeOK, CartTypeOK
<1> QED
  BY <1>1, <1>2, <1>3, <1>4, <1>5 DEF Next

--------------------------------------------------------------------------------
(* Steps by what they do to the stock                                         *)

\* A step leaves rows and ledger alone, gives a product its row, or deducts.
StockUnchanged == UNCHANGED <<inventory, stocked, ledger>>

Stocks(p) ==
    /\ creation[p] = "inserted"
    /\ creation' = [creation EXCEPT ![p] = "done"]
    /\ \E q \in Nat : /\ inventory' = [inventory EXCEPT ![p] = NewRow(q)]
                      /\ stocked' = [stocked EXCEPT ![p] = q]
    /\ ledger' = ledger

Deducts(r) ==
    /\ pc[r] = "reserve"
    /\ Deduct(r)
    /\ stocked' = stocked

\* Only a CreateProduct, a reserving checkout or nothing touches the stock.
LEMMA StockSteps ==
    ASSUME IndInv, [Next]_vars
    PROVE  \/ StockUnchanged
           \/ (\E p \in Products : Stocks(p)) /\ UNCHANGED coVars
           \/ \E r \in Checkouts : /\ Deducts(r)
                                   /\ Reserve(r) \/ ReserveUnacknowledged(r)
<1>1. CASE InvNext /\ UNCHANGED <<cartVars, coVars>>
  <2>1. PICK p \in Products : \/ InsertProduct(p)
                             \/ InsertProductUnacknowledged(p)
                             \/ InitialStock(p)
                             \/ InitialStockFails(p)
    BY <1>1 DEF InvNext
  <2>2. CASE InitialStock(p)
    <3>1. PICK q \in StockQuantities : SetStock(p, q)
      BY <2>2 DEF InitialStock
    <3>2. q \in Nat
      BY <3>1, InventoryAssumption DEF SetStock
    <3>3. creation[p] = "inserted" /\ inventory[p] = None
      BY <2>2 DEF InitialStock, IndInv, RowInv
    <3>4. inventory' = [inventory EXCEPT ![p] = NewRow(q)]
      BY <3>1, <3>3 DEF SetStock
    <3> QED
      BY <1>1, <2>2, <3>1, <3>2, <3>3, <3>4 DEF Stocks, SetStock, InitialStock, coVars
  <2>3. CASE ~InitialStock(p)
    BY <1>1, <2>1, <2>3 DEF InsertProduct, InsertProductUnacknowledged,
         InitialStockFails, StockUnchanged, coVars
  <2> QED
    BY <2>2, <2>3
<1>2. CASE CartNext /\ UNCHANGED <<invVars, coVars>>
  BY <1>2 DEF invVars, coVars, StockUnchanged
<1>3. ASSUME NEW r \in Checkouts, CheckoutStep(r)
      PROVE  \/ StockUnchanged
             \/ Deducts(r) /\ (Reserve(r) \/ ReserveUnacknowledged(r))
  <2>1. CASE Reserve(r) \/ ReserveUnacknowledged(r)
    BY <2>1 DEF Reserve, ReserveUnacknowledged, Deducts
  <2>2. CASE ~(Reserve(r) \/ ReserveUnacknowledged(r))
    BY <1>3, <2>2 DEF CheckoutStep, StockUnchanged, ReadCart, ReadCartEmpty,
         ProbeStock, ProbeInsufficient, ProbeFails, ReserveFails, ReserveNoRows,
         Diagnose, Persist, PersistUnacknowledged, PersistFails, ClearCart, invVars
  <2> QED
    BY <2>1, <2>2
<1>4. CASE Crash
  BY <1>4 DEF Crash, StockUnchanged
<1>5. CASE UNCHANGED vars
  BY <1>5 DEF vars, invVars, coVars, StockUnchanged
<1> QED
  BY <1>1, <1>2, <1>3, <1>4, <1>5 DEF Next

\* A row exists only after its product was inserted; deductions keep it.
LEMMA RowStep == ASSUME IndInv, [Next]_vars PROVE RowInv'
<1>1. ASSUME NEW p \in Products
      PROVE  creation'[p] \in {"none", "inserted"} =>
                creation[p] \in {"none", "inserted"}
  <2>1. creation' # creation => InvNext \/ Crash
    BY DEF Next, CheckoutStep, ReadCart, ReadCartEmpty, ProbeStock,
         ProbeInsufficient, ProbeFails, Reserve, ReserveUnacknowledged, ReserveFails,
         ReserveNoRows, Diagnose, Persist, PersistUnacknowledged, PersistFails,
         ClearCart, invVars, vars
  <2>2. CASE InvNext
    BY <2>2 DEF InvNext, InsertProduct, InsertProductUnacknowledged, InitialStock,
         InitialStockFails, IndInv, TypeOK, InvTypeOK
  <2>3. CASE Crash
    BY <2>3 DEF Crash, InvCrash, IndInv, TypeOK, InvTypeOK
  <2> QED
    BY <2>1, <2>2, <2>3
<1>2. CASE StockUnchanged
  BY <1>1, <1>2 DEF StockUnchanged, RowInv, IndInv
<1>3. ASSUME NEW p \in Products, Stocks(p), UNCHANGED coVars PROVE RowInv'
  <2>1. PICK q \in Nat : inventory' = [inventory EXCEPT ![p] = NewRow(q)]
    BY <1>3 DEF Stocks
  <2>2. NewRow(q) # None /\ NewRow(q).reserved = 0
    <3>1. NewRow(q) \in Row
      BY DEF NewRow, Row
    <3> QED
      BY <3>1, InventoryAssumption DEF NewRow
  <2>3. inventory'[p] = NewRow(q) /\ \A x \in Products \ {p} : inventory'[x] = inventory[x]
    BY <2>1 DEF IndInv, TypeOK, InvTypeOK
  <2>4. creation'[p] \notin {"none", "inserted"}
    BY <1>3 DEF Stocks, IndInv, TypeOK, InvTypeOK
  <2> QED
    BY <1>1, <1>3, <2>2, <2>3, <2>4 DEF RowInv, IndInv, Stocks
<1>4. ASSUME NEW r \in Checkouts, Deducts(r) PROVE RowInv'
  <2> DEFINE p == probe[r].line.product
  <2>1. /\ p \in Products
        /\ inventory[p] \in Row
        /\ inventory' = [inventory EXCEPT ![p] =
              Written(inventory[p], inventory[p].quantity - probe[r].line.quantity)]
        /\ inventory'[p] \in Row
        /\ \A x \in Products \ {p} : ledger'[x] = ledger[x] /\ inventory'[x] = inventory[x]
    BY <1>4, DeductFacts, ProbeType DEF Deducts, IndInv
  <2>2. inventory'[p].reserved = inventory[p].reserved
    BY <2>1 DEF Written, IndInv, TypeOK, InvTypeOK
  <2>3. inventory[p] # None /\ inventory'[p] # None
    BY <2>1, InventoryAssumption
  <2> QED
    BY <1>1, <2>1, <2>2, <2>3 DEF RowInv, IndInv
<1> QED
  BY <1>2, <1>3, <1>4, StockSteps

\* Every step keeps the deductions of a product a chain.
LEMMA ChainStep == ASSUME IndInv, [Next]_vars PROVE StockChain'
<1>1. CASE StockUnchanged
  BY <1>1 DEF StockUnchanged, StockChain, Balance, IndInv
<1>2. ASSUME NEW p \in Products, Stocks(p) PROVE StockChain'
  <2>1. PICK q \in Nat : /\ inventory' = [inventory EXCEPT ![p] = NewRow(q)]
                         /\ stocked' = [stocked EXCEPT ![p] = q]
    BY <1>2 DEF Stocks
  <2>2. ledger' = ledger /\ ledger[p] = <<>>
    BY <1>2 DEF Stocks, IndInv, RowInv
  <2>3. inventory'[p] = NewRow(q) /\ stocked'[p] = q
    BY <2>1 DEF IndInv, TypeOK, InvTypeOK
  <2>4. \A x \in Products \ {p} : inventory'[x] = inventory[x] /\ stocked'[x] = stocked[x]
    BY <2>1 DEF IndInv, TypeOK, InvTypeOK
  <2>5. Len(ledger[p]) = 0
    BY <2>2
  <2> QED
    BY <2>2, <2>3, <2>4, <2>5 DEF StockChain, Balance, IndInv, NewRow
<1>3. ASSUME NEW r \in Checkouts, Deducts(r) PROVE StockChain'
  <2>a. PICK p \in Products, q \in Int, row \in Row :
          /\ p = probe[r].line.product
          /\ q = probe[r].line.quantity
          /\ row = probe[r].row
    BY <1>3, ProbeType DEF Deducts, IndInv
  <2>b. PICK n \in Nat : n = Len(ledger[p])
    BY DEF IndInv, TypeOK
  <2>0. /\ p = probe[r].line.product
        /\ n = Len(ledger[p])
        /\ q = probe[r].line.quantity
        /\ row = probe[r].row
    BY <2>a, <2>b
  <2>1. /\ inventory[p].version = row.version
        /\ inventory' = [inventory EXCEPT ![p] = Written(inventory[p], inventory[p].quantity - q)]
        /\ Len(ledger'[p]) = n + 1
        /\ ledger'[p][n + 1] = DeductionOf(r)
        /\ \A k \in 1 .. n : ledger'[p][k] = ledger[p][k]
        /\ \A x \in Products \ {p} : ledger'[x] = ledger[x] /\ inventory'[x] = inventory[x]
    <3>1. TypeOK /\ ProbeInv /\ pc[r] = "reserve" /\ Deduct(r)
      BY <1>3 DEF Deducts, IndInv
    <3>2. /\ inventory[p].version = probe[r].row.version
          /\ inventory' = [inventory EXCEPT ![p] =
                Written(inventory[p], inventory[p].quantity - probe[r].line.quantity)]
      BY <2>0, <3>1, DeductFacts
    <3>3. /\ Len(ledger'[p]) = Len(ledger[p]) + 1
          /\ ledger'[p][Len(ledger[p]) + 1] = DeductionOf(r)
          /\ \A k \in 1 .. Len(ledger[p]) : ledger'[p][k] = ledger[p][k]
          /\ \A x \in Products \ {p} : ledger'[x] = ledger[x] /\ inventory'[x] = inventory[x]
      BY <2>0, <3>1, DeductFacts
    <3> QED
      BY <2>0, <3>2, <3>3
  <2>2. stocked' = stocked
    BY <1>3 DEF Deducts
  <2>3. inventory[p] # None /\ row.quantity = Balance(p, row.version)
    BY <1>3, <2>0 DEF Deducts, IndInv, ProbeInv, Explained
  <2>4. row.version = n + 1 /\ row.quantity = inventory[p].quantity
    BY <2>0, <2>1, <2>3 DEF StockChain, IndInv
  <2>5. ASSUME NEW k \in 1 .. n + 1 PROVE Balance(p, k)' = Balance(p, k)
    <3>1. k # 1 => k - 1 \in 1 .. n
      OBVIOUS
    <3>2. k # 1 => ledger'[p][k - 1] = ledger[p][k - 1]
      BY <2>1, <3>1
    <3> QED
      BY <2>2, <3>2 DEF Balance
  <2>6. Balance(p, n + 2)' = row.quantity - q
    <3>1. n + 2 # 1 /\ n + 2 - 1 = n + 1
      OBVIOUS
    <3>2. DeductionOf(r).saw = row /\ DeductionOf(r).line.quantity = q
      BY <2>0 DEF DeductionOf
    <3>3. Balance(p, n + 2)' =
             ledger'[p][n + 1].saw.quantity - ledger'[p][n + 1].line.quantity
      BY <3>1 DEF Balance
    <3> QED
      BY <2>1, <3>2, <3>3
  <2>7. inventory'[p].version = n + 2 /\ inventory'[p].quantity = row.quantity - q
    <3>1. inventory'[p] = Written(inventory[p], inventory[p].quantity - q)
      BY <2>1 DEF IndInv, TypeOK, InvTypeOK
    <3> QED
      BY <2>1, <2>4, <3>1 DEF Written
  <2>8. \A k \in 1 .. n + 1 : /\ ledger'[p][k].saw.version = k
                             /\ ledger'[p][k].saw.quantity = Balance(p, k)'
    <3> TAKE k \in 1 .. n + 1
    <3>2. CASE k \in 1 .. n
      <4>1. /\ ledger[p][k].saw.version = k
            /\ ledger[p][k].saw.quantity = Balance(p, k)
        BY <2>0, <3>2 DEF StockChain, IndInv
      <4> QED
        BY <2>1, <2>5, <3>2, <4>1
    <3>3. CASE k = n + 1
      <4>1. ledger'[p][k].saw = row
        BY <2>0, <2>1, <3>3 DEF DeductionOf
      <4>2. Balance(p, k)' = Balance(p, k)
        BY <2>5
      <4> QED
        BY <2>3, <2>4, <3>3, <4>1, <4>2
    <3> QED
      BY <3>2, <3>3
  <2>9. ASSUME NEW x \in Products \ {p}
        PROVE  \A k \in Int : Balance(x, k)' = Balance(x, k)
    BY <2>1, <2>2 DEF Balance
  <2>10. ASSUME NEW x \in Products \ {p}
         PROVE  Len(ledger[x]) \in Nat
    BY DEF IndInv, TypeOK
  <2>11. ASSUME NEW x \in Products
         PROVE  /\ \A k \in 1 .. Len(ledger'[x]) :
                     /\ ledger'[x][k].saw.version = k
                     /\ ledger'[x][k].saw.quantity = Balance(x, k)'
                /\ inventory'[x] # None =>
                     /\ inventory'[x].version = Len(ledger'[x]) + 1
                     /\ inventory'[x].quantity = Balance(x, Len(ledger[x]) + 1)'
    <3>1. CASE x = p
      BY <2>1, <2>6, <2>7, <2>8, <3>1
    <3>2. CASE x # p
      BY <2>1, <2>9, <2>10, <3>2 DEF StockChain, IndInv
    <3> QED
      BY <3>1, <3>2
  <2> QED
    BY <2>11 DEF StockChain
<1> QED
  BY <1>1, <1>2, <1>3, StockSteps

--------------------------------------------------------------------------------
(* Steps by what they do to one checkout                                      *)

\* What checkout r keeps for itself, and its order.
Local(r) ==
    <<pc[r], lines[r], todo[r], probe[r], skipped[r], answer[r], orders[r]>>

Dies(r) ==
    /\ InFlight(r)
    /\ pc'[r] = "crashed"
    /\ UNCHANGED <<lines, todo, probe, skipped, answer, orders>>

\* Only its own steps and a crash change what a checkout keeps.
LEMMA LocalSteps ==
    ASSUME IndInv, [Next]_vars, NEW r \in Checkouts
    PROVE  UNCHANGED Local(r) \/ CheckoutStep(r) \/ Dies(r)
<1>1. CASE UNCHANGED coVars
  BY <1>1 DEF coVars, Local
<1>2. ASSUME NEW s \in Checkouts, CheckoutStep(s), s # r PROVE UNCHANGED Local(r)
  <2> USE DEF IndInv, TypeOK, Local, Answer, Advance
  <2>1. CASE ReadCart(s) \/ ReadCartEmpty(s)
    BY <1>2, <2>1 DEF ReadCart, ReadCartEmpty
  <2>2. CASE \E l \in todo[s] :
               ProbeStock(s, l) \/ ProbeInsufficient(s, l) \/ ProbeFails(s, l)
    BY <1>2, <2>2 DEF ProbeStock, ProbeInsufficient, ProbeFails
  <2>3. CASE Reserve(s) \/ ReserveUnacknowledged(s) \/ ReserveFails(s)
             \/ ReserveNoRows(s) \/ Diagnose(s)
    BY <1>2, <2>3 DEF Reserve, ReserveUnacknowledged, ReserveFails, ReserveNoRows,
         Diagnose
  <2>4. CASE Persist(s) \/ PersistUnacknowledged(s) \/ PersistFails(s) \/ ClearCart(s)
    BY <1>2, <2>4 DEF Persist, PersistUnacknowledged, PersistFails, ClearCart,
         InsertOrder
  <2> QED
    BY <1>2, <2>1, <2>2, <2>3, <2>4 DEF CheckoutStep
<1>3. CASE Crash
  BY <1>3 DEF Crash, Dies, Local, InFlight, IndInv, TypeOK
<1> QED
  BY <1>1, <1>2, <1>3 DEF Next, vars

\* The ledger of a product only grows, at its end, by the deduction of a checkout
\* that reserves; a row stays, and so does what each version must hold.
LEMMA LedgerGrows ==
    ASSUME IndInv, [Next]_vars, NEW p \in Products
    PROVE  /\ Len(ledger[p]) \in Nat
           /\ Len(ledger'[p]) \in Nat
           /\ Len(ledger'[p]) >= Len(ledger[p])
           /\ \A k \in 1 .. Len(ledger[p]) : ledger'[p][k] = ledger[p][k]
           /\ \A k \in 1 .. Len(ledger'[p]) :
                 \/ k \in 1 .. Len(ledger[p])
                 \/ /\ k = Len(ledger[p]) + 1
                    /\ \E r \in Checkouts :
                          /\ Reserve(r) \/ ReserveUnacknowledged(r)
                          /\ Deducts(r)
                          /\ probe[r].line.product = p
                          /\ ledger'[p][k] = DeductionOf(r)
           /\ inventory[p] # None =>
                 /\ inventory'[p] # None
                 /\ \A v \in 1 .. Len(ledger[p]) + 1 : Balance(p, v)' = Balance(p, v)
<1>1. Len(ledger[p]) \in Nat
  BY DEF IndInv, TypeOK
<1>2. CASE StockUnchanged
  BY <1>1, <1>2 DEF StockUnchanged, Balance
<1>3. ASSUME NEW x \in Products, Stocks(x),
             inventory[p] # None
      PROVE  inventory'[p] = inventory[p] /\ stocked'[p] = stocked[p]
  BY <1>3 DEF Stocks, IndInv, RowInv, TypeOK, InvTypeOK
<1>4. ASSUME NEW x \in Products, Stocks(x) PROVE ledger' = ledger
  BY <1>4 DEF Stocks
<1>5. CASE \E x \in Products : Stocks(x)
  BY <1>1, <1>3, <1>4, <1>5 DEF Balance
<1>6. ASSUME NEW r \in Checkouts, Deducts(r), Reserve(r) \/ ReserveUnacknowledged(r)
      PROVE  /\ Len(ledger'[p]) \in {Len(ledger[p]), Len(ledger[p]) + 1}
             /\ \A k \in 1 .. Len(ledger[p]) : ledger'[p][k] = ledger[p][k]
             /\ Len(ledger'[p]) = Len(ledger[p]) + 1 =>
                   /\ probe[r].line.product = p
                   /\ ledger'[p][Len(ledger[p]) + 1] = DeductionOf(r)
             /\ inventory[p] # None => inventory'[p] # None
             /\ stocked' = stocked
  <2>1. CASE p = probe[r].line.product
    <3>1. /\ Len(ledger'[p]) = Len(ledger[p]) + 1
          /\ ledger'[p][Len(ledger[p]) + 1] = DeductionOf(r)
          /\ \A k \in 1 .. Len(ledger[p]) : ledger'[p][k] = ledger[p][k]
          /\ inventory'[p] \in Row
      BY <1>6, <2>1, DeductFacts DEF Deducts, IndInv
    <3> QED
      BY <1>6, <2>1, <3>1, InventoryAssumption DEF Deducts
  <2>2. CASE p # probe[r].line.product
    <3>1. ledger'[p] = ledger[p] /\ inventory'[p] = inventory[p]
      BY <1>6, <2>2, DeductFacts DEF Deducts, IndInv
    <3> QED
      BY <1>1, <1>6, <3>1 DEF Deducts
  <2> QED
    BY <2>1, <2>2
<1>7. ASSUME NEW r \in Checkouts, Deducts(r), Reserve(r) \/ ReserveUnacknowledged(r),
             NEW v \in 1 .. Len(ledger[p]) + 1
      PROVE  Balance(p, v)' = Balance(p, v)
  <2>1. v # 1 => v - 1 \in 1 .. Len(ledger[p])
    BY <1>1
  <2>2. v # 1 => ledger'[p][v - 1] = ledger[p][v - 1]
    BY <1>6, <1>7, <2>1
  <2> QED
    BY <1>7, <2>2 DEF Balance, Deducts
<1>8. ASSUME NEW r \in Checkouts, Deducts(r), Reserve(r) \/ ReserveUnacknowledged(r)
      PROVE  \A k \in 1 .. Len(ledger'[p]) :
                 \/ k \in 1 .. Len(ledger[p])
                 \/ /\ k = Len(ledger[p]) + 1
                    /\ probe[r].line.product = p
                    /\ ledger'[p][k] = DeductionOf(r)
  BY <1>1, <1>6, <1>8
<1>9. CASE \E r \in Checkouts : Deducts(r) /\ (Reserve(r) \/ ReserveUnacknowledged(r))
  <2>1. PICK r \in Checkouts : Deducts(r) /\ (Reserve(r) \/ ReserveUnacknowledged(r))
    BY <1>9
  <2>2. Len(ledger'[p]) \in Nat /\ Len(ledger'[p]) >= Len(ledger[p])
    BY <1>1, <1>6, <2>1
  <2> QED
    BY <1>1, <1>6, <1>7, <1>8, <2>1, <2>2
<1> QED
  BY <1>2, <1>5, <1>9, StockSteps

\* A deduction recorded for r in this step is made by a step of r out of "reserve".
LEMMA OwnDeduction ==
    ASSUME IndInv, [Next]_vars, NEW p \in Products, NEW r \in Checkouts,
           NEW k \in 1 .. Len(ledger'[p]), k \notin 1 .. Len(ledger[p]),
           ledger'[p][k].by = r
    PROVE  /\ Reserve(r) \/ ReserveUnacknowledged(r)
           /\ pc[r] = "reserve"
           /\ pc'[r] \in {"probe", "persist", "done"}
           /\ answer'[r] # "conflict"
           /\ ledger'[p][k].line = probe[r].line
           /\ probe[r].line.product = p
           /\ k = Len(ledger[p]) + 1
<1>1. PICK s \in Checkouts : /\ Reserve(s) \/ ReserveUnacknowledged(s)
                            /\ Deducts(s)
                            /\ probe[s].line.product = p
                            /\ ledger'[p][k] = DeductionOf(s)
                            /\ k = Len(ledger[p]) + 1
  BY LedgerGrows
<1>2. s = r
  BY <1>1 DEF DeductionOf
<1>3. pc'[r] \in {"probe", "persist", "done"} /\ answer'[r] # "conflict"
  <2>1. answer[r] # "conflict"
    BY <1>1, <1>2 DEF Deducts, IndInv, StoredInv
  <2> QED
    BY <1>1, <1>2, <2>1 DEF Reserve, ReserveUnacknowledged, Advance, Answer, IndInv, TypeOK
<1> QED
  BY <1>1, <1>2, <1>3 DEF Deducts, DeductionOf

\* The row a checkout holds stays explained by the ledger.
LEMMA ProbeStep == ASSUME IndInv, [Next]_vars PROVE ProbeInv'
<1> SUFFICES ASSUME NEW r \in Checkouts,
                    pc'[r] \in {"reserve", "diagnose"} \/ answer'[r] = "conflict"
             PROVE  Explained(r, probe[r])'
  BY DEF ProbeInv
<1>1. CASE probe'[r] = probe[r]
           /\ (pc[r] \in {"reserve", "diagnose"} \/ answer[r] = "conflict")
  <2>1. PICK pr : pr = probe[r]
    OBVIOUS
  <2>2. PICK p \in Products : p = pr.line.product
    BY <1>1, <2>1, ProbeType DEF IndInv
  <2>3. pr.row.version \in Nat \ {0}
    BY <1>1, <2>1, ProbeType DEF IndInv
  <2>4. Explained(r, pr)
    BY <1>1, <2>1 DEF ProbeInv, IndInv
  <2>5. pr.row.version \in 1 .. Len(ledger[p]) + 1 /\ pr.row.version <= Len(ledger'[p]) + 1
    <3>1. pr.row.version <= Len(ledger[p]) + 1
      BY <2>2, <2>4 DEF Explained
    <3>2. /\ Len(ledger[p]) \in Nat
          /\ Len(ledger'[p]) \in Nat
          /\ Len(ledger'[p]) >= Len(ledger[p])
      BY LedgerGrows
    <3> QED
      BY <2>3, <3>1, <3>2
  <2>6. inventory'[p] # None /\ Balance(p, pr.row.version)' = Balance(p, pr.row.version)
    BY <2>2, <2>4, <2>5, LedgerGrows DEF Explained
  <2>7. ASSUME NEW k \in 1 .. Len(ledger'[p]), ledger'[p][k].by = r
        PROVE  k < pr.row.version
    <3>1. k \in 1 .. Len(ledger[p])
      BY <1>1, <2>7, OwnDeduction
    <3>2. ledger'[p][k] = ledger[p][k]
      BY <3>1, LedgerGrows
    <3> QED
      BY <2>2, <2>4, <2>7, <3>1, <3>2 DEF Explained
  <2>8. Explained(r, pr)'
    BY <2>2, <2>4, <2>5, <2>6, <2>7 DEF Explained
  <2>9. probe'[r] = pr
    BY <1>1, <2>1
  <2> QED
    BY <2>8, <2>9 DEF Explained, Balance
<1>2. ASSUME NEW l \in todo[r], ProbeStock(r, l)
      PROVE  Explained(r, probe[r])'
  <2>1. PICK p \in Products : p = l.product
    BY DEF IndInv, TypeOK, Line
  <2>2. PICK row \in Row : row = inventory[p]
    BY <1>2, <2>1 DEF ProbeStock, IndInv, TypeOK, InvTypeOK
  <2>3. PICK pr : pr = [line |-> l, row |-> row]
    OBVIOUS
  <2>4. /\ probe'[r] = pr
        /\ inventory[p] # None
        /\ row.quantity - row.reserved >= l.quantity
        /\ StockUnchanged
    BY <1>2, <2>1, <2>2, <2>3 DEF ProbeStock, AvailableQuantity, StockUnchanged,
         invVars, IndInv, TypeOK
  <2>5. /\ row.version = Len(ledger[p]) + 1
        /\ row.quantity = Balance(p, row.version)
        /\ row.reserved = 0
    BY <2>2, <2>4 DEF StockChain, RowInv, IndInv
  <2>6. row.quantity >= l.quantity
    BY <2>4, <2>5 DEF Row, IndInv, TypeOK, Line
  <2>7. pr # None
    <3>1. l \in Line
      BY DEF IndInv, TypeOK
    <3>2. pr \in Probe
      BY <2>3, <3>1 DEF Probe
    <3> QED
      BY <3>2, CheckoutAssumption
  <2>8. Len(ledger[p]) \in Nat
    BY LedgerGrows
  <2>9. Explained(r, pr)
    BY <2>1, <2>3, <2>4, <2>5, <2>6, <2>7, <2>8 DEF Explained
  <2>10. Explained(r, pr)'
    BY <2>4, <2>9 DEF StockUnchanged, Explained, Balance
  <2> QED
    BY <2>4, <2>10 DEF Explained, Balance
<1>3. CASE CheckoutStep(r) /\ ~ \E l \in todo[r] : ProbeStock(r, l)
  <2>1. CASE ReserveNoRows(r)
    BY <1>1, <2>1 DEF ReserveNoRows
  <2>2. CASE Diagnose(r)
    BY <1>1, <2>2 DEF Diagnose
  <2>3. CASE ~ReserveNoRows(r) /\ ~Diagnose(r)
    <3>1. pc'[r] \notin {"reserve", "diagnose"} /\ answer'[r] # "conflict"
      BY <1>3, <2>3 DEF CheckoutStep, ReadCart, ReadCartEmpty, ProbeInsufficient,
           ProbeFails, Reserve, ReserveUnacknowledged, ReserveFails, Persist,
           PersistUnacknowledged, PersistFails, ClearCart, Answer, Advance, IndInv,
           TypeOK, StoredInv
    <3> QED
      BY <3>1
  <2> QED
    BY <2>1, <2>2, <2>3
<1>4. CASE UNCHANGED Local(r)
  BY <1>1, <1>4 DEF Local
<1>5. CASE Dies(r)
  BY <1>1, <1>5 DEF Dies
<1>6. CASE \E l \in todo[r] : ProbeStock(r, l)
  <2>1. PICK l \in todo[r] : ProbeStock(r, l)
    BY <1>6
  <2> QED
    BY <1>2, <2>1
<1> QED
  BY <1>3, <1>4, <1>5, <1>6, LocalSteps

\* An UPDATE with no matching row lost a race: with the version unchanged, the row
\* would still hold the quantity the probe saw, which was enough.
LEMMA BeatenStep == ASSUME IndInv, [Next]_vars PROVE BeatenInv'
<1> SUFFICES ASSUME NEW r \in Checkouts,
                    pc'[r] = "diagnose" \/ answer'[r] = "conflict"
             PROVE  probe'[r].row.version <= Len(ledger'[probe'[r].line.product])
  BY DEF BeatenInv
<1>1. CASE probe'[r] = probe[r] /\ (pc[r] = "diagnose" \/ answer[r] = "conflict")
  <2>1. /\ probe[r].line.product \in Products
        /\ probe[r].row.version \in Nat
    BY <1>1, ProbeType DEF IndInv
  <2>2. probe[r].row.version <= Len(ledger[probe[r].line.product])
    BY <1>1 DEF BeatenInv, IndInv
  <2> QED
    BY <1>1, <2>1, <2>2, LedgerGrows
<1>2. CASE ReserveNoRows(r)
  <2>1. PICK p \in Products, q \in Int, row \in Row :
          p = probe[r].line.product /\ q = probe[r].line.quantity /\ row = probe[r].row
    BY <1>2, ProbeType DEF ReserveNoRows, IndInv
  <2>2. ~ReserveMatches(p, q, row.version)
    BY <1>2, <2>1 DEF ReserveNoRows
  <2>3. /\ inventory[p] # None
        /\ row.version <= Len(ledger[p]) + 1
        /\ row.quantity = Balance(p, row.version)
        /\ row.quantity >= q
    BY <1>2, <2>1 DEF ReserveNoRows, ProbeInv, Explained, IndInv
  <2>4. /\ inventory[p].version = Len(ledger[p]) + 1
        /\ inventory[p].quantity = Balance(p, Len(ledger[p]) + 1)
        /\ inventory[p].reserved = 0
    BY <2>3 DEF StockChain, RowInv, IndInv
  <2>5. inventory[p].quantity \in Nat /\ row.version \in Nat /\ Len(ledger[p]) \in Nat
    BY <2>3, LedgerGrows DEF IndInv, TypeOK, InvTypeOK, Row
  <2>6. row.version # Len(ledger[p]) + 1
    BY <2>2, <2>3, <2>4, <2>5 DEF ReserveMatches, AvailableQuantity
  <2>7. row.version <= Len(ledger[p])
    BY <2>3, <2>5, <2>6
  <2>8. probe' = probe /\ ledger' = ledger
    BY <1>2 DEF ReserveNoRows
  <2> QED
    BY <2>1, <2>7, <2>8
<1>3. CASE CheckoutStep(r) /\ ~ReserveNoRows(r)
  <2>1. CASE Diagnose(r)
    BY <1>1, <2>1 DEF Diagnose
  <2>2. CASE ~Diagnose(r)
    <3>1. pc'[r] # "diagnose" /\ answer'[r] # "conflict"
      BY <1>3, <2>2 DEF CheckoutStep, ReadCart, ReadCartEmpty, ProbeStock,
           ProbeInsufficient, ProbeFails, Reserve, ReserveUnacknowledged, ReserveFails,
           Persist, PersistUnacknowledged, PersistFails, ClearCart, Answer, Advance,
           IndInv, TypeOK, StoredInv
    <3> QED
      BY <3>1
  <2> QED
    BY <2>1, <2>2
<1>4. CASE UNCHANGED Local(r)
  BY <1>1, <1>4 DEF Local
<1>5. CASE Dies(r)
  BY <1>1, <1>5 DEF Dies
<1> QED
  BY <1>2, <1>3, <1>4, <1>5, LocalSteps

\* Stock taken stays taken.
LEMMA TookForStays ==
    ASSUME IndInv, [Next]_vars, NEW r \in Checkouts, NEW l \in Line, TookFor(r, l)
    PROVE  TookFor(r, l)'
<1>1. PICK p \in Products : p = l.product
  BY DEF Line
<1>2. PICK k \in 1 .. Len(ledger[p]) : ledger[p][k].by = r /\ ledger[p][k].line = l
  BY <1>1 DEF TookFor
<1>3. k \in 1 .. Len(ledger'[p]) /\ ledger'[p][k] = ledger[p][k]
  BY LedgerGrows
<1> QED
  BY <1>1, <1>2, <1>3 DEF TookFor

\* A deduction takes the stock of the line in hand.
LEMMA DeductTakes ==
    ASSUME IndInv, NEW r \in Checkouts, Deducts(r), NEW l \in Line, l = probe[r].line
    PROVE  TookFor(r, l)'
<1>1. PICK p \in Products : p = l.product
  BY DEF Line
<1>2. /\ Len(ledger'[p]) = Len(ledger[p]) + 1
      /\ ledger'[p][Len(ledger[p]) + 1] = DeductionOf(r)
  BY <1>1, DeductFacts DEF Deducts, IndInv
<1>3. Len(ledger[p]) \in Nat
  BY DEF IndInv, TypeOK
<1>4. Len(ledger[p]) + 1 \in 1 .. Len(ledger'[p])
  BY <1>2, <1>3
<1>5. DeductionOf(r).by = r /\ DeductionOf(r).line = l
  BY DEF DeductionOf
<1> QED
  BY <1>1, <1>2, <1>4, <1>5 DEF TookFor

\* The loop keeps its books: a line leaves todo skipped or with its stock.
LEMMA LoopStep == ASSUME IndInv, [Next]_vars PROVE LoopInv'
<1> SUFFICES ASSUME NEW r \in Checkouts
             PROVE  /\ \A l \in lines'[r] \ (todo'[r] \cup skipped'[r]) : TookFor(r, l)'
                    /\ pc'[r] \in {"persist", "clear"} => todo'[r] = {}
                    /\ pc'[r] = "reserve" => probe'[r].line \in todo'[r]
  BY DEF LoopInv
<1> USE DEF IndInv
<1>1. \A l \in lines[r] \ (todo[r] \cup skipped[r]) : l \in Line /\ TookFor(r, l)'
  BY TookForStays DEF LoopInv, TypeOK
<1>2. CASE UNCHANGED Local(r)
  BY <1>1, <1>2 DEF LoopInv, Local
<1>3. CASE Dies(r)
  BY <1>1, <1>3 DEF LoopInv, Dies
<1>4. CASE Reserve(r)
  <2>1. PICK m \in Line : m = probe[r].line
    BY <1>4, ProbeType DEF Reserve
  <2>2. m \in todo[r]
    BY <1>4, <2>1 DEF LoopInv, Reserve
  <2>3. TookFor(r, m)'
    BY <1>4, <2>1, DeductTakes DEF Reserve, Deducts
  <2>4. /\ lines' = lines
        /\ skipped' = skipped
        /\ todo'[r] = todo[r] \ {m}
        /\ pc'[r] = IF todo[r] = {m} THEN "persist" ELSE "probe"
    BY <1>4, <2>1 DEF Reserve, Advance, TypeOK
  <2> QED
    BY <1>1, <2>2, <2>3, <2>4
<1>5. ASSUME NEW l \in todo[r], ProbeFails(r, l)
      PROVE  /\ \A m \in lines'[r] \ (todo'[r] \cup skipped'[r]) : TookFor(r, m)'
             /\ pc'[r] \in {"persist", "clear"} => todo'[r] = {}
             /\ pc'[r] = "reserve" => probe'[r].line \in todo'[r]
  <2>1. /\ lines' = lines
        /\ skipped'[r] = skipped[r] \cup {l}
        /\ todo'[r] = todo[r] \ {l}
        /\ pc'[r] = IF todo[r] = {l} THEN "persist" ELSE "probe"
    BY <1>5 DEF ProbeFails, Advance, TypeOK
  <2> QED
    BY <1>1, <1>5, <2>1
<1>6. CASE ReadCart(r)
  <2>1. lines'[r] = todo'[r] /\ pc'[r] = "probe"
    BY <1>6 DEF ReadCart, TypeOK
  <2> QED
    BY <2>1
<1>7. ASSUME NEW l \in todo[r], ProbeStock(r, l)
      PROVE  /\ \A m \in lines'[r] \ (todo'[r] \cup skipped'[r]) : TookFor(r, m)'
             /\ pc'[r] \in {"persist", "clear"} => todo'[r] = {}
             /\ pc'[r] = "reserve" => probe'[r].line \in todo'[r]
  BY <1>1, <1>7 DEF ProbeStock, TypeOK
<1>8. CASE \/ ReadCartEmpty(r) \/ ReserveUnacknowledged(r) \/ ReserveFails(r)
           \/ ReserveNoRows(r) \/ Diagnose(r) \/ Persist(r) \/ PersistUnacknowledged(r)
           \/ PersistFails(r) \/ ClearCart(r)
           \/ \E l \in todo[r] : ProbeInsufficient(r, l)
  <2>1. /\ lines' = lines /\ skipped' = skipped /\ todo' = todo
        /\ pc'[r] \in {"done", "diagnose", "clear"}
        /\ pc'[r] = "clear" => pc[r] = "persist"
    BY <1>8 DEF ReadCartEmpty, ReserveUnacknowledged, ReserveFails, ReserveNoRows,
         Diagnose, Persist, PersistUnacknowledged, PersistFails, ClearCart,
         ProbeInsufficient, Answer, TypeOK
  <2> QED
    BY <1>1, <2>1 DEF LoopInv
<1> QED
  BY <1>2, <1>3, <1>4, <1>5, <1>6, <1>7, <1>8, LocalSteps DEF CheckoutStep

\* The ledger never holds a line that its checkout still has to do.
LEMMA LedgerStep == ASSUME IndInv, [Next]_vars PROVE LedgerInv'
<1> SUFFICES ASSUME NEW p \in Products, NEW k \in 1 .. Len(ledger'[p])
             PROVE  LET d == ledger'[p][k]
                    IN  /\ d.line.product = p
                        /\ pc'[d.by] # "idle"
                        /\ pc'[d.by] \in {"probe", "reserve"} => d.line \notin todo'[d.by]
  BY DEF LedgerInv
<1> USE DEF IndInv
<1>1. CASE k \in 1 .. Len(ledger[p])
  <2>1. PICK d \in Deduction : d = ledger[p][k]
    BY <1>1 DEF TypeOK
  <2>2. ledger'[p][k] = d /\ d.by \in Checkouts
    BY <1>1, <2>1, LedgerGrows DEF Deduction
  <2>3. PICK r \in Checkouts : r = d.by
    BY <2>2
  <2>4. /\ d.line.product = p
        /\ pc[r] # "idle"
        /\ pc[r] \in {"probe", "reserve"} => d.line \notin todo[r]
    BY <1>1, <2>1, <2>3 DEF LedgerInv
  <2>5. pc'[r] # "idle" /\ (pc'[r] \in {"probe", "reserve"} => d.line \notin todo'[r])
    <3>1. CASE UNCHANGED Local(r)
      BY <2>4, <3>1 DEF Local
    <3>2. CASE Dies(r)
      BY <3>2 DEF Dies
    <3>3. CASE CheckoutStep(r)
      <4>1. ~ReadCart(r) /\ ~ReadCartEmpty(r)
        BY <2>4 DEF ReadCart, ReadCartEmpty
      <4>2. /\ pc'[r] # "idle"
            /\ pc'[r] \in {"probe", "reserve"} =>
                  pc[r] \in {"probe", "reserve"} /\ todo'[r] \subseteq todo[r]
        BY <3>3, <4>1 DEF CheckoutStep, ProbeStock, ProbeInsufficient, ProbeFails,
             Reserve, ReserveUnacknowledged, ReserveFails, ReserveNoRows, Diagnose,
             Persist, PersistUnacknowledged, PersistFails, ClearCart, Answer, Advance,
             TypeOK
      <4> QED
        BY <2>4, <4>2
    <3> QED
      BY <3>1, <3>2, <3>3, LocalSteps
  <2> QED
    BY <2>2, <2>3, <2>4, <2>5
<1>2. CASE k \notin 1 .. Len(ledger[p])
  <2>1. PICK r \in Checkouts : r = ledger'[p][k].by
    <3>1. ledger'[p] \in Seq(Deduction)
      BY TypeStep DEF TypeOK
    <3>2. ledger'[p][k] \in Deduction
      BY <3>1
    <3> QED
      BY <3>2 DEF Deduction
  <2>2. /\ Reserve(r) \/ ReserveUnacknowledged(r)
        /\ pc'[r] \in {"probe", "persist", "done"}
        /\ ledger'[p][k].line = probe[r].line
        /\ probe[r].line.product = p
    BY <1>2, <2>1, OwnDeduction
  <2>3. pc'[r] = "probe" => probe[r].line \notin todo'[r]
    BY <2>2 DEF Reserve, ReserveUnacknowledged, Advance, Answer, TypeOK
  <2> QED
    BY <2>1, <2>2, <2>3
<1> QED
  BY <1>1, <1>2

\* An order is stored only for a finished loop, and then its checkout is done for.
LEMMA StoredStep == ASSUME IndInv, [Next]_vars PROVE StoredInv'
<1> SUFFICES ASSUME NEW r \in Checkouts
             PROVE  /\ orders'[r] # None =>
                          /\ orders'[r].lines = lines'[r]
                          /\ todo'[r] = {}
                          /\ pc'[r] \in {"clear", "done", "crashed"}
                    /\ pc'[r] = "clear" => orders'[r] # None
                    /\ answer'[r] # "none" => pc'[r] = "done"
  BY DEF StoredInv
<1> USE DEF IndInv
<1>1. CASE UNCHANGED Local(r)
  BY <1>1 DEF Local, StoredInv
<1>2. CASE Dies(r)
  BY <1>2 DEF Dies, StoredInv, InFlight
<1>3. CASE Persist(r) \/ PersistUnacknowledged(r)
  <2>1. /\ orders'[r] = [user |-> buyer[r], lines |-> lines[r]]
        /\ lines' = lines /\ todo' = todo
        /\ todo[r] = {}
        /\ pc'[r] \in {"clear", "done"}
        /\ answer'[r] # "none" => pc'[r] = "done"
    BY <1>3 DEF Persist, PersistUnacknowledged, InsertOrder, Answer, TypeOK, LoopInv,
         StoredInv
  <2>2. orders'[r] \in Order
    BY <2>1 DEF Order, TypeOK
  <2> QED
    BY <2>1, <2>2, CheckoutAssumption
<1>4. CASE CheckoutStep(r) /\ ~Persist(r) /\ ~PersistUnacknowledged(r)
  <2>1. orders' = orders /\ pc'[r] # "clear"
    BY <1>4 DEF CheckoutStep, ReadCart, ReadCartEmpty, ProbeStock, ProbeInsufficient,
         ProbeFails, Reserve, ReserveUnacknowledged, ReserveFails, ReserveNoRows,
         Diagnose, PersistFails, ClearCart, Answer, Advance, TypeOK
  <2>2. answer'[r] # "none" => pc'[r] = "done"
    BY <1>4 DEF CheckoutStep, ReadCart, ReadCartEmpty, ProbeStock, ProbeInsufficient,
         ProbeFails, Reserve, ReserveUnacknowledged, ReserveFails, ReserveNoRows,
         Diagnose, PersistFails, ClearCart, Answer, Advance, TypeOK, StoredInv
  <2>3. ASSUME orders[r] # None
        PROVE  lines' = lines /\ todo' = todo /\ pc'[r] = "done"
    BY <1>4, <2>3 DEF StoredInv, CheckoutStep, ReadCart, ReadCartEmpty, ProbeStock,
         ProbeInsufficient, ProbeFails, Reserve, ReserveUnacknowledged, ReserveFails,
         ReserveNoRows, Diagnose, PersistFails, ClearCart, Answer, TypeOK
  <2> QED
    BY <2>1, <2>2, <2>3 DEF StoredInv
<1> QED
  BY <1>1, <1>2, <1>3, <1>4, LocalSteps

\* A stored order keeps the stock of the lines it did not skip.
LEMMA BackedStep ==
    ASSUME IndInv, [Next]_vars, LoopInv', StoredInv', TypeOK'
    PROVE  OrderBacked'
<1> SUFFICES ASSUME NEW r \in Checkouts
             PROVE  /\ orders'[r] # None =>
                          \A l \in orders'[r].lines \ skipped'[r] : TookFor(r, l)'
                    /\ answer'[r] = "created" => orders'[r] # None
                    /\ \A j \in dispatched' : j.order = r => orders'[r] # None
  BY DEF OrderBacked
<1>1. orders'[r] # None => \A l \in orders'[r].lines \ skipped'[r] : TookFor(r, l)'
  BY DEF LoopInv, StoredInv
<1>2. orders[r] # None => orders'[r] # None
  <2>1. CASE UNCHANGED Local(r) \/ Dies(r)
    BY <2>1 DEF Local, Dies
  <2>2. CASE CheckoutStep(r) /\ ~Persist(r) /\ ~PersistUnacknowledged(r)
    BY <2>2 DEF CheckoutStep, ReadCart, ReadCartEmpty, ProbeStock, ProbeInsufficient,
         ProbeFails, Reserve, ReserveUnacknowledged, ReserveFails, ReserveNoRows,
         Diagnose, PersistFails, ClearCart
  <2>3. CASE Persist(r) \/ PersistUnacknowledged(r)
    BY <2>3 DEF Persist, PersistUnacknowledged, IndInv, StoredInv
  <2> QED
    BY <2>1, <2>2, <2>3, LocalSteps
<1>3. answer'[r] = "created" => answer[r] = "created" \/ ClearCart(r)
  <2>1. CASE UNCHANGED Local(r) \/ Dies(r)
    BY <2>1 DEF Local, Dies
  <2>2. CASE CheckoutStep(r)
    BY <2>2 DEF CheckoutStep, ReadCart, ReadCartEmpty, ProbeStock, ProbeInsufficient,
         ProbeFails, Reserve, ReserveUnacknowledged, ReserveFails, ReserveNoRows,
         Diagnose, Persist, PersistUnacknowledged, PersistFails, Answer, IndInv, TypeOK
  <2> QED
    BY <2>1, <2>2, LocalSteps
<1>4. ClearCart(r) => orders[r] # None
  BY DEF ClearCart, IndInv, StoredInv
<1>5. ASSUME NEW j \in dispatched', j.order = r
      PROVE  j \in dispatched \/ ClearCart(r)
  <2>1. ASSUME NEW s \in Checkouts, CheckoutStep(s)
        PROVE  dispatched' = dispatched \/ ClearCart(s)
    BY <2>1 DEF CheckoutStep, ReadCart, ReadCartEmpty, ProbeStock, ProbeInsufficient,
         ProbeFails, Reserve, ReserveUnacknowledged, ReserveFails, ReserveNoRows,
         Diagnose, Persist, PersistUnacknowledged, PersistFails
  <2>2. ASSUME NEW s \in Checkouts, ClearCart(s), j \notin dispatched
        PROVE  s = r
    BY <1>5, <2>2 DEF ClearCart
  <2>3. CASE ~ \E s \in Checkouts : CheckoutStep(s)
    BY <1>5, <2>3 DEF Next, coVars, Crash, vars
  <2> QED
    BY <1>5, <2>1, <2>2, <2>3
<1> QED
  BY <1>1, <1>2, <1>3, <1>4, <1>5 DEF IndInv, OrderBacked

\* A new deduction is for a line its checkout has not taken before.
LEMMA OnceStep == ASSUME IndInv, [Next]_vars, TypeOK' PROVE TakesOnce'
<1> SUFFICES ASSUME NEW p \in Products,
                    NEW j \in 1 .. Len(ledger'[p]), NEW k \in 1 .. Len(ledger'[p]),
                    ledger'[p][j].by = ledger'[p][k].by,
                    ledger'[p][j].line = ledger'[p][k].line
             PROVE  j = k
  BY DEF TakesOnce
<1>1. ASSUME NEW old \in 1 .. Len(ledger[p]), NEW new \in 1 .. Len(ledger'[p]),
             new \notin 1 .. Len(ledger[p]),
             ledger'[p][old].by = ledger'[p][new].by,
             ledger'[p][old].line = ledger'[p][new].line
      PROVE  FALSE
  <2>1. ledger'[p][old] = ledger[p][old]
    BY LedgerGrows
  <2>2. PICK r \in Checkouts : r = ledger[p][old].by
    <3>1. ledger[p] \in Seq(Deduction)
      BY DEF IndInv, TypeOK
    <3>2. ledger[p][old] \in Deduction
      BY <3>1
    <3> QED
      BY <3>2 DEF Deduction
  <2>3. pc[r] = "reserve" /\ ledger'[p][new].line = probe[r].line
    BY <1>1, <2>1, <2>2, OwnDeduction
  <2>4. probe[r].line \in todo[r]
    BY <2>3 DEF IndInv, LoopInv
  <2>5. ledger[p][old].line \notin todo[r]
    BY <2>2, <2>3 DEF IndInv, LedgerInv
  <2> QED
    BY <1>1, <2>1, <2>3, <2>4, <2>5
<1>2. CASE j \in 1 .. Len(ledger[p]) /\ k \in 1 .. Len(ledger[p])
  <2>1. ledger'[p][j] = ledger[p][j] /\ ledger'[p][k] = ledger[p][k]
    BY <1>2, LedgerGrows
  <2> QED
    BY <1>2, <2>1 DEF IndInv, TakesOnce
<1>3. CASE j \notin 1 .. Len(ledger[p]) /\ k \notin 1 .. Len(ledger[p])
  BY <1>3, LedgerGrows
<1> QED
  BY <1>1, <1>2, <1>3

--------------------------------------------------------------------------------
(* Theorems                                                                   *)

\* The initial states satisfy the inductive invariant.
LEMMA InitInd == ASSUME Init PROVE IndInv
<1> USE DEF Init, InvInit, CartInit, CoInit
<1>1. TypeOK
  <2>1. NewRow(SeedStock) \in Row
    BY InventoryAssumption DEF NewRow, Row
  <2>2. InvTypeOK
    BY <2>1, InventoryAssumption DEF InvTypeOK, CreationStates
  <2>3. CartTypeOK
    BY DEF CartTypeOK, EditStates
  <2> QED
    BY <2>2, <2>3 DEF TypeOK, PcStates, Answers
<1>2. \A p \in Products : ledger[p] = <<>> /\ Len(ledger[p]) = 0
  OBVIOUS
<1>3. RowInv
  <2>1. PICK bare \in Unstocked :
          inventory = [p \in Products |-> IF p \in Seeded \ bare
                                          THEN NewRow(SeedStock) ELSE None]
    OBVIOUS
  <2>2. NewRow(SeedStock).reserved = 0
    BY DEF NewRow
  <2> QED
    BY <1>2, <2>1, <2>2 DEF RowInv
<1>4. StockChain
  <2>1. ASSUME NEW p \in Products, inventory[p] # None
        PROVE  /\ inventory[p].version = Len(ledger[p]) + 1
               /\ inventory[p].quantity = Balance(p, Len(ledger[p]) + 1)
    <3>1. inventory[p] = NewRow(SeedStock) /\ stocked[p] = SeedStock
      BY <2>1
    <3>2. Len(ledger[p]) + 1 = 1
      BY <1>2
    <3>3. inventory[p].version = 1 /\ inventory[p].quantity = SeedStock
      BY <3>1 DEF NewRow
    <3> QED
      BY <3>1, <3>2, <3>3 DEF Balance
  <2>2. \A p \in Products : \A k \in 1 .. Len(ledger[p]) : FALSE
    BY <1>2
  <2> QED
    BY <2>1, <2>2 DEF StockChain
<1>5. ProbeInv /\ BeatenInv
  BY DEF ProbeInv, BeatenInv
<1>6. LoopInv /\ StoredInv
  BY DEF LoopInv, StoredInv
<1>7. LedgerInv /\ TakesOnce
  BY <1>2 DEF LedgerInv, TakesOnce
<1>8. OrderBacked
  BY DEF OrderBacked
<1> QED
  BY <1>1, <1>3, <1>4, <1>5, <1>6, <1>7, <1>8 DEF IndInv

\* Every step keeps the inductive invariant.
LEMMA NextInd == ASSUME IndInv, [Next]_vars PROVE IndInv'
  BY TypeStep, RowStep, ChainStep, ProbeStep, BeatenStep, LoopStep, LedgerStep,
     StoredStep, BackedStep, OnceStep DEF IndInv

\* The inductive invariant holds throughout.
THEOREM Inductive == Spec => []IndInv
  BY InitInd, NextInd, PTL DEF Spec

\* Every store, local and history variable keeps its type; in particular the
\* quantity of an inventory row never goes below zero.
THEOREM TypeCorrect == Spec => []TypeOK
<1>1. IndInv => TypeOK
  BY DEF IndInv
<1> QED
  BY <1>1, Inductive, PTL

\* Optimistic locking serialises the deductions of every product, for any number
\* of checkouts, whatever fails.
THEOREM StockSerial == Spec => []StockChain
<1>1. IndInv => StockChain
  BY DEF IndInv
<1> QED
  BY <1>1, Inductive, PTL

\* A stored order has the stock of every line whose inventory could be read.
THEOREM OrdersBacked == Spec => []OrderBacked
<1>1. IndInv => OrderBacked
  BY DEF IndInv
<1> QED
  BY <1>1, Inductive, PTL

\* No checkout takes the stock of a line twice.
THEOREM StockTakenOnce == Spec => []TakesOnce
<1>1. IndInv => TakesOnce
  BY DEF IndInv
<1> QED
  BY <1>1, Inductive, PTL

\* A checkout refused with ErrOptimisticLockConflict was beaten by another one.
THEOREM ConflictIsReal == Spec => []ConflictMeansProgress
<1>1. IndInv => ConflictMeansProgress
  <2> SUFFICES ASSUME IndInv, NEW r \in Checkouts, answer[r] = "conflict"
               PROVE  LET p == probe[r].line.product
                          v == probe[r].row.version
                      IN  v <= Len(ledger[p]) /\ ledger[p][v].by # r
    BY DEF ConflictMeansProgress
  <2>1. PICK p \in Products, v \in Nat \ {0} :
          p = probe[r].line.product /\ v = probe[r].row.version
    BY ProbeType DEF IndInv
  <2>2. v <= Len(ledger[p]) /\ Len(ledger[p]) \in Nat
    BY <2>1 DEF IndInv, BeatenInv, TypeOK
  <2>3. \A k \in 1 .. Len(ledger[p]) : ledger[p][k].by = r => k < v
    BY <2>1 DEF IndInv, ProbeInv, Explained
  <2>4. v \in 1 .. Len(ledger[p])
    BY <2>2
  <2>5. ledger[p][v].by # r
    BY <2>3, <2>4
  <2> QED
    BY <2>1, <2>2, <2>5
<1> QED
  BY <1>1, Inductive, PTL

--------------------------------------------------------------------------------
(* Checkout implements AtomicSale                                             *)

\* What the abstract variables are, for a state.
Shelf == [p \in Products |-> IF inventory[p] = None THEN None ELSE inventory[p].quantity]
Holdings == [r \in Checkouts |-> Taken(r)]
Placed == [r \in Checkouts |-> IF orders[r] = None
                               THEN None ELSE orders[r].lines \ skipped[r]]

\* A line is held exactly if the ledger has a deduction for it.
LEMMA TakenIff ==
    ASSUME NEW r \in Checkouts, NEW l
    PROVE  l \in Taken(r) <=>
             \E p \in Products : \E k \in 1 .. Len(ledger[p]) :
                 ledger[p][k].by = r /\ ledger[p][k].line = l
  BY DEF Taken

\* Initial states are initial states of the abstract specification.
LEMMA SaleInit == ASSUME Init PROVE Sale!Init
<1> USE DEF Init, InvInit, CartInit, CoInit
<1>1. \A p \in Products : ledger[p] = <<>> /\ Len(ledger[p]) = 0
  OBVIOUS
<1>2. \A r \in Checkouts : Taken(r) = {}
  BY <1>1 DEF Taken
<1>3. \A p \in Products : inventory[p] = None \/ inventory[p] = NewRow(SeedStock)
  OBVIOUS
<1>4. NewRow(SeedStock).quantity \in Nat
  BY InventoryAssumption DEF NewRow
<1>5. Shelf \in [Products -> Nat \cup {None}]
  BY <1>3, <1>4 DEF Shelf
<1>6. Holdings = [r \in Checkouts |-> {}]
  BY <1>2 DEF Holdings
<1>7. Placed = [r \in Checkouts |-> None]
  BY DEF Placed
<1> QED
  BY <1>5, <1>6, <1>7 DEF Sale!Init, Shelf, Holdings, Placed

\* A product that gets its row is shelved.
LEMMA SaleShelves ==
    ASSUME IndInv, NEW p \in Products, Stocks(p), UNCHANGED coVars
    PROVE  Sale!Shelve(p)
<1>1. PICK q \in Nat : inventory' = [inventory EXCEPT ![p] = NewRow(q)]
  BY DEF Stocks
<1>2. inventory[p] = None /\ NewRow(q) # None /\ NewRow(q).quantity = q
  <2>1. NewRow(q) \in Row
    BY DEF NewRow, Row
  <2> QED
    BY <2>1, InventoryAssumption DEF IndInv, RowInv, Stocks, NewRow
<1>3. inventory \in [Products -> Row \cup {None}]
  BY DEF IndInv, TypeOK, InvTypeOK
<1>4. /\ Shelf[p] = None
      /\ Shelf'[p] = q
      /\ Shelf' = [Shelf EXCEPT ![p] = q]
  BY <1>1, <1>2, <1>3 DEF Shelf
<1>5. Holdings' = Holdings
  BY DEF Holdings, Taken, coVars
<1>6. Placed' = Placed
  BY DEF Placed, coVars
<1> QED
  BY <1>4, <1>5, <1>6 DEF Sale!Shelve, Shelf, Holdings, Placed

\* The deduction of a checkout is an atomic check-and-take of the line in hand.
LEMMA SaleTakes ==
    ASSUME IndInv, NEW r \in Checkouts, Deducts(r),
           Reserve(r) \/ ReserveUnacknowledged(r)
    PROVE  Sale!Take(r)
<1>1. PICK m \in Line, p \in Products :
        /\ m = probe[r].line
        /\ p = m.product
        /\ m.quantity \in Int
  BY ProbeType DEF Deducts, IndInv, Line
<1>2. /\ inventory' = [inventory EXCEPT ![p] =
            Written(inventory[p], inventory[p].quantity - m.quantity)]
      /\ inventory'[p] \in Row
      /\ ledger'[p][Len(ledger[p]) + 1] = DeductionOf(r)
      /\ Len(ledger'[p]) = Len(ledger[p]) + 1
      /\ \A k \in 1 .. Len(ledger[p]) : ledger'[p][k] = ledger[p][k]
      /\ \A q \in Products \ {p} : ledger'[q] = ledger[q]
  BY <1>1, DeductFacts DEF Deducts, IndInv
<1>3. inventory \in [Products -> Row \cup {None}] /\ Len(ledger[p]) \in Nat
  BY DEF IndInv, TypeOK, InvTypeOK
<1>4. /\ inventory[p] # None
      /\ m.quantity <= inventory[p].quantity
  <2>1. ReserveMatches(p, m.quantity, probe[r].row.version)
    BY <1>1 DEF Deducts, Deduct
  <2>2. inventory[p].reserved = 0 /\ inventory[p].quantity \in Nat
    BY <1>3, <2>1 DEF ReserveMatches, IndInv, RowInv, Row
  <2> QED
    BY <1>1, <2>1, <2>2 DEF ReserveMatches, AvailableQuantity
<1>5. /\ \A q \in Products : \A k \in 1 .. Len(ledger[q]) :
            k \in 1 .. Len(ledger'[q]) /\ ledger'[q][k] = ledger[q][k]
      /\ \A q \in Products : \A k \in 1 .. Len(ledger'[q]) :
            \/ k \in 1 .. Len(ledger[q]) /\ ledger'[q][k] = ledger[q][k]
            \/ q = p /\ k = Len(ledger[p]) + 1
      /\ Len(ledger[p]) + 1 \in 1 .. Len(ledger'[p])
  <2>1. ASSUME NEW q \in Products \ {p} PROVE ledger'[q] = ledger[q]
    BY <1>2
  <2>2. ASSUME NEW k \in 1 .. Len(ledger'[p])
        PROVE  k \in 1 .. Len(ledger[p]) \/ k = Len(ledger[p]) + 1
    BY <1>2, <1>3
  <2>3. ASSUME NEW k \in 1 .. Len(ledger[p]) PROVE k \in 1 .. Len(ledger'[p])
    BY <1>2, <1>3
  <2>4. Len(ledger[p]) + 1 \in 1 .. Len(ledger'[p])
    BY <1>2, <1>3
  <2> QED
    BY <1>2, <2>1, <2>2, <2>3, <2>4
<1>6. DeductionOf(r).by = r /\ DeductionOf(r).line = m
  BY <1>1 DEF DeductionOf
<1>7. m \notin Taken(r)
  <2> SUFFICES ASSUME NEW q \in Products, NEW k \in 1 .. Len(ledger[q]),
                      ledger[q][k].by = r, ledger[q][k].line = m
               PROVE  FALSE
    BY TakenIff
  <2> QED
    BY <1>1 DEF IndInv, LedgerInv, LoopInv, Deducts
<1>8. ASSUME NEW s \in Checkouts, NEW l
      PROVE  l \in Taken(s)' <=> l \in Taken(s) \/ (s = r /\ l = m)
  <2>1. l \in Taken(s)' <=>
          \E q \in Products : \E k \in 1 .. Len(ledger'[q]) :
              ledger'[q][k].by = s /\ ledger'[q][k].line = l
    BY DEF Taken
  <2>2. ASSUME l \in Taken(s) PROVE l \in Taken(s)'
    BY <1>5, <2>1, <2>2, TakenIff
  <2>3. ASSUME s = r, l = m PROVE l \in Taken(s)'
    BY <1>2, <1>5, <1>6, <2>1, <2>3
  <2>4. ASSUME l \in Taken(s)' PROVE l \in Taken(s) \/ (s = r /\ l = m)
    <3>1. PICK q \in Products : \E k \in 1 .. Len(ledger'[q]) :
            ledger'[q][k].by = s /\ ledger'[q][k].line = l
      BY <2>1, <2>4
    <3>2. PICK k \in 1 .. Len(ledger'[q]) :
            ledger'[q][k].by = s /\ ledger'[q][k].line = l
      BY <3>1
    <3>3. CASE k \in 1 .. Len(ledger[q]) /\ ledger'[q][k] = ledger[q][k]
      BY <3>2, <3>3, TakenIff
    <3>4. CASE q = p /\ k = Len(ledger[p]) + 1
      BY <1>2, <1>6, <3>2, <3>4
    <3> QED
      BY <1>5, <3>3, <3>4
  <2> QED
    BY <2>2, <2>3, <2>4
<1>9. Taken(r)' = Taken(r) \cup {m} /\ \A s \in Checkouts \ {r} : Taken(s)' = Taken(s)
  BY <1>8
<1>10. Holdings' = [Holdings EXCEPT ![r] = @ \cup {m}] /\ m \in Holdings'[r] \ Holdings[r]
  BY <1>7, <1>9 DEF Holdings
<1>11. /\ Shelf[p] \in Nat /\ m.quantity <= Shelf[p]
       /\ Shelf' = [Shelf EXCEPT ![p] = @ - m.quantity]
  <2>1. inventory'[p] # None /\ inventory'[p].quantity = inventory[p].quantity - m.quantity
    BY <1>2, <1>3, InventoryAssumption DEF Written
  <2>2. inventory[p].quantity \in Nat
    BY <1>3, <1>4 DEF Row
  <2>3. Shelf[p] = inventory[p].quantity
    BY <1>4 DEF Shelf
  <2>4. ASSUME NEW q \in Products
        PROVE  Shelf'[q] = IF q = p THEN Shelf[p] - m.quantity ELSE Shelf[q]
    BY <1>2, <1>3, <2>1, <2>3 DEF Shelf
  <2> QED
    BY <1>4, <2>2, <2>3, <2>4 DEF Shelf
<1>12. Placed' = Placed
  BY DEF Placed, Reserve, ReserveUnacknowledged
<1> QED
  BY <1>1, <1>10, <1>11, <1>12 DEF Sale!Take, Shelf, Holdings, Placed

\* Storing an order places what its checkout holds and did not skip.
LEMMA SalePlaces ==
    ASSUME IndInv, NEW r \in Checkouts, Persist(r) \/ PersistUnacknowledged(r)
    PROVE  Sale!Place(r)
<1>1. /\ pc[r] = "persist"
      /\ orders' = [orders EXCEPT ![r] = [user |-> buyer[r], lines |-> lines[r]]]
      /\ UNCHANGED <<inventory, ledger, skipped>>
  BY DEF Persist, PersistUnacknowledged, InsertOrder, invVars
<1>2. orders[r] = None
  BY <1>1 DEF IndInv, StoredInv
<1>3. [user |-> buyer[r], lines |-> lines[r]] # None
  <2>1. [user |-> buyer[r], lines |-> lines[r]] \in Order
    BY DEF Order, IndInv, TypeOK
  <2> QED
    BY <2>1, CheckoutAssumption
<1>4. ASSUME NEW l \in lines[r] \ skipped[r] PROVE l \in Taken(r)
  <2>1. TookFor(r, l)
    BY <1>1 DEF IndInv, LoopInv
  <2>2. l.product \in Products
    BY DEF IndInv, TypeOK, Line
  <2> QED
    BY <2>1, <2>2, TakenIff DEF TookFor
<1>5. Placed[r] = None
  BY <1>2 DEF Placed
<1>6. Placed' = [Placed EXCEPT ![r] = lines[r] \ skipped[r]]
  <2>1. orders \in [Checkouts -> Order \cup {None}]
    BY DEF IndInv, TypeOK
  <2>2. ASSUME NEW s \in Checkouts
        PROVE  Placed'[s] = IF s = r THEN lines[r] \ skipped[r] ELSE Placed[s]
    BY <1>1, <1>3, <2>1 DEF Placed
  <2> QED
    BY <2>2 DEF Placed
<1>7. Shelf' = Shelf /\ Holdings' = Holdings
  BY <1>1 DEF Shelf, Holdings, Taken
<1>8. lines[r] \ skipped[r] \in SUBSET Holdings[r]
  BY <1>4 DEF Holdings
<1> QED
  BY <1>5, <1>6, <1>7, <1>8 DEF Sale!Place, Shelf, Holdings, Placed

\* A checkout that has stored its order skips no more lines.
LEMMA PlacedStays ==
    ASSUME IndInv, [Next]_vars,
           ~ \E s \in Checkouts : Persist(s) \/ PersistUnacknowledged(s)
    PROVE  Placed' = Placed
<1> SUFFICES ASSUME NEW r \in Checkouts
             PROVE  /\ orders'[r] = orders[r]
                    /\ orders[r] = None \/ skipped'[r] = skipped[r]
  BY DEF Placed
<1>1. CASE UNCHANGED Local(r)
  BY <1>1 DEF Local
<1>2. CASE Dies(r)
  BY <1>2 DEF Dies
<1>3. CASE CheckoutStep(r)
  <2>1. orders' = orders
    BY <1>3 DEF CheckoutStep, ReadCart, ReadCartEmpty, ProbeStock, ProbeInsufficient,
         ProbeFails, Reserve, ReserveUnacknowledged, ReserveFails, ReserveNoRows,
         Diagnose, PersistFails, ClearCart
  <2>2. ASSUME pc[r] # "probe" PROVE skipped' = skipped
    BY <1>3, <2>2 DEF CheckoutStep, ReadCart, ReadCartEmpty, ProbeStock,
         ProbeInsufficient, ProbeFails, Reserve, ReserveUnacknowledged, ReserveFails,
         ReserveNoRows, Diagnose, PersistFails, ClearCart
  <2> QED
    BY <2>1, <2>2 DEF IndInv, StoredInv
<1> QED
  BY <1>1, <1>2, <1>3, LocalSteps

\* Every step is a step of the abstract specification, or none to it.
LEMMA SaleStep ==
    ASSUME IndInv, [Next]_vars
    PROVE  [Sale!Next]_(Sale!vars)
<1>1. CASE \E s \in Checkouts : Persist(s) \/ PersistUnacknowledged(s)
  BY <1>1, SalePlaces DEF Sale!Next
<1>2. CASE ~ \E s \in Checkouts : Persist(s) \/ PersistUnacknowledged(s)
  <2>1. CASE StockUnchanged
    <3>1. Shelf' = Shelf /\ Holdings' = Holdings
      BY <2>1 DEF StockUnchanged, Shelf, Holdings, Taken
    <3>2. Placed' = Placed
      BY <1>2, PlacedStays
    <3> QED
      BY <3>1, <3>2 DEF Sale!vars, Shelf, Holdings, Placed
  <2>2. CASE (\E p \in Products : Stocks(p)) /\ UNCHANGED coVars
    BY <2>2, SaleShelves DEF Sale!Next
  <2>3. CASE \E r \in Checkouts : Deducts(r) /\ (Reserve(r) \/ ReserveUnacknowledged(r))
    BY <2>3, SaleTakes DEF Sale!Next
  <2> QED
    BY <2>1, <2>2, <2>3, StockSteps
<1> QED
  BY <1>1, <1>2

\* Checkouts with their separate statements, lost acknowledgements and crashes
\* implement atomic sales.
THEOREM ImplementsSale == Spec => SaleSpec
<1>1. Init => Sale!Init
  BY SaleInit
<1>2. IndInv /\ [Next]_vars => [Sale!Next]_(Sale!vars)
  BY SaleStep
<1> QED
  BY <1>1, <1>2, Inductive, PTL DEF Spec, SaleSpec, Sale!Spec

================================================================================
