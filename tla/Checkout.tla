-------------------------------- MODULE Checkout -------------------------------
(******************************************************************************)
(* OrderService.CreateOrderFromCart, run by any number of concurrent requests *)
(* over the shared cart, inventory and orders stores.  Every call to Postgres *)
(* or Redis is a step of its own; there is no transaction around them (only   *)
(* the INSERTs of orderRepo.Create share one).                                *)
(*                                                                            *)
(*   idle -> probe -> reserve -> probe ... -> persist -> clear -> done        *)
(*                       \-> diagnose -> done                                 *)
(******************************************************************************)
EXTENDS Cart, Sequences, Functions

CONSTANT Checkouts   \* POST /orders requests, each served once; also order ids

VARIABLES
    pc,          \* progress of a checkout
    buyer,       \* its user
    lines,       \* the cart it read
    todo,        \* lines its loop has not finished
    probe,       \* the line in hand and the inventory row it read for it
    skipped,     \* lines it did not reserve because that read failed
    answer,      \* its HTTP answer
    orders,      \* tables orders and order_items
    dispatched,  \* jobs handed to the worker pool
    ledger       \* history: the UPDATEs applied to p's row, in order

coVars == <<pc, buyer, lines, todo, probe, skipped, answer, orders, dispatched,
            ledger>>
vars == <<invVars, cartVars, coVars>>

PcStates == {"idle", "probe", "reserve", "diagnose", "persist", "clear", "done",
             "crashed"}

\* 201; 400 (ErrEmptyCart); 409 (ErrInsufficientStock, ErrOptimisticLockConflict);
\* 500 (any other error).
Answers == {"none", "created", "empty", "insufficient", "conflict", "error"}

Probe == [line : Line, row : Row]
Order == [user : Users, lines : SUBSET Line]
Jobs == [job : {"order_created", "invoice"}, order : Checkouts]

\* A deduction: the checkout, the line, and the row it had read before.
Deduction == [by : Checkouts, line : Line, saw : Row]

ASSUME CheckoutAssumption ==
    /\ None \notin Probe /\ None \notin Order
    /\ IsFiniteSet(Checkouts)

TypeOK ==
    /\ InvTypeOK
    /\ CartTypeOK
    /\ pc \in [Checkouts -> PcStates]
    /\ buyer \in [Checkouts -> Users]
    /\ lines \in [Checkouts -> SUBSET Line]
    /\ todo \in [Checkouts -> SUBSET Line]
    /\ probe \in [Checkouts -> Probe \cup {None}]
    /\ skipped \in [Checkouts -> SUBSET Line]
    /\ answer \in [Checkouts -> Answers]
    /\ orders \in [Checkouts -> Order \cup {None}]
    /\ dispatched \in SUBSET Jobs
    /\ ledger \in [Products -> Seq(Deduction)]

CoInit ==
    /\ pc = [r \in Checkouts |-> "idle"]
    /\ buyer \in [Checkouts -> Users]
    /\ lines = [r \in Checkouts |-> {}]
    /\ todo = [r \in Checkouts |-> {}]
    /\ probe = [r \in Checkouts |-> None]
    /\ skipped = [r \in Checkouts |-> {}]
    /\ answer = [r \in Checkouts |-> "none"]
    /\ orders = [r \in Checkouts |-> None]
    /\ dispatched = {}
    /\ ledger = [p \in Products |-> <<>>]

Init == InvInit /\ CartInit /\ CoInit

--------------------------------------------------------------------------------
(* The steps of one checkout                                                  *)

\* The handler writes its HTTP answer.
Answer(r, a) ==
    /\ pc' = [pc EXCEPT ![r] = "done"]
    /\ answer' = [answer EXCEPT ![r] = a]

\* The loop is done with line l of checkout r.
Advance(r, l) ==
    /\ todo' = [todo EXCEPT ![r] = @ \ {l}]
    /\ pc' = [pc EXCEPT ![r] = IF todo[r] = {l} THEN "persist" ELSE "probe"]

ReadCart(r) ==
    /\ pc[r] = "idle"
    /\ \E cart \in GetByUserID(buyer[r]) \ {{}} :
         /\ lines' = [lines EXCEPT ![r] = cart]
         /\ todo' = [todo EXCEPT ![r] = cart]
    /\ pc' = [pc EXCEPT ![r] = "probe"]
    /\ UNCHANGED <<invVars, cartVars, buyer, probe, skipped, answer, orders,
                   dispatched, ledger>>

ReadCartEmpty(r) ==
    /\ pc[r] = "idle"
    /\ {} \in GetByUserID(buyer[r])
    /\ Answer(r, "empty")
    /\ UNCHANGED <<invVars, cartVars, buyer, lines, todo, probe, skipped, orders,
                   dispatched, ledger>>

\* GetByProductID finds the row and it has enough: keep its version.
ProbeStock(r, l) ==
    /\ pc[r] = "probe"
    /\ inventory[l.product] # None
    /\ AvailableQuantity(inventory[l.product]) >= l.quantity
    /\ probe' = [probe EXCEPT ![r] = [line |-> l, row |-> inventory[l.product]]]
    /\ pc' = [pc EXCEPT ![r] = "reserve"]
    /\ UNCHANGED <<invVars, cartVars, buyer, lines, todo, skipped, answer, orders,
                   dispatched, ledger>>

ProbeInsufficient(r, l) ==
    /\ pc[r] = "probe"
    /\ inventory[l.product] # None
    /\ AvailableQuantity(inventory[l.product]) < l.quantity
    /\ Answer(r, "insufficient")
    /\ UNCHANGED <<invVars, cartVars, buyer, lines, todo, probe, skipped, orders,
                   dispatched, ledger>>

\* Any error of GetByProductID, a missing row or a failed query alike, is logged
\* and the line goes into the order with no reservation.
ProbeFails(r, l) ==
    /\ pc[r] = "probe"
    /\ inventory[l.product] = None \/ "db" \in Faults
    /\ skipped' = [skipped EXCEPT ![r] = @ \cup {l}]
    /\ Advance(r, l)
    /\ UNCHANGED <<invVars, cartVars, buyer, lines, probe, answer, orders,
                   dispatched, ledger>>

\* Mutant of Deduct: the quantity computed from the earlier read is written back.
DeductBlind(r) ==
    LET l == probe[r].line
        p == l.product
    IN  /\ inventory' = [inventory EXCEPT ![p] =
                            Written(@, probe[r].row.quantity - l.quantity)]
        /\ ledger' = [ledger EXCEPT ![p] =
                        Append(@, [by |-> r, line |-> l, saw |-> probe[r].row])]

\* The UPDATE of ReserveStockWithOptimisticLock takes the stock for checkout r.
Deduct(r) ==
    LET l == probe[r].line
        p == l.product
    IN  /\ ReserveRuns(p, l.quantity, probe[r].row.version)
        /\ ReserveMatches(p, l.quantity, probe[r].row.version)
        /\ ReserveUpdate(p, l.quantity)
        /\ ledger' = [ledger EXCEPT ![p] =
                        Append(@, [by |-> r, line |-> l, saw |-> probe[r].row])]

Reserve(r) ==
    /\ pc[r] = "reserve"
    /\ Deduct(r)
    /\ Advance(r, probe[r].line)
    /\ UNCHANGED <<creation, stocked, cartVars, buyer, lines, probe, skipped,
                   answer, orders, dispatched>>

\* Mutant of ReserveUnacknowledged: the failed line is tried again.
ReserveRetried(r) ==
    /\ pc[r] = "reserve"
    /\ "db" \in Faults
    /\ Deduct(r)
    /\ pc' = [pc EXCEPT ![r] = "probe"]
    /\ UNCHANGED <<creation, stocked, cartVars, buyer, lines, todo, probe, skipped,
                   answer, orders, dispatched>>

\* The UPDATE is applied, its acknowledgement lost: the request answers 500.
ReserveUnacknowledged(r) ==
    /\ pc[r] = "reserve"
    /\ "db" \in Faults
    /\ Deduct(r)
    /\ Answer(r, "error")
    /\ UNCHANGED <<creation, stocked, cartVars, buyer, lines, todo, probe, skipped,
                   orders, dispatched>>

\* Mutant of ReserveFails: a failed UPDATE is logged like a failed read.
ReserveFailsLogged(r) ==
    /\ pc[r] = "reserve"
    /\ "db" \in Faults
    /\ Advance(r, probe[r].line)
    /\ UNCHANGED <<invVars, cartVars, buyer, lines, probe, skipped, answer, orders,
                   dispatched, ledger>>

\* Not applied.
ReserveFails(r) ==
    /\ pc[r] = "reserve"
    /\ LET l == probe[r].line
       IN  \/ ~ReserveRuns(l.product, l.quantity, probe[r].row.version)
           \/ "db" \in Faults
    /\ Answer(r, "error")
    /\ UNCHANGED <<invVars, cartVars, buyer, lines, todo, probe, skipped, orders,
                   dispatched, ledger>>

\* Mutant of ReserveNoRows: RowsAffected is not looked at.
ReserveUnchecked(r) ==
    /\ pc[r] = "reserve"
    /\ LET l == probe[r].line
       IN  ~ReserveMatches(l.product, l.quantity, probe[r].row.version)
    /\ Advance(r, probe[r].line)
    /\ UNCHANGED <<invVars, cartVars, buyer, lines, probe, skipped, answer, orders,
                   dispatched, ledger>>

\* RowsAffected() == 0.
ReserveNoRows(r) ==
    /\ pc[r] = "reserve"
    /\ LET l == probe[r].line
       IN  /\ ReserveRuns(l.product, l.quantity, probe[r].row.version)
           /\ ~ReserveMatches(l.product, l.quantity, probe[r].row.version)
    /\ pc' = [pc EXCEPT ![r] = "diagnose"]
    /\ UNCHANGED <<invVars, cartVars, buyer, lines, todo, probe, skipped, answer,
                   orders, dispatched, ledger>>

\* The row is read again to name the error.
Diagnose(r) ==
    /\ pc[r] = "diagnose"
    /\ LET l == probe[r].line
           row == inventory[l.product]
       IN  \/ /\ row = None \/ "db" \in Faults
              /\ Answer(r, "error")
           \/ /\ row # None
              /\ AvailableQuantity(row) < l.quantity
              /\ Answer(r, "insufficient")
           \/ /\ row # None
              /\ AvailableQuantity(row) >= l.quantity
              /\ Answer(r, "conflict")
    /\ UNCHANGED <<invVars, cartVars, buyer, lines, todo, probe, skipped, orders,
                   dispatched, ledger>>

\* What order_items takes: an INT, CHECK (quantity > 0).
Orderable(r) == \A l \in lines[r] : l.quantity > 0 /\ Encodable(l.quantity)

\* orderRepo.Create: one transaction.
InsertOrder(r) ==
    /\ Orderable(r)
    /\ orders' = [orders EXCEPT ![r] = [user |-> buyer[r], lines |-> lines[r]]]

Persist(r) ==
    /\ pc[r] = "persist"
    /\ InsertOrder(r)
    /\ pc' = [pc EXCEPT ![r] = "clear"]
    /\ UNCHANGED <<invVars, cartVars, buyer, lines, todo, probe, skipped, answer,
                   dispatched, ledger>>

\* The COMMIT is applied, its acknowledgement lost.
PersistUnacknowledged(r) ==
    /\ pc[r] = "persist"
    /\ "db" \in Faults
    /\ InsertOrder(r)
    /\ Answer(r, "error")
    /\ UNCHANGED <<invVars, cartVars, buyer, lines, todo, probe, skipped,
                   dispatched, ledger>>

\* Rolled back: 500, and the reservations stay.
PersistFails(r) ==
    /\ pc[r] = "persist"
    /\ ~Orderable(r) \/ "db" \in Faults
    /\ Answer(r, "error")
    /\ UNCHANGED <<invVars, cartVars, buyer, lines, todo, probe, skipped, orders,
                   dispatched, ledger>>

\* The cart is cleared, or not (the error is dropped); then both jobs go to the
\* pool without blocking and the request answers 201.
ClearCart(r) ==
    /\ pc[r] = "clear"
    /\ \/ StoreCart(buyer[r], {})
       \/ "redis" \in Faults /\ carts' = carts
    /\ dispatched' = dispatched \cup [job : {"order_created", "invoice"}, order : {r}]
    /\ Answer(r, "created")
    /\ UNCHANGED <<invVars, editPc, editor, document, added, buyer, lines, todo,
                   probe, skipped, orders, ledger>>

CheckoutStep(r) ==
    \/ ReadCart(r)
    \/ ReadCartEmpty(r)
    \/ \E l \in todo[r] : ProbeStock(r, l) \/ ProbeInsufficient(r, l) \/ ProbeFails(r, l)
    \/ Reserve(r)
    \/ ReserveUnacknowledged(r)
    \/ ReserveFails(r)
    \/ ReserveNoRows(r)
    \/ Diagnose(r)
    \/ Persist(r)
    \/ PersistUnacknowledged(r)
    \/ PersistFails(r)
    \/ ClearCart(r)

--------------------------------------------------------------------------------
(* The server                                                                 *)

InFlight(r) == pc[r] \notin {"idle", "done", "crashed"}

\* The process dies; what is in Postgres and Redis stays.
Crash ==
    /\ "crash" \in Faults
    /\ \/ \E r \in Checkouts : InFlight(r)
       \/ \E e \in Edits : editPc[e] = "save"
       \/ \E p \in Products : creation[p] = "inserted"
    /\ pc' = [r \in Checkouts |-> IF InFlight(r) THEN "crashed" ELSE pc[r]]
    /\ InvCrash
    /\ CartCrash
    /\ UNCHANGED <<inventory, stocked, carts, editor, document, added, buyer, lines,
                   todo, probe, skipped, answer, orders, dispatched, ledger>>

Next ==
    \/ InvNext /\ UNCHANGED <<cartVars, coVars>>
    \/ CartNext /\ UNCHANGED <<invVars, coVars>>
    \/ \E r \in Checkouts : CheckoutStep(r)
    \/ Crash

Spec == Init /\ [][Next]_vars

--------------------------------------------------------------------------------
(* Properties                                                                 *)

\* What version v of p's row must hold: the initial stock, or what the deduction
\* that produced v left of the stock its checkout had read.
Balance(p, v) ==
    IF v = 1
    THEN stocked[p]
    ELSE ledger[p][v - 1].saw.quantity - ledger[p][v - 1].line.quantity

\* Optimistic locking serialises the deductions of a product: the k-th one was
\* decided on exactly the row the (k-1)-th left, although the row was read in an
\* earlier statement, and the row holds what the last one left.  A stale read is
\* never acted on and no deduction overwrites another.
StockChain ==
    \A p \in Products :
        /\ \A k \in 1 .. Len(ledger[p]) :
              /\ ledger[p][k].saw.version = k
              /\ ledger[p][k].saw.quantity = Balance(p, k)
        /\ inventory[p] # None =>
              /\ inventory[p].version = Len(ledger[p]) + 1
              /\ inventory[p].quantity = Balance(p, Len(ledger[p]) + 1)

\* Checkout r has taken stock for line l.
TookFor(r, l) ==
    \E k \in 1 .. Len(ledger[l.product]) :
        ledger[l.product][k].by = r /\ ledger[l.product][k].line = l

\* An order that is stored, acknowledged or not, has the stock of each of its
\* lines, except those whose inventory read failed; an order answered 201 is
\* stored; and its jobs reach the worker pool only once it is stored.
OrderBacked ==
    \A r \in Checkouts :
        /\ orders[r] # None =>
              \A l \in orders[r].lines \ skipped[r] : TookFor(r, l)
        /\ answer[r] = "created" => orders[r] # None
        /\ \A j \in dispatched : j.order = r => orders[r] # None

\* A checkout takes the stock of a line at most once.
TakesOnce ==
    \A p \in Products : \A j, k \in 1 .. Len(ledger[p]) :
        /\ ledger[p][j].by = ledger[p][k].by
        /\ ledger[p][j].line = ledger[p][k].line
        => j = k

\* ErrOptimisticLockConflict is never spurious: the version the losing checkout
\* read was consumed by another checkout's deduction.  (The last return of
\* ReserveStockWithOptimisticLock, a conflict with an unchanged version, is
\* therefore dead code.)
ConflictMeansProgress ==
    \A r \in Checkouts :
        answer[r] = "conflict" =>
            LET p == probe[r].line.product
                v == probe[r].row.version
            IN  v <= Len(ledger[p]) /\ ledger[p][v].by # r

\* Units of p in the lines ls.
UnitsOf(p, ls) == SumFunction([l \in ls |-> IF l.product = p THEN l.quantity ELSE 0])

\* Units of p in stored orders, lines that skipped the reservation left out.
UnitsSold(p) ==
    SumFunction([r \in Checkouts |->
        IF orders[r] = None THEN 0 ELSE UnitsOf(p, orders[r].lines \ skipped[r])])

\* No overselling: what stored orders reserved of a product fits in what its row
\* has lost since it was stocked, whichever checkouts ran, failed or crashed.  Only
\* a user who asks for more of it than an int holds can break this: the sum wraps,
\* and the deduction of such a line adds stock.
NoOversell ==
    \A p \in Products :
        inventory[p] # None /\ (\A u \in Users : AsksFit(u, p))
            => UnitsSold(p) <= stocked[p] - inventory[p].quantity

\* The lines checkout r has taken stock for.
Taken(r) ==
    UNION {{ledger[p][k].line : k \in {j \in 1 .. Len(ledger[p]) : ledger[p][j].by = r}}
           : p \in Products}

\* The refinement mapping: versions, probes and program counters are forgotten.
Sale == INSTANCE AtomicSale WITH
    stock <- [p \in Products |-> IF inventory[p] = None
                                 THEN None ELSE inventory[p].quantity],
    taken <- [r \in Checkouts |-> Taken(r)],
    sold <- [r \in Checkouts |-> IF orders[r] = None
                                 THEN None ELSE orders[r].lines \ skipped[r]]

\* Checkouts implement atomic sales: although the row is read in one statement and
\* updated in another, and statements fail or lose their acknowledgement, each
\* change of stock is one that an indivisible check-and-take of a line could make,
\* no line is taken twice, and an order is stored with lines its checkout holds.
SaleSpec == Sale!Spec

--------------------------------------------------------------------------------
(* What the README says and the code does not do                              *)

\* README, Unit of Work: "If any step fails, tx.Rollback(ctx) executes
\* automatically": a checkout that is refused keeps no stock.
AllOrNothing ==
    \A r \in Checkouts :
        pc[r] = "done" /\ orders[r] = None => \A l \in lines[r] : ~TookFor(r, l)

\* README: reading the cart, inserting the order and clearing the cart are one
\* atomic transaction: a unit put in the cart once is ordered at most once.
BoughtOnce ==
    \A u \in Users, p \in Products :
        LET ordered == {r \in Checkouts : orders[r] # None /\ buyer[r] = u}
        IN  SumFunction([r \in ordered |-> UnitsOf(p, orders[r].lines)]) <= added[u][p]
================================================================================
