------------------------------- MODULE Inventory -------------------------------
(******************************************************************************)
(* The tables products and inventory, the handler that fills them             *)
(* (ProductService.CreateProduct) and the statements that                     *)
(* PostgresInventoryRepository runs on an inventory row.                      *)
(*                                                                            *)
(* Creating a product takes two statements outside any transaction: INSERT    *)
(* INTO products, then SetStock.  Between them, and for ever if the second    *)
(* one fails (its error is dropped), the product is on sale with no           *)
(* inventory row.                                                             *)
(******************************************************************************)
EXTENDS Integers

CONSTANTS
    Products,         \* product ids
    Seeded,           \* the products seedDatabase inserted before serving
    SeedStock,        \* the stock it gave each (100 in the code)
    StockQuantities,  \* initial stocks a CreateProduct request may ask for
    MaxInt4,          \* largest value of an INT column (2^31 - 1 in the code)
    None,             \* "no such row"
    Faults            \* which external faults may happen

\* "db": a statement may fail, applied or not; "redis": the same for a Redis
\* command; "crash": the server process may die; "expiry": a cart may expire.
FaultKinds == {"db", "redis", "crash", "expiry"}

Row == [quantity : Nat, reserved : Nat, version : Nat \ {0}]

ASSUME InventoryAssumption ==
    /\ Seeded \subseteq Products
    /\ MaxInt4 \in Nat
    /\ SeedStock \in 0 .. MaxInt4
    /\ StockQuantities \subseteq Int
    /\ None \notin Row
    /\ Faults \subseteq FaultKinds

VARIABLES
    creation,   \* progress of the CreateProduct request that makes p
    inventory,  \* table inventory: a row or None for each product
    stocked     \* history: the stock p was given when its row was inserted

invVars == <<creation, inventory, stocked>>

\* "none": not in table products; "inserted": in it, SetStock still to come.
CreationStates == {"none", "inserted", "done", "crashed"}

InvTypeOK ==
    /\ creation \in [Products -> CreationStates]
    /\ inventory \in [Products -> Row \cup {None}]
    /\ stocked \in [Products -> Nat]

NewRow(q) == [quantity |-> q, reserved |-> 0, version |-> 1]

\* seedDatabase runs before the server listens.  The INSERT of a product's row may
\* fail, its error dropped, or the process die before it; the next start finds
\* table products not empty and does not try again.
Unstocked == IF Faults \cap {"db", "crash"} = {} THEN {{}} ELSE SUBSET Seeded

InvInit ==
    /\ creation = [p \in Products |-> IF p \in Seeded THEN "done" ELSE "none"]
    /\ \E bare \in Unstocked :
         /\ inventory = [p \in Products |-> IF p \in Seeded \ bare
                                            THEN NewRow(SeedStock) ELSE None]
         /\ stocked = [p \in Products |-> IF p \in Seeded \ bare THEN SeedStock ELSE 0]

\* productRepo.GetByID succeeds: the product has a row in table products.
ProductExists(p) == creation[p] # "none"

AvailableQuantity(row) == row.quantity - row.reserved

\* A Go int that pgx can encode for an INT column.
Encodable(q) == -(MaxInt4 + 1) <= q /\ q <= MaxInt4

--------------------------------------------------------------------------------
(* ProductService.CreateProduct                                               *)

\* An INSERT that is not applied answers 400 and leaves no trace: no step.
InsertProduct(p) ==
    /\ creation[p] = "none"
    /\ creation' = [creation EXCEPT ![p] = "inserted"]
    /\ UNCHANGED <<inventory, stocked>>

\* The INSERT is applied and its acknowledgement lost: CreateProduct returns at
\* once, and the product stays without an inventory row.
InsertProductUnacknowledged(p) ==
    /\ "db" \in Faults
    /\ creation[p] = "none"
    /\ creation' = [creation EXCEPT ![p] = "done"]
    /\ UNCHANGED <<inventory, stocked>>

\* Each statement that changes a row's quantity also bumps its version.
Written(row, q) ==
    [quantity |-> q, reserved |-> row.reserved, version |-> row.version + 1]

\* INSERT ... ON CONFLICT (product_id) DO UPDATE, under CHECK (quantity >= 0).
SetStock(p, q) ==
    /\ q >= 0 /\ Encodable(q)
    /\ inventory' = [inventory EXCEPT ![p] =
                        IF @ = None THEN NewRow(q) ELSE Written(@, q)]
    /\ stocked' = [stocked EXCEPT ![p] = q]

\* The second statement is applied.  Whether its acknowledgement arrives makes
\* no difference: CreateProduct drops the error and answers 201 either way.
InitialStock(p) ==
    /\ creation[p] = "inserted"
    /\ \E q \in StockQuantities : SetStock(p, q)
    /\ creation' = [creation EXCEPT ![p] = "done"]

\* The second statement fails (connection, deadline, a quantity that does not fit
\* its column or that the table's CHECK refuses); the request is answered 201 all
\* the same.
InitialStockFails(p) ==
    /\ creation[p] = "inserted"
    /\ "db" \in Faults \/ \E q \in StockQuantities : q < 0 \/ ~Encodable(q)
    /\ creation' = [creation EXCEPT ![p] = "done"]
    /\ UNCHANGED <<inventory, stocked>>

InvNext ==
    \E p \in Products :
        \/ InsertProduct(p)
        \/ InsertProductUnacknowledged(p)
        \/ InitialStock(p)
        \/ InitialStockFails(p)

\* The server dies: a CreateProduct request in flight goes no further.
InvCrash ==
    creation' = [p \in Products |-> IF creation[p] = "inserted" THEN "crashed"
                                                                ELSE creation[p]]

--------------------------------------------------------------------------------
(* ReserveStockWithOptimisticLock: the WHERE and the SET of its UPDATE        *)

\* Mutants of ReserveMatches: the version test forgotten; > for >=; no WHERE.
ReserveMatchesAnyVersion(p, q, v) ==
    inventory[p] # None /\ AvailableQuantity(inventory[p]) >= q

ReserveMatchesStrictly(p, q, v) ==
    /\ inventory[p] # None
    /\ inventory[p].version = v
    /\ AvailableQuantity(inventory[p]) > q

ReserveMatchesAlways(p, q, v) == inventory[p] # None

ReserveMatches(p, q, v) ==
    /\ inventory[p] # None
    /\ inventory[p].version = v
    /\ AvailableQuantity(inventory[p]) >= q

\* The statement itself can run: its parameter is encodable, and if it finds the
\* row the new quantity fits the column.
ReserveRuns(p, q, v) ==
    /\ Encodable(q)
    /\ ReserveMatches(p, q, v) => inventory[p].quantity - q <= MaxInt4

ReserveUpdate(p, q) ==
    inventory' = [inventory EXCEPT ![p] = Written(@, @.quantity - q)]
================================================================================
