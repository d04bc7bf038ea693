---------------------------------- MODULE Cart ---------------------------------
(******************************************************************************)
(* The shopping cart: one JSON document per user in Redis, edited by          *)
(* CartService.AddItem and RemoveItem.  Each edit is a GET, a change in       *)
(* memory and a SET of the whole document, with nothing that stops another    *)
(* request of the same user between the two.                                  *)
(*                                                                            *)
(* A cart is the set of its lines.  The document keeps them in insertion      *)
(* order; no property here tells two orders apart, and a checkout is allowed  *)
(* to take them in any order.                                                 *)
(******************************************************************************)
EXTENDS Inventory, FiniteSets

CONSTANTS
    Users,           \* user ids
    Edits,           \* AddItem and RemoveItem requests, each served once
    AddQuantities,   \* quantities an AddItem request may carry
    MaxInt,          \* largest value of Go's int (2^63 - 1 in the code)
    RedisConnected   \* FALSE: the server started without Redis (nil client)

Line == [product : Products, quantity : Int]

ASSUME CartAssumption ==
    /\ MaxInt \in Nat \ {0}
    /\ AddQuantities \subseteq -(MaxInt + 1) .. MaxInt
    /\ RedisConnected \in BOOLEAN

VARIABLES
    carts,    \* Redis: the lines under the key "cart:<user>", {} if no key
    editPc,   \* progress of an edit request
    editor,   \* its user
    document, \* the lines it will SET
    added     \* history: units of p that AddItem requests of u asked for

cartVars == <<carts, editPc, editor, document, added>>

EditStates == {"idle", "save", "saved", "failed", "crashed"}

CartTypeOK ==
    /\ carts \in [Users -> SUBSET Line]
    /\ editPc \in [Edits -> EditStates]
    /\ editor \in [Edits -> Users]
    /\ document \in [Edits -> SUBSET Line]
    /\ added \in [Users -> [Products -> Int]]

CartInit ==
    /\ carts = [u \in Users |-> {}]
    /\ editPc = [e \in Edits |-> "idle"]
    /\ editor \in [Edits -> Users]
    /\ document = [e \in Edits |-> {}]
    /\ added = [u \in Users |-> [p \in Products |-> 0]]

--------------------------------------------------------------------------------
(* RedisCartRepository                                                        *)

\* GetByUserID: a miss, a Redis error and a nil client all read as an empty
\* cart with a nil error.
GetByUserID(u) ==
    {IF RedisConnected THEN carts[u] ELSE {}}
        \cup (IF "redis" \in Faults THEN {{}} ELSE {})

\* Save and Clear: the SET or DEL of the user's key, a no-op without Redis.
StoreCart(u, lines) ==
    carts' = IF RedisConnected THEN [carts EXCEPT ![u] = lines] ELSE carts

--------------------------------------------------------------------------------
(* CartService                                                                *)

\* Go's int wraps around.
AddInt(a, b) == ((a + b + MaxInt + 1) % (2 * (MaxInt + 1))) - (MaxInt + 1)

RequestedQuantity(q) == IF q <= 0 THEN 1 ELSE q

\* Mutant of Merge: the loop does not look for the product's line.
MergeAppends(lines, p, q) == lines \cup {[product |-> p, quantity |-> q]}

\* The merge loop of AddItem: the line of product p grows, or a line is added.
Merge(lines, p, q) ==
    IF \E l \in lines : l.product = p
    THEN LET old == CHOOSE l \in lines : l.product = p
         IN  (lines \ {old})
                \cup {[product |-> p, quantity |-> AddInt(old.quantity, q)]}
    ELSE lines \cup {[product |-> p, quantity |-> q]}

\* The filter loop of RemoveItem.
Without(lines, p) == {l \in lines : l.product # p}

\* AddItem up to its GET; the product was looked up first.
AddItem(e, p, q) ==
    /\ editPc[e] = "idle"
    /\ ProductExists(p)
    /\ \E lines \in GetByUserID(editor[e]) :
         document' = [document EXCEPT ![e] = Merge(lines, p, RequestedQuantity(q))]
    /\ editPc' = [editPc EXCEPT ![e] = "save"]
    /\ added' = [added EXCEPT ![editor[e]][p] = @ + RequestedQuantity(q)]
    /\ UNCHANGED <<carts, editor>>

\* AddItem of a product that is not found, or whose lookup fails.
AddItemNoProduct(e, p) ==
    /\ editPc[e] = "idle"
    /\ ~ProductExists(p) \/ "db" \in Faults
    /\ editPc' = [editPc EXCEPT ![e] = "failed"]
    /\ UNCHANGED <<carts, editor, document, added>>

RemoveItem(e, p) ==
    /\ editPc[e] = "idle"
    /\ \E lines \in GetByUserID(editor[e]) :
         document' = [document EXCEPT ![e] = Without(lines, p)]
    /\ editPc' = [editPc EXCEPT ![e] = "save"]
    /\ UNCHANGED <<carts, editor, added>>

\* Mutant of SaveCart: lines saved meanwhile are added to the edit's own.
SaveCartAdding(e) ==
    /\ editPc[e] = "save"
    /\ LET held == carts[editor[e]]
           Units(p, ls) == IF \E l \in ls : l.product = p
                           THEN (CHOOSE l \in ls : l.product = p).quantity
                           ELSE 0
       IN  StoreCart(editor[e],
                     {[product |-> l.product,
                       quantity |-> l.quantity + Units(l.product, held)] :
                      l \in document[e]})
    /\ editPc' = [editPc EXCEPT ![e] = "saved"]
    /\ UNCHANGED <<editor, document, added>>

\* The SET, over whatever the key holds by now.  A Redis error may come with
\* or without the write.
SaveCart(e) ==
    /\ editPc[e] = "save"
    /\ StoreCart(editor[e], document[e])
    /\ \E outcome \in {"saved"} \cup (IF "redis" \in Faults THEN {"failed"} ELSE {}) :
         editPc' = [editPc EXCEPT ![e] = outcome]
    /\ UNCHANGED <<editor, document, added>>

SaveCartFails(e) ==
    /\ "redis" \in Faults
    /\ editPc[e] = "save"
    /\ editPc' = [editPc EXCEPT ![e] = "failed"]
    /\ UNCHANGED <<carts, editor, document, added>>

\* The 7-day TTL of the key runs out.
CartExpires(u) ==
    /\ "expiry" \in Faults
    /\ carts[u] # {}
    /\ carts' = [carts EXCEPT ![u] = {}]
    /\ UNCHANGED <<editPc, editor, document, added>>

CartNext ==
    \/ \E e \in Edits, p \in Products :
          \/ \E q \in AddQuantities : AddItem(e, p, q)
          \/ AddItemNoProduct(e, p)
          \/ RemoveItem(e, p)
    \/ \E e \in Edits : SaveCart(e) \/ SaveCartFails(e)
    \/ \E u \in Users : CartExpires(u)

\* The server dies: an edit between its GET and its SET goes no further.
CartCrash ==
    editPc' = [e \in Edits |-> IF editPc[e] = "save" THEN "crashed" ELSE editPc[e]]

--------------------------------------------------------------------------------
(* Properties                                                                 *)

\* User u has asked for no more units of p than Go's int holds.
AsksFit(u, p) == added[u][p] <= MaxInt

\* A cart never holds two lines for one product, and a line of fewer than one unit
\* only when the sum may have wrapped, whatever edits of the same user overlap: the
\* merge loop of AddItem finds the product's line in every document an edit can
\* have read.
CartWellFormed ==
    \A u \in Users : \A l \in carts[u] :
        /\ AsksFit(u, l.product) => l.quantity >= 1
        /\ \A m \in carts[u] : m.product = l.product => m = l

\* Overlapping edits may lose units (the last SET wins) but never make them up:
\* a cart, or a document about to be saved, holds no more units of a product
\* than the AddItem requests of that user asked for.
CartNeverInflates ==
    LET Sound(u, lines) == \A l \in lines : l.quantity <= added[u][l.product]
    IN  /\ \A u \in Users : Sound(u, carts[u])
        /\ \A e \in Edits : editPc[e] = "save" => Sound(editor[e], document[e])
================================================================================
