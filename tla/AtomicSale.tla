------------------------------- MODULE AtomicSale ------------------------------
(******************************************************************************)
(* What checkouts promise about stock, with no versions, statements or        *)
(* retries: a line's stock is checked and taken in one indivisible step, once *)
(* per checkout, and an order is placed only with lines whose stock its own   *)
(* checkout holds.  Module Checkout implements this (its property SaleSpec).  *)
(******************************************************************************)
EXTENDS Integers

CONSTANTS
    Checkouts,
    Products,
    None         \* not stocked; no order

VARIABLES
    stock,   \* units of a product on the shelf, or None
    taken,   \* lines whose stock a checkout holds
    sold     \* lines of the order it placed, or None

vars == <<stock, taken, sold>>

Init ==
    /\ stock \in [Products -> Nat \cup {None}]
    /\ taken = [r \in Checkouts |-> {}]
    /\ sold = [r \in Checkouts |-> None]

\* A product goes on sale with its initial stock.
Shelve(p) ==
    /\ stock[p] = None
    /\ stock'[p] \in Nat
    /\ stock' = [stock EXCEPT ![p] = stock'[p]]
    /\ UNCHANGED <<taken, sold>>

\* Checkout r takes the stock of a line it does not hold yet, all of it or none.  (A
\* quantity that wrapped around in the cart is negative and adds to the stock.)
Take(r) ==
    /\ \E l \in taken'[r] \ taken[r] :
         /\ taken' = [taken EXCEPT ![r] = @ \cup {l}]
         /\ stock[l.product] \in Nat
         /\ l.quantity <= stock[l.product]
         /\ stock' = [stock EXCEPT ![l.product] = @ - l.quantity]
    /\ UNCHANGED sold

Place(r) ==
    /\ sold[r] = None
    /\ \E ls \in SUBSET taken[r] : sold' = [sold EXCEPT ![r] = ls]
    /\ UNCHANGED <<stock, taken>>

Next ==
    \/ \E p \in Products : Shelve(p)
    \/ \E r \in Checkouts : Take(r) \/ Place(r)

Spec == Init /\ [][Next]_vars
================================================================================
