------------------------------- MODULE MCCheckout ------------------------------
(* Instances of Checkout for TLC.                                             *)
EXTENDS Checkout, TLC

\* Initial stocks asked for: one that the table's CHECK refuses, one it takes.
MixedStock == {-1, 1}

\* The requests of one kind are interchangeable.
Symmetry == Permutations(Checkouts) \cup Permutations(Edits)
================================================================================
