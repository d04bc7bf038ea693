------------------------------ MODULE MCOrderCancel ------------------------------
(* Module OrderCancel for TLC.                                                *)
EXTENDS OrderCancel, TLC

Symmetry == 
    Permutations(Cancels) \cup Permutations(Products) \cup Permutations(Orders)
================================================================================
