------------------------------- MODULE MCAccounts ------------------------------
(* Module Accounts for TLC.                                                   *)
EXTENDS Accounts, TLC

Symmetry == Permutations(Requests) \cup Permutations(Emails)
================================================================================
