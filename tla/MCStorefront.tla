------------------------------ MODULE MCStorefront -----------------------------
(* Instances of Storefront for TLC.                                           *)
EXTENDS Storefront
================================================================================
