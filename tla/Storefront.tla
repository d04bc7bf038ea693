------------------------------- MODULE Storefront ------------------------------
(******************************************************************************)
(* The shop front: requests to the product catalogue and to the coupons, in   *)
(* one process, on one Postgres and one Redis.                                *)
(******************************************************************************)
EXTENDS Catalogue, Coupons

vars == <<frontVars, catVars, coupVars>>

TypeOK == FrontTypeOK /\ CatTypeOK /\ CoupTypeOK

Init == FrontInit /\ CatInit /\ CoupInit

Next ==
    \/ \E r \in Requests : Begin(r) /\ UNCHANGED <<catVars, coupVars>>
    \/ \E r \in Requests : CatalogueStep(r) /\ UNCHANGED coupVars
    \/ \E r \in Requests : CouponStep(r) /\ UNCHANGED catVars
    \/ ExpireEntry /\ UNCHANGED <<frontVars, coupVars>>
    \/ ExpireCoupon /\ UNCHANGED <<frontVars, catVars>>
    \/ FrontCrash /\ CatCrash /\ UNCHANGED coupVars

Spec == Init /\ [][Next]_vars

\* Redis expires entries.  Nothing else is promised: no request need come or end.
LiveSpec == Spec /\ WF_vars(ExpireEntry /\ UNCHANGED <<frontVars, coupVars>>)

\* A request about a coupon that has begun is served: every call it makes returns.
ServedSpec ==
    Spec /\ \A r \in Requests : WF_vars(CouponStep(r) /\ UNCHANGED catVars)

--------------------------------------------------------------------------------
(* Properties                                                                 *)

\* Whatever was lost or overtaken, an old product is not served for ever: the entry
\* is replaced, deleted, or its ttl ends.
StaleEnds == Stale ~> ~Stale
================================================================================
