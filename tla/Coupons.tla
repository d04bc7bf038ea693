--------------------------------- MODULE Coupons -------------------------------
(******************************************************************************)
(* One coupon: Validate, RecordUse, and a checkout that names the coupon,     *)
(*                                                                            *)
(*   lookup -> check -> done     again -> record -> done     place -> done    *)
(*                                                                            *)
(* Each is a request of its own and nothing ties one to another: a checkout   *)
(* takes code and discount from its body, and neither validates the coupon    *)
(* nor records its use.  (No handler calls RecordUse.)                        *)
(******************************************************************************)
EXTENDS ShopRequests, Naturals, FiniteSets

CONSTANT Limits   \* values of max_uses; 0 means no limit

ASSUME CouponAssumption == Limits \subseteq Nat /\ None \notin Nat

VARIABLES
    coupon,   \* its row: max_uses, used_count, is_active, whether it has expired
    uses,     \* table coupon_uses: the users who have a row
    ordered   \* requests whose order is stored with the coupon's discount

coupVars == <<coupon, uses, ordered>>

Coupon == [limit : Limits, used : Nat, active : BOOLEAN, expired : BOOLEAN]

CoupTypeOK ==
    /\ coupon \in Coupon
    /\ uses \in SUBSET Users
    /\ ordered \in SUBSET Requests

CoupInit ==
    /\ coupon \in [limit : Limits, used : {0}, active : BOOLEAN, expired : {FALSE}]
    /\ uses = {}
    /\ ordered = {}

--------------------------------------------------------------------------------
(* Validate                                                                   *)

Exhausted == coupon.limit > 0 /\ coupon.used >= coupon.limit

IsValid == coupon.active /\ ~coupon.expired /\ ~Exhausted

LookupValid(r) ==
    /\ pc[r] = "lookup"
    /\ IsValid
    /\ GoTo(r, "check")
    /\ UNCHANGED coupVars

\* Not valid now; or GetByCode fails, which Validate calls "not found".
LookupRefuses(r) ==
    /\ pc[r] = "lookup"
    /\ \/ ~IsValid /\ Answer(r, "invalid")
       \/ "db" \in Faults /\ Answer(r, "not_found")
    /\ UNCHANGED coupVars

\* GetUserCouponUse
CheckUse(r) ==
    /\ pc[r] = "check"
    /\ \/ user[r] \notin uses /\ Answer(r, "valid")
       \/ user[r] \in uses /\ Answer(r, "used")
       \/ "db" \in Faults /\ Answer(r, "error")
    /\ UNCHANGED coupVars

--------------------------------------------------------------------------------
(* RecordUse                                                                  *)

\* GetByCode for the id: IsValid is not asked.
FetchCoupon(r) ==
    /\ pc[r] = "again"
    /\ \/ GoTo(r, "record")
       \/ "db" \in Faults /\ Answer(r, "error")
    /\ UNCHANGED coupVars

\* Mutant of InsertUse: the count is incremented although the INSERT was refused.
InsertOrCount(r) ==
    /\ uses' = uses \cup {user[r]}
    /\ coupon' = [coupon EXCEPT !.used = @ + 1]

\* The transaction: UNIQUE (coupon_id, user_id), then used_count + 1.
InsertUse(r) ==
    /\ user[r] \notin uses
    /\ uses' = uses \cup {user[r]}
    /\ coupon' = [coupon EXCEPT !.used = @ + 1]

RecordUse(r) ==
    /\ pc[r] = "record"
    /\ InsertUse(r)
    /\ \/ Answer(r, "recorded")
       \/ "db" \in Faults /\ Answer(r, "error")   \* the COMMIT is not acknowledged
    /\ UNCHANGED ordered

\* The INSERT is refused, or a statement fails: rolled back.
RecordFails(r) ==
    /\ pc[r] = "record"
    /\ user[r] \in uses \/ "db" \in Faults
    /\ Answer(r, "error")
    /\ UNCHANGED coupVars

--------------------------------------------------------------------------------
(* CreateOrderFromCart, as far as the coupon is concerned (else: Checkout)    *)

\* The client's discount is taken off the total and the order stored.
OrderWithCoupon(r) ==
    /\ pc[r] = "place"
    /\ ordered' = ordered \cup {r}
    /\ \/ Answer(r, "ordered")
       \/ "db" \in Faults /\ Answer(r, "error")   \* the COMMIT is not acknowledged
    /\ UNCHANGED <<coupon, uses>>

\* The cart is empty, stock is short, or a statement fails.
OrderRefused(r) ==
    /\ pc[r] = "place"
    /\ Answer(r, "error")
    /\ UNCHANGED coupVars

\* Time passes expires_at.
ExpireCoupon ==
    /\ ~coupon.expired
    /\ coupon' = [coupon EXCEPT !.expired = TRUE]
    /\ UNCHANGED <<uses, ordered>>

CouponStep(r) ==
    \/ LookupValid(r)
    \/ LookupRefuses(r)
    \/ CheckUse(r)
    \/ FetchCoupon(r)
    \/ RecordUse(r)
    \/ RecordFails(r)
    \/ OrderWithCoupon(r)
    \/ OrderRefused(r)

--------------------------------------------------------------------------------
(* Properties                                                                 *)

\* used_count is the number of recorded uses, whichever requests race, are refused,
\* fail or lose their acknowledgement.
UsesCounted == coupon.used = Cardinality(uses)

\* "It does NOT consume the coupon - call RecordUse after order creation."
\* (coupon/service.go): an order with the coupon has its use recorded in the end.
UseRecorded == \A r \in Requests : r \in ordered ~> user[r] \in uses
================================================================================
