------------------------------ MODULE ShopRequests -----------------------------
(******************************************************************************)
(* Requests to the shop front: what the operations modelled by Catalogue and  *)
(* Coupons have in common.                                                    *)
(******************************************************************************)
CONSTANTS
    Requests,   \* requests, each served once
    Users,      \* user ids
    None,       \* no entry, nothing read, no user
    Faults      \* subset of {"db", "redis", "crash"}: see module Inventory

ASSUME StorefrontAssumption ==
    Faults \subseteq {"db", "redis", "crash"} /\ None \notin Requests

VARIABLES
    pc,       \* progress of a request: the call it makes next
    user,     \* who sent it, where that matters
    answer    \* what its caller got

frontVars == <<pc, user, answer>>

Labels == {"idle", "get", "select", "fill", "update", "evict", "lookup", "check",
           "again", "record", "place", "done", "crashed"}
Outcomes == {"none", "found", "not_found", "updated", "valid", "invalid", "used",
             "recorded", "ordered", "error"}

FrontTypeOK ==
    /\ pc \in [Requests -> Labels]
    /\ user \in [Requests -> Users \cup {None}]
    /\ answer \in [Requests -> Outcomes]

FrontInit ==
    /\ pc = [r \in Requests |-> "idle"]
    /\ user = [r \in Requests |-> None]
    /\ answer = [r \in Requests |-> "none"]

GoTo(r, l) ==
    /\ pc' = [pc EXCEPT ![r] = l]
    /\ UNCHANGED <<user, answer>>

Answer(r, a) ==
    /\ pc' = [pc EXCEPT ![r] = "done"]
    /\ answer' = [answer EXCEPT ![r] = a]
    /\ user' = user

\* A request is taken up by one of the operations; those on a coupon are for users
\* who are signed in.
Begin(r) ==
    /\ pc[r] = "idle"
    /\ \/ \E l \in {"get", "update"} : GoTo(r, l)
       \/ /\ \E u \in Users : user' = [user EXCEPT ![r] = u]
          /\ \E l \in {"lookup", "again", "place"} : pc' = [pc EXCEPT ![r] = l]
          /\ answer' = answer

\* The server is working on r.
InFlight(r) == pc[r] \notin {"idle", "done", "crashed"}

\* The process dies; what is in Postgres and Redis stays.
FrontCrash ==
    /\ "crash" \in Faults
    /\ \E r \in Requests : InFlight(r)
    /\ pc' = [r \in Requests |-> IF InFlight(r) THEN "crashed" ELSE pc[r]]
    /\ UNCHANGED <<user, answer>>
================================================================================
