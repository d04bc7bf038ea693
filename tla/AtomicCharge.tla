------------------------------ MODULE AtomicCharge -----------------------------
(******************************************************************************)
(* What an idempotency key promises, with no requests, lookups or lost        *)
(* statements: under each key at most one payment is ever opened, it is       *)
(* charged at most once, and its record is settled at most once, with what    *)
(* the provider did.  Module Payment implements this (property ChargeSpec).   *)
(******************************************************************************)

CONSTANTS
    Charges,   \* payment ids
    Keys       \* idempotency keys

VARIABLE account   \* account[k]: what happened under key k, {} or one entry

Entry(c, status, outcome) == [by |-> c, status |-> status, outcome |-> outcome]

Init == account = [k \in Keys |-> {}]

Open(k, c) ==
    /\ account[k] = {}
    /\ account' = [account EXCEPT ![k] = {Entry(c, "PENDING", "none")}]

Charge(k, c) ==
    /\ account[k] = {Entry(c, "PENDING", "none")}
    /\ \E outcome \in {"captured", "declined"} :
         account' = [account EXCEPT ![k] = {Entry(c, "PENDING", outcome)}]

Settle(k, c) ==
    \/ /\ account[k] = {Entry(c, "PENDING", "captured")}
       /\ account' = [account EXCEPT ![k] = {Entry(c, "CAPTURED", "captured")}]
    \/ /\ account[k] = {Entry(c, "PENDING", "declined")}
       /\ account' = [account EXCEPT ![k] = {Entry(c, "FAILED", "declined")}]

Next == \E k \in Keys, c \in Charges : Open(k, c) \/ Charge(k, c) \/ Settle(k, c)

Spec == Init /\ [][Next]_account
================================================================================
