-------------------------------- MODULE Payment --------------------------------
(******************************************************************************)
(* PaymentService.Charge: concurrent and retried POST /payments requests that *)
(* share an idempotency key, the table payments with its UNIQUE               *)
(* idempotency_key, and the payment provider.  Each statement and the call to *)
(* the provider is a step of its own:                                         *)
(*                                                                            *)
(*   idle -> create -> charge -> record -> done                               *)
(*     \-> done (a payment with the key exists: return it)                    *)
(******************************************************************************)
EXTENDS Integers

CONSTANTS
    Charges,      \* POST /payments requests, each served once; also payment ids
    Orders,       \* order ids
    Users,        \* user ids
    ClientKeys,   \* idempotency keys clients may send
    None,         \* no key in the request; no row in the table; no answer yet
    Faults        \* subset of {"db", "crash"}: see module Inventory

Statuses == {"PENDING", "CAPTURED", "FAILED"}
Request == [order : Orders, user : Users, key : ClientKeys \cup {None}]

\* A key is the client's, or else order and user joined.
Keys == ClientKeys \cup (Orders \X Users)

Payment == [key : Keys, order : Orders, status : Statuses]

\* 201 with the payment's status, 402 or 500.
Answers == [code : {201, 402, 500}, status : Statuses]

ASSUME PaymentAssumption ==
    /\ None \notin ClientKeys
    /\ None \notin Payment
    /\ None \notin Answers
    /\ Faults \subseteq {"db", "crash"}

VARIABLES
    pc,         \* progress of a request
    request,    \* what it asks for
    payments,   \* table payments, by id
    provider,   \* what the provider did with payment c
    answer      \* the HTTP answer to the request

vars == <<pc, request, payments, provider, answer>>

TypeOK ==
    /\ pc \in [Charges -> {"idle", "create", "charge", "record", "done", "crashed"}]
    /\ request \in [Charges -> Request]
    /\ payments \in [Charges -> Payment \cup {None}]
    /\ provider \in [Charges -> {"none", "captured", "declined"}]
    /\ answer \in [Charges -> Answers \cup {None}]

Init ==
    /\ pc = [c \in Charges |-> "idle"]
    /\ request \in [Charges -> Request]
    /\ payments = [c \in Charges |-> None]
    /\ provider = [c \in Charges |-> "none"]
    /\ answer = [c \in Charges |-> None]

--------------------------------------------------------------------------------

Key(c) ==
    IF request[c].key = None
    THEN <<request[c].order, request[c].user>>
    ELSE request[c].key

Answer(c, code, status) ==
    /\ answer' = [answer EXCEPT ![c] = [code |-> code, status |-> status]]
    /\ pc' = [pc EXCEPT ![c] = "done"]

\* GetByIdempotencyKey finds a payment: it is the answer, whatever its status.
LookupFinds(c) ==
    /\ pc[c] = "idle"
    /\ \E d \in Charges :
         /\ payments[d] # None
         /\ payments[d].key = Key(c)
         /\ Answer(c, 201, payments[d].status)
    /\ UNCHANGED <<request, payments, provider>>

\* It finds none, or fails: Charge goes on either way.
LookupMisses(c) ==
    /\ pc[c] = "idle"
    /\ \/ \A d \in Charges : payments[d] # None => payments[d].key # Key(c)
       \/ "db" \in Faults
    /\ pc' = [pc EXCEPT ![c] = "create"]
    /\ UNCHANGED <<request, payments, provider, answer>>

\* Mutant of KeyIsFree: the table has no UNIQUE constraint.
KeyAlwaysFree(c) == TRUE

\* UNIQUE (idempotency_key)
KeyIsFree(c) == \A d \in Charges : payments[d] # None => payments[d].key # Key(c)

InsertPending(c) ==
    /\ KeyIsFree(c)
    /\ payments' = [payments EXCEPT ![c] =
                      [key |-> Key(c), order |-> request[c].order, status |-> "PENDING"]]

Create(c) ==
    /\ pc[c] = "create"
    /\ InsertPending(c)
    /\ pc' = [pc EXCEPT ![c] = "charge"]
    /\ UNCHANGED <<request, provider, answer>>

\* The INSERT is applied, its acknowledgement lost.
CreateUnacknowledged(c) ==
    /\ pc[c] = "create"
    /\ "db" \in Faults
    /\ InsertPending(c)
    /\ Answer(c, 500, "PENDING")
    /\ UNCHANGED <<request, provider>>

\* The key is taken by a request that looked it up at the same time, or the
\* statement fails.
CreateFails(c) ==
    /\ pc[c] = "create"
    /\ ~KeyIsFree(c) \/ "db" \in Faults
    /\ Answer(c, 500, "PENDING")
    /\ UNCHANGED <<request, payments, provider>>

\* simulateProviderCharge: it waits, ignoring the request's context, and captures
\* or declines.
ProviderCharge(c) ==
    /\ pc[c] = "charge"
    /\ \E outcome \in {"captured", "declined"} :
         provider' = [provider EXCEPT ![c] = outcome]
    /\ pc' = [pc EXCEPT ![c] = "record"]
    /\ UNCHANGED <<request, payments, answer>>

\* Mutant of StatusFor: the provider's word is stored as it is.
StatusRaw(c) == provider[c]

StatusFor(c) == IF provider[c] = "declined" THEN "FAILED" ELSE "CAPTURED"

\* Mutant of AnswerOutcome: a declined charge is answered as a success.
AnswerSuccess(c) == Answer(c, 201, "CAPTURED")

\* The answer follows the provider, not the row.
AnswerOutcome(c) ==
    Answer(c, IF provider[c] = "declined" THEN 402 ELSE 201, StatusFor(c))

\* Mutant of UpdateStatus: WHERE order_id instead of WHERE id.
UpdateStatusOfOrder(c) ==
    payments' = [d \in Charges |->
        IF payments[d] # None /\ payments[d].order = request[c].order
        THEN [key |-> payments[d].key, order |-> payments[d].order,
              status |-> StatusFor(c)]
        ELSE payments[d]]

UpdateStatus(c) ==
    payments' = [payments EXCEPT ![c] =
        [key |-> @.key, order |-> @.order, status |-> StatusFor(c)]]

Record(c) ==
    /\ pc[c] = "record"
    /\ UpdateStatus(c)
    /\ AnswerOutcome(c)
    /\ UNCHANGED <<request, provider>>

\* UpdateStatus fails and Charge drops the error: the row stays PENDING.
RecordFails(c) ==
    /\ pc[c] = "record"
    /\ "db" \in Faults
    /\ AnswerOutcome(c)
    /\ UNCHANGED <<request, payments, provider>>

ChargeStep(c) ==
    \/ LookupFinds(c)
    \/ LookupMisses(c)
    \/ Create(c)
    \/ CreateUnacknowledged(c)
    \/ CreateFails(c)
    \/ ProviderCharge(c)
    \/ Record(c)
    \/ RecordFails(c)

\* The server dies; a provider call already made stays made.
Crash ==
    /\ "crash" \in Faults
    /\ \E c \in Charges : pc[c] \in {"create", "charge", "record"}
    /\ pc' = [c \in Charges |-> IF pc[c] \in {"create", "charge", "record"}
                                THEN "crashed" ELSE pc[c]]
    /\ UNCHANGED <<request, payments, provider, answer>>

Next == (\E c \in Charges : ChargeStep(c)) \/ Crash

Spec == Init /\ [][Next]_vars

\* A request that has been taken up keeps running: every call it makes returns.
Fairness == \A c \in Charges : WF_vars(pc[c] # "idle" /\ ChargeStep(c))

LiveSpec == Spec /\ Fairness

--------------------------------------------------------------------------------
(* Properties                                                                 *)

\* The provider is called at most once for an idempotency key, however requests
\* overlap, are retried after an error or die: the lookup alone does not ensure
\* it (two requests may both miss), the UNIQUE constraint does.
ChargedOncePerKey ==
    \A c, d \in Charges :
        provider[c] # "none" /\ provider[d] # "none" /\ Key(c) = Key(d) => c = d

\* What the table says happened did: a payment is CAPTURED only if the provider
\* captured it and FAILED only if it declined.
RecordTruthful ==
    \A c \in Charges : payments[c] # None =>
        /\ payments[c].status = "CAPTURED" => provider[c] = "captured"
        /\ payments[c].status = "FAILED" => provider[c] = "declined"

\* A client told CAPTURED, by the request that charged or by a later one that
\* found its payment, carries a key under which the provider did capture.
AnswerTruthful ==
    \A c \in Charges :
        answer[c] # None /\ answer[c].code = 201 /\ answer[c].status = "CAPTURED" =>
            \E d \in Charges : provider[d] = "captured" /\ Key(d) = Key(c)

\* The payments made under key k, each with what the provider did for it.
Account(k) ==
    {[by |-> c, status |-> payments[c].status, outcome |-> provider[c]] :
        c \in {d \in Charges : payments[d] # None /\ payments[d].key = k}}

\* The refinement mapping: requests and their progress are forgotten.
ByKey == INSTANCE AtomicCharge WITH account <- [k \in Keys |-> Account(k)]

\* Charge implements an atomic charge per key: however requests with one key
\* overlap, are retried, fail between statements or die, the key has one payment,
\* charged at most once, and its row is settled at most once, with what the
\* provider did, and never changes or disappears afterwards.
ChargeSpec == ByKey!Spec

\* "4. Update status to CAPTURED or FAILED." (service.go): once the provider has
\* captured or declined, the row says so in the end.
PaymentSettles ==
    \A c \in Charges :
        provider[c] # "none" ~> payments[c] # None /\ payments[c].status # "PENDING"
================================================================================
