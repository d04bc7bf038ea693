----------------------------- MODULE PaymentProofs -----------------------------
(******************************************************************************)
(* Proofs about Payment, for any number of requests, orders, users and keys.  *)
(******************************************************************************)
EXTENDS Payment, TLAPS

\* A row carries its request's key, and no two rows carry the same key: the
\* UNIQUE constraint.
KeyInv ==
    /\ \A c \in Charges : payments[c] # None => payments[c].key = Key(c)
    /\ \A c, d \in Charges :
          payments[c] # None /\ payments[d] # None /\ Key(c) = Key(d) => c = d

\* The provider is called for a payment that has its row, between "charge" and
\* "record"; the row is PENDING until the outcome is recorded.
ProgressInv ==
    \A c \in Charges :
        /\ pc[c] \in {"charge", "record"} \/ provider[c] # "none" => payments[c] # None
        /\ pc[c] \in {"idle", "create", "charge"} => provider[c] = "none"
        /\ pc[c] \in {"idle", "create"} => payments[c] = None
        /\ pc[c] = "record" => provider[c] # "none"
        /\ pc[c] \in {"charge", "record"} => payments[c].status = "PENDING"

IndInv ==
    /\ TypeOK
    /\ KeyInv
    /\ ProgressInv
    /\ RecordTruthful
    /\ AnswerTruthful

\* Every request has a key.
LEMMA KeyType == ASSUME TypeOK, NEW c \in Charges PROVE Key(c) \in Keys
  BY PaymentAssumption DEF TypeOK, Request, Key, Keys

\* A settled row's status follows the provider.
LEMMA StatusForType == ASSUME NEW c \in Charges PROVE StatusFor(c) \in {"CAPTURED", "FAILED"}
  BY DEF StatusFor

\* An answer is an answer.
LEMMA AnswerType ==
    ASSUME TypeOK, NEW c \in Charges, NEW code \in {201, 402, 500},
           NEW status \in Statuses, Answer(c, code, status)
    PROVE  /\ answer' \in [Charges -> Answers \cup {None}]
           /\ pc' \in [Charges -> {"idle", "create", "charge", "record", "done", "crashed"}]
           /\ answer'[c] = [code |-> code, status |-> status]
           /\ pc'[c] = "done"
           /\ \A d \in Charges \ {c} : answer'[d] = answer[d] /\ pc'[d] = pc[d]
  BY DEF TypeOK, Answer, Answers

\* What inserting a PENDING payment does.
LEMMA InsertFacts ==
    ASSUME TypeOK, NEW c \in Charges, InsertPending(c)
    PROVE  /\ payments' \in [Charges -> Payment \cup {None}]
           /\ payments'[c] \in Payment
           /\ payments'[c].key = Key(c)
           /\ payments'[c].status = "PENDING"
           /\ \A d \in Charges \ {c} : payments'[d] = payments[d]
<1> DEFINE row == [key |-> Key(c), order |-> request[c].order, status |-> "PENDING"]
<1>1. row \in Payment
  BY KeyType DEF TypeOK, Request, Payment, Statuses
<1>2. payments' = [payments EXCEPT ![c] = row]
  BY DEF InsertPending
<1>3. row.key = Key(c) /\ row.status = "PENDING"
  OBVIOUS
<1> HIDE DEF row
<1> QED
  BY <1>1, <1>2, <1>3 DEF TypeOK

\* What recording an outcome does.
LEMMA UpdateFacts ==
    ASSUME TypeOK, NEW c \in Charges, payments[c] # None, UpdateStatus(c)
    PROVE  /\ payments' \in [Charges -> Payment \cup {None}]
           /\ payments'[c] \in Payment
           /\ payments'[c].key = payments[c].key
           /\ payments'[c].status = StatusFor(c)
           /\ \A d \in Charges \ {c} : payments'[d] = payments[d]
<1> DEFINE row == [key |-> payments[c].key, order |-> payments[c].order,
                   status |-> StatusFor(c)]
<1>1. row \in Payment
  BY StatusForType DEF TypeOK, Payment, Statuses
<1>2. payments' = [payments EXCEPT ![c] = row]
  BY DEF UpdateStatus
<1>3. row.key = payments[c].key /\ row.status = StatusFor(c)
  OBVIOUS
<1> HIDE DEF row
<1> QED
  BY <1>1, <1>2, <1>3 DEF TypeOK

\* No step changes what a request asks for.
LEMMA RequestFixed ==
    ASSUME [Next]_vars
    PROVE  request' = request /\ \A c \in Charges : Key(c)' = Key(c)
<1>1. request' = request
  BY DEF Next, vars, ChargeStep, LookupFinds, LookupMisses, Create, CreateUnacknowledged,
       CreateFails, ProviderCharge, Record, RecordFails, Crash
<1> QED
  BY <1>1 DEF Key

\* What a client was told stays true: the provider's outcomes are not undone.
LEMMA AnswersStay ==
    ASSUME IndInv, [Next]_vars, NEW c \in Charges, answer'[c] = answer[c],
           \A d \in Charges : provider[d] = "captured" => provider'[d] = "captured"
    PROVE  answer'[c] # None /\ answer'[c].code = 201 /\ answer'[c].status = "CAPTURED" =>
               \E d \in Charges : provider'[d] = "captured" /\ Key(d)' = Key(c)'
<1>1. HAVE answer'[c] # None /\ answer'[c].code = 201 /\ answer'[c].status = "CAPTURED"
<1>2. PICK d \in Charges : provider[d] = "captured" /\ Key(d) = Key(c)
  BY <1>1 DEF IndInv, AnswerTruthful
<1>3. provider'[d] = "captured" /\ Key(d)' = Key(d) /\ Key(c)' = Key(c)
  BY <1>2, RequestFixed
<1> QED
  BY <1>2, <1>3

\* Looking up the key.
LEMMA LookupInd ==
    ASSUME IndInv, [Next]_vars, NEW c \in Charges, LookupFinds(c) \/ LookupMisses(c)
    PROVE  IndInv'
<1> USE DEF IndInv
<1>1. payments' = payments /\ provider' = provider /\ request' = request
  BY DEF LookupFinds, LookupMisses
<1>2. CASE LookupFinds(c)
  <2>1. PICK d \in Charges : /\ payments[d] # None
                            /\ payments[d].key = Key(c)
                            /\ Answer(c, 201, payments[d].status)
    BY <1>2 DEF LookupFinds
  <2>2. payments[d].status \in Statuses
    BY <2>1 DEF TypeOK, Payment
  <2>3. /\ answer' \in [Charges -> Answers \cup {None}]
        /\ pc' \in [Charges -> {"idle", "create", "charge", "record", "done", "crashed"}]
        /\ answer'[c] = [code |-> 201, status |-> payments[d].status]
        /\ pc'[c] = "done"
        /\ \A e \in Charges \ {c} : answer'[e] = answer[e] /\ pc'[e] = pc[e]
    BY <2>1, <2>2, AnswerType
  <2>4. AnswerTruthful'
    <3> SUFFICES ASSUME NEW e \in Charges
                 PROVE  answer'[e] # None /\ answer'[e].code = 201
                          /\ answer'[e].status = "CAPTURED" =>
                        \E f \in Charges : provider'[f] = "captured" /\ Key(f)' = Key(e)'
      BY DEF AnswerTruthful
    <3>1. CASE e # c
      BY <1>1, <2>3, <3>1, AnswersStay
    <3>2. CASE e = c
      <4>1. Key(d) = Key(c) /\ Key(d)' = Key(d) /\ Key(c)' = Key(c)
        BY <2>1, RequestFixed DEF KeyInv
      <4>2. payments[d].status = "CAPTURED" => provider'[d] = "captured"
        BY <1>1, <2>1 DEF RecordTruthful
      <4> QED
        BY <2>3, <3>2, <4>1, <4>2
    <3> QED
      BY <3>1, <3>2
  <2> QED
    BY <1>1, <2>3, <2>4, RequestFixed DEF TypeOK, KeyInv, ProgressInv, RecordTruthful
<1>3. CASE LookupMisses(c)
  <2>1. answer' = answer /\ pc' = [pc EXCEPT ![c] = "create"] /\ pc[c] = "idle"
    BY <1>3 DEF LookupMisses
  <2>2. AnswerTruthful'
    BY <1>1, <2>1, AnswersStay DEF AnswerTruthful
  <2>3. TypeOK'
    BY <1>1, <2>1 DEF TypeOK
  <2>4. ProgressInv'
    BY <1>1, <2>1 DEF ProgressInv, TypeOK
  <2> QED
    BY <1>1, <2>2, <2>3, <2>4, RequestFixed DEF KeyInv, RecordTruthful
<1> QED
  BY <1>2, <1>3

\* Inserting the PENDING row, acknowledged or not: only a free key is taken.
LEMMA CreateInd ==
    ASSUME IndInv, [Next]_vars, NEW c \in Charges,
           Create(c) \/ CreateUnacknowledged(c) \/ CreateFails(c)
    PROVE  IndInv'
<1> USE DEF IndInv
<1>1. provider' = provider /\ request' = request /\ pc[c] = "create"
  BY DEF Create, CreateUnacknowledged, CreateFails
<1>2. /\ answer' \in [Charges -> Answers \cup {None}]
      /\ pc' \in [Charges -> {"idle", "create", "charge", "record", "done", "crashed"}]
      /\ \A e \in Charges \ {c} : answer'[e] = answer[e] /\ pc'[e] = pc[e]
      /\ answer'[c] = answer[c] \/ answer'[c] = [code |-> 500, status |-> "PENDING"]
      /\ pc'[c] \in {"charge", "done"}
      /\ pc'[c] = "charge" => Create(c)
  <2>1. CASE Create(c)
    BY <2>1 DEF Create, TypeOK
  <2>2. CASE CreateUnacknowledged(c) \/ CreateFails(c)
    <3>1. Answer(c, 500, "PENDING")
      BY <2>2 DEF CreateUnacknowledged, CreateFails
    <3> QED
      BY <3>1, AnswerType DEF Statuses
  <2> QED
    BY <2>1, <2>2
<1>3. AnswerTruthful'
  <2> SUFFICES ASSUME NEW e \in Charges
               PROVE  answer'[e] # None /\ answer'[e].code = 201
                        /\ answer'[e].status = "CAPTURED" =>
                      \E f \in Charges : provider'[f] = "captured" /\ Key(f)' = Key(e)'
    BY DEF AnswerTruthful
  <2>1. CASE answer'[e] = answer[e]
    BY <1>1, <2>1, AnswersStay
  <2>2. CASE answer'[e] = [code |-> 500, status |-> "PENDING"]
    BY <2>2
  <2> QED
    BY <1>2, <2>1, <2>2
<1>4. CASE CreateFails(c)
  <2>1. payments' = payments
    BY <1>4 DEF CreateFails
  <2>2. pc'[c] = "done"
    BY <1>4 DEF CreateFails, Answer, TypeOK
  <2>3. TypeOK'
    BY <1>1, <1>2, <2>1 DEF TypeOK
  <2>4. ProgressInv'
    BY <1>1, <1>2, <2>1, <2>2 DEF ProgressInv
  <2> QED
    BY <1>1, <1>3, <2>1, <2>3, <2>4, RequestFixed DEF KeyInv, RecordTruthful
<1>5. CASE Create(c) \/ CreateUnacknowledged(c)
  <2>1. InsertPending(c) /\ KeyIsFree(c)
    BY <1>5 DEF Create, CreateUnacknowledged, InsertPending
  <2>2. /\ payments' \in [Charges -> Payment \cup {None}]
        /\ payments'[c] \in Payment
        /\ payments'[c].key = Key(c)
        /\ payments'[c].status = "PENDING"
        /\ \A d \in Charges \ {c} : payments'[d] = payments[d]
    BY <2>1, InsertFacts
  <2>3. TypeOK'
    BY <1>1, <1>2, <2>2 DEF TypeOK
  <2>4. KeyInv'
    <3>1. \A d \in Charges : payments[d] # None => Key(d) # Key(c)
      BY <2>1 DEF KeyIsFree, KeyInv
    <3> QED
      BY <2>2, <3>1, RequestFixed DEF KeyInv
  <2>5. ProgressInv'
    BY <1>1, <1>2, <2>2, PaymentAssumption DEF ProgressInv
  <2>6. RecordTruthful'
    BY <1>1, <2>2 DEF RecordTruthful
  <2> QED
    BY <1>3, <2>3, <2>4, <2>5, <2>6
<1> QED
  BY <1>4, <1>5

\* Calling the provider, once per row.
LEMMA ProviderInd ==
    ASSUME IndInv, [Next]_vars, NEW c \in Charges, ProviderCharge(c)
    PROVE  IndInv'
<1> USE DEF IndInv
<1>1. PICK outcome \in {"captured", "declined"} :
        provider' = [provider EXCEPT ![c] = outcome]
  BY DEF ProviderCharge
<1>2. /\ request' = request /\ payments' = payments /\ answer' = answer
      /\ pc[c] = "charge"
      /\ pc' = [pc EXCEPT ![c] = "record"]
  BY DEF ProviderCharge
<1>3. payments[c] # None /\ payments[c].status = "PENDING" /\ provider[c] = "none"
  BY <1>2 DEF ProgressInv
<1>4. TypeOK'
  BY <1>1, <1>2 DEF TypeOK
<1>5. ProgressInv'
  BY <1>1, <1>2, <1>3 DEF ProgressInv, TypeOK
<1>6. RecordTruthful'
  BY <1>1, <1>2, <1>3 DEF RecordTruthful, TypeOK
<1>7. \A d \in Charges : provider[d] = "captured" => provider'[d] = "captured"
  BY <1>1, <1>3 DEF TypeOK
<1>8. AnswerTruthful'
  BY <1>2, <1>7, AnswersStay DEF AnswerTruthful
<1> QED
  BY <1>2, <1>4, <1>5, <1>6, <1>8, RequestFixed DEF KeyInv

\* Recording the outcome, or failing to.
LEMMA RecordInd ==
    ASSUME IndInv, [Next]_vars, NEW c \in Charges, Record(c) \/ RecordFails(c)
    PROVE  IndInv'
<1> USE DEF IndInv
<1>1. provider' = provider /\ request' = request /\ pc[c] = "record" /\ AnswerOutcome(c)
  BY DEF Record, RecordFails
<1>2. payments[c] # None /\ provider[c] \in {"captured", "declined"}
  BY <1>1 DEF ProgressInv, TypeOK
<1>3. PICK code \in {201, 402}, status \in {"CAPTURED", "FAILED"} :
        /\ Answer(c, code, status)
        /\ status = StatusFor(c)
        /\ status = "CAPTURED" => provider[c] = "captured"
        /\ status = "FAILED" => provider[c] = "declined"
  BY <1>1, <1>2 DEF AnswerOutcome, StatusFor
<1>4. /\ answer' \in [Charges -> Answers \cup {None}]
      /\ pc' \in [Charges -> {"idle", "create", "charge", "record", "done", "crashed"}]
      /\ answer'[c] = [code |-> code, status |-> status]
      /\ pc'[c] = "done"
      /\ \A e \in Charges \ {c} : answer'[e] = answer[e] /\ pc'[e] = pc[e]
  BY <1>3, AnswerType DEF Statuses
<1>5. /\ payments' \in [Charges -> Payment \cup {None}]
      /\ payments'[c] # None
      /\ payments'[c].key = payments[c].key
      /\ payments'[c].status \in {payments[c].status, StatusFor(c)}
      /\ \A d \in Charges \ {c} : payments'[d] = payments[d]
  <2>1. CASE Record(c)
    BY <1>2, <2>1, UpdateFacts, PaymentAssumption DEF Record
  <2>2. CASE RecordFails(c)
    BY <1>2, <2>2 DEF RecordFails, TypeOK
  <2> QED
    BY <2>1, <2>2
<1>6. AnswerTruthful'
  <2> SUFFICES ASSUME NEW e \in Charges
               PROVE  answer'[e] # None /\ answer'[e].code = 201
                        /\ answer'[e].status = "CAPTURED" =>
                      \E f \in Charges : provider'[f] = "captured" /\ Key(f)' = Key(e)'
    BY DEF AnswerTruthful
  <2>1. CASE e # c
    BY <1>1, <1>4, <2>1, AnswersStay
  <2>2. CASE e = c
    BY <1>1, <1>3, <1>4, <2>2
  <2> QED
    BY <2>1, <2>2
<1>7. TypeOK'
  BY <1>1, <1>4, <1>5 DEF TypeOK
<1>8. KeyInv'
  BY <1>2, <1>5, RequestFixed DEF KeyInv
<1>9. ProgressInv'
  BY <1>1, <1>4, <1>5 DEF ProgressInv
<1>10. RecordTruthful'
  BY <1>1, <1>2, <1>3, <1>5 DEF RecordTruthful
<1> QED
  BY <1>6, <1>7, <1>8, <1>9, <1>10

\* Every step keeps the inductive invariant.
LEMMA NextInd == ASSUME IndInv, [Next]_vars PROVE IndInv'
<1>1. CASE \E c \in Charges : ChargeStep(c)
  BY <1>1, LookupInd, CreateInd, ProviderInd, RecordInd DEF ChargeStep
<1>2. CASE Crash
  <2>1. /\ request' = request /\ payments' = payments
        /\ provider' = provider /\ answer' = answer
    BY <1>2 DEF Crash
  <2>2. \A c \in Charges : pc'[c] = pc[c] \/ pc'[c] = "crashed"
    BY <1>2 DEF Crash
  <2>3. pc' \in [Charges -> {"idle", "create", "charge", "record", "done", "crashed"}]
    BY <1>2 DEF Crash, IndInv, TypeOK
  <2>4. AnswerTruthful'
    BY <2>1, AnswersStay DEF AnswerTruthful
  <2>5. ProgressInv'
    BY <2>1, <2>2 DEF IndInv, ProgressInv
  <2>6. TypeOK'
    BY <2>1, <2>3 DEF IndInv, TypeOK
  <2>7. KeyInv'
    BY <2>1, RequestFixed DEF IndInv, KeyInv
  <2>8. RecordTruthful'
    BY <2>1 DEF IndInv, RecordTruthful
  <2> QED
    BY <2>4, <2>5, <2>6, <2>7, <2>8 DEF IndInv
<1>3. CASE UNCHANGED vars
  <2>1. /\ request' = request /\ payments' = payments /\ pc' = pc
        /\ provider' = provider /\ answer' = answer
    BY <1>3 DEF vars
  <2>2. TypeOK'
    BY <2>1 DEF IndInv, TypeOK
  <2>3. KeyInv'
    BY <2>1, RequestFixed DEF IndInv, KeyInv
  <2>4. ProgressInv' /\ RecordTruthful'
    BY <2>1 DEF IndInv, ProgressInv, RecordTruthful
  <2>5. AnswerTruthful'
    BY <2>1, AnswersStay DEF AnswerTruthful
  <2> QED
    BY <2>2, <2>3, <2>4, <2>5 DEF IndInv
<1> QED
  BY <1>1, <1>2, <1>3 DEF Next

\* The initial states satisfy it.
LEMMA InitInd == ASSUME Init PROVE IndInv
  BY DEF Init, IndInv, TypeOK, KeyInv, ProgressInv, RecordTruthful, AnswerTruthful

\* The inductive invariant holds throughout.
THEOREM Inductive == Spec => []IndInv
  BY InitInd, NextInd, PTL DEF Spec

\* Charge keeps the types of table payments and of what its requests hold.
THEOREM TypeCorrect == Spec => []TypeOK
<1> QED
  BY Inductive, PTL DEF IndInv

\* The provider is called at most once per idempotency key, for any number of
\* overlapping or retried requests, failed statements and crashes.
THEOREM OneCharge == Spec => []ChargedOncePerKey
<1>1. IndInv => ChargedOncePerKey
  BY DEF IndInv, ProgressInv, KeyInv, ChargedOncePerKey
<1> QED
  BY <1>1, Inductive, PTL

\* Neither the table nor an answer claims a charge that was not made.
THEOREM Truthful == Spec => [](RecordTruthful /\ AnswerTruthful)
<1>1. IndInv => RecordTruthful /\ AnswerTruthful
  BY DEF IndInv
<1> QED
  BY <1>1, Inductive, PTL

--------------------------------------------------------------------------------
(* Payment implements AtomicCharge                                            *)

\* The account of every key, and what payment c contributes to its own.
Accounts == [k \in Keys |-> Account(k)]
EntryOf(c) == [by |-> c, status |-> payments[c].status, outcome |-> provider[c]]

\* The payment with a key is all there is under it.
LEMMA AccountOf ==
    ASSUME KeyInv, NEW c \in Charges, payments[c] # None
    PROVE  Account(Key(c)) = {EntryOf(c)}
<1>1. {d \in Charges : payments[d] # None /\ payments[d].key = Key(c)} = {c}
  BY DEF KeyInv
<1> QED
  BY <1>1 DEF Account, EntryOf

\* A step that touches payment c alone changes the account of its key alone.
LEMMA AccountStep ==
    ASSUME IndInv, IndInv', [Next]_vars, NEW c \in Charges, payments'[c] # None,
           \A d \in Charges \ {c} : payments'[d] = payments[d] /\ provider'[d] = provider[d]
    PROVE  Accounts' = [Accounts EXCEPT ![Key(c)] = {EntryOf(c)'}]
<1>1. Key(c) \in Keys /\ Key(c)' = Key(c)
  BY KeyType, RequestFixed DEF IndInv
<1>2. Account(Key(c))' = {EntryOf(c)'}
  <2>1. {d \in Charges : payments'[d] # None /\ payments'[d].key = Key(c)'} = {c}
    BY DEF IndInv, KeyInv
  <2> QED
    BY <1>1, <2>1 DEF Account, EntryOf
<1>3. ASSUME NEW k \in Keys, k # Key(c) PROVE Account(k)' = Account(k)
  <2> DEFINE S == {d \in Charges : payments[d] # None /\ payments[d].key = k}
             T == {d \in Charges : payments'[d] # None /\ payments'[d].key = k}
  <2>1. c \notin S /\ c \notin T
    BY <1>1, <1>3 DEF IndInv, KeyInv
  <2>2. S = T /\ \A d \in S : payments'[d] = payments[d] /\ provider'[d] = provider[d]
    BY <2>1
  <2> QED
    BY <2>2 DEF Account
<1> QED
  BY <1>1, <1>2, <1>3 DEF Accounts

\* The first row with a key opens its account.
LEMMA ChargeOpens ==
    ASSUME IndInv, IndInv', [Next]_vars, NEW c \in Charges,
           Create(c) \/ CreateUnacknowledged(c)
    PROVE  ByKey!Open(Key(c), c)
<1>1. InsertPending(c) /\ provider' = provider /\ pc[c] = "create"
  BY DEF Create, CreateUnacknowledged
<1>2. /\ payments'[c] # None
      /\ payments'[c].status = "PENDING"
      /\ \A d \in Charges \ {c} : payments'[d] = payments[d]
  BY <1>1, InsertFacts, PaymentAssumption DEF IndInv
<1>3. provider[c] = "none"
  BY <1>1 DEF IndInv, ProgressInv
<1>4. Account(Key(c)) = {}
  BY <1>1 DEF Account, InsertPending, KeyIsFree
<1>5. EntryOf(c)' = ByKey!Entry(c, "PENDING", "none")
  BY <1>1, <1>2, <1>3 DEF EntryOf, ByKey!Entry
<1>6. Accounts' = [Accounts EXCEPT ![Key(c)] = {EntryOf(c)'}]
  BY <1>1, <1>2, AccountStep
<1>7. Accounts[Key(c)] = {}
  BY <1>4, KeyType DEF Accounts, IndInv
<1> QED
  BY <1>5, <1>6, <1>7 DEF ByKey!Open, Accounts

\* The provider's call is the one charge of the account.
LEMMA ChargeCharges ==
    ASSUME IndInv, IndInv', [Next]_vars, NEW c \in Charges, ProviderCharge(c)
    PROVE  ByKey!Charge(Key(c), c)
<1>1. PICK o \in {"captured", "declined"} : provider' = [provider EXCEPT ![c] = o]
  BY DEF ProviderCharge
<1>2. /\ pc[c] = "charge" /\ payments' = payments
      /\ payments[c] # None /\ payments[c].status = "PENDING" /\ provider[c] = "none"
  BY DEF ProviderCharge, IndInv, ProgressInv
<1>3. /\ provider'[c] = o
      /\ \A d \in Charges \ {c} : provider'[d] = provider[d]
  BY <1>1 DEF IndInv, TypeOK
<1>4. Accounts[Key(c)] = {EntryOf(c)}
  BY <1>2, AccountOf, KeyType DEF Accounts, IndInv
<1>5. Accounts' = [Accounts EXCEPT ![Key(c)] = {EntryOf(c)'}]
  BY <1>2, <1>3, AccountStep
<1>6. /\ EntryOf(c) = ByKey!Entry(c, "PENDING", "none")
      /\ EntryOf(c)' = ByKey!Entry(c, "PENDING", o)
  BY <1>2, <1>3 DEF EntryOf, ByKey!Entry
<1> QED
  BY <1>4, <1>5, <1>6 DEF ByKey!Charge, Accounts

\* Recording the outcome settles the account.
LEMMA ChargeSettles ==
    ASSUME IndInv, IndInv', [Next]_vars, NEW c \in Charges, Record(c)
    PROVE  ByKey!Settle(Key(c), c)
<1>1. /\ pc[c] = "record" /\ provider' = provider /\ UpdateStatus(c)
      /\ payments[c] # None /\ payments[c].status = "PENDING"
      /\ provider[c] \in {"captured", "declined"}
  BY DEF Record, IndInv, ProgressInv, TypeOK
<1>2. /\ payments'[c] # None
      /\ payments'[c].status = StatusFor(c)
      /\ \A d \in Charges \ {c} : payments'[d] = payments[d]
  BY <1>1, UpdateFacts, PaymentAssumption DEF IndInv
<1>3. Accounts[Key(c)] = {EntryOf(c)}
  BY <1>1, AccountOf, KeyType DEF Accounts, IndInv
<1>4. Accounts' = [Accounts EXCEPT ![Key(c)] = {EntryOf(c)'}]
  BY <1>1, <1>2, AccountStep
<1>5. /\ EntryOf(c) = ByKey!Entry(c, "PENDING", provider[c])
      /\ EntryOf(c)' = ByKey!Entry(c, StatusFor(c), provider[c])
  BY <1>1, <1>2 DEF EntryOf, ByKey!Entry
<1>6. StatusFor(c) = IF provider[c] = "declined" THEN "FAILED" ELSE "CAPTURED"
  BY DEF StatusFor
<1> QED
  BY <1>1, <1>3, <1>4, <1>5, <1>6 DEF ByKey!Settle, Accounts

\* Every step is a step of the abstract specification, or none to it.
LEMMA ChargeSpecStep ==
    ASSUME IndInv, [Next]_vars
    PROVE  [ByKey!Next]_Accounts
<1>1. IndInv'
  BY NextInd
<1>2. ASSUME NEW c \in Charges,
             Create(c) \/ CreateUnacknowledged(c) \/ ProviderCharge(c) \/ Record(c)
      PROVE  ByKey!Next
  <2>1. Key(c) \in Keys
    BY KeyType DEF IndInv
  <2> QED
    BY <1>1, <1>2, <2>1, ChargeOpens, ChargeCharges, ChargeSettles DEF ByKey!Next
<1>3. CASE UNCHANGED <<payments, provider>>
  BY <1>3 DEF Accounts, Account
<1> QED
  BY <1>2, <1>3 DEF Next, ChargeStep, LookupFinds, LookupMisses, CreateFails,
       RecordFails, Crash, vars

\* Requests that race, fail between statements and are retried implement one
\* atomic charge per idempotency key.
THEOREM ImplementsCharge == Spec => ChargeSpec
<1>1. Init => ByKey!Init
  BY DEF Init, ByKey!Init, Account
<1>2. IndInv /\ [Next]_vars => [ByKey!Next]_Accounts
  BY ChargeSpecStep
<1> QED
  BY <1>1, <1>2, Inductive, PTL DEF Spec, ChargeSpec, ByKey!Spec, Accounts
================================================================================
