--------------------------- MODULE OrderCancelProofs ---------------------------
(******************************************************************************)
(* Proofs about OrderCancel, for any number of cancellations, orders, users   *)
(* and products and any subset of the faults.                                 *)
(******************************************************************************)
EXTENDS OrderCancel, TLAPS

\* An order is CANCELLED once an UPDATE has been applied to it, and PENDING before.
RowInv ==
    \A o \in Orders :
        /\ orders[o] = None => applied[o] = {}
        /\ orders[o] # None =>
              orders[o].status = IF applied[o] = {} THEN "PENDING" ELSE "CANCELLED"

\* What request c holds is the row of its order, but for the status, which is the one
\* it had when c read it.
Holds(c) ==
    /\ target[c] \in Orders
    /\ orders[target[c]] # None
    /\ seen[c] \in OrderRow
    /\ seen[c].owner = orders[target[c]].owner
    /\ seen[c].items = orders[target[c]].items
    /\ seen[c].status = IF before[c] = {} THEN "PENDING" ELSE "CANCELLED"

\* What c gave back belongs to an order c cancelled, for its owner, having read it
\* before any other request had cancelled it.
Gave(c) ==
    /\ target[c] \in Orders
    /\ orders[target[c]] # None
    /\ c \in applied[target[c]]
    /\ caller[c] = orders[target[c]].owner
    /\ restored[c] \subseteq orders[target[c]].items
    /\ before[c] = {}

\* The items c has read and not handed on, those whose job it has dispatched and those
\* its read cut off are the items of its order.
Accounts(c) ==
    orders[target[c]].items = todo[c] \cup restored[c] \cup dropped[c] \cup cut[c]

\* Where a request stands tells what it has done.
RequestInv(c) ==
    /\ pc[c] \in {"idle", "items", "update"} =>
          restored[c] = {} /\ dropped[c] = {} /\ \A o \in Orders : c \notin applied[o]
    /\ pc[c] \in {"items", "update", "dispatch"} => Holds(c) /\ c \notin before[c]
    /\ pc[c] \in {"update", "dispatch"} =>
          before[c] = {} /\ Owns(c) /\ todo[c] \subseteq seen[c].items
    /\ pc[c] \in {"update", "dispatch"} => Accounts(c)
    /\ pc[c] = "dispatch" => c \in applied[target[c]]
    /\ \A o \in Orders : c \in applied[o] =>
          /\ target[c] = o /\ orders[o] # None
          /\ \/ pc[c] = "dispatch"
             \/ answer[c] \in {"error", "died"}
             \/ answer[c] = "ok" /\ Accounts(c) /\ todo[c] = {}
    /\ restored[c] # {} => Gave(c)
    /\ answer[c] # "none" => pc[c] = "done"
    /\ answer[c] = "conflict" => before[c] \ {c} # {}

IndInv ==
    /\ TypeOK
    /\ RowInv
    /\ \A c \in Cancels : RequestInv(c)

--------------------------------------------------------------------------------
(* Frames                                                                     *)

\* The variables of one request.
Mine(c) ==
    <<target[c], caller[c], pc[c], seen[c], todo[c], answer[c], before[c], cut[c],
      restored[c], dropped[c]>>

\* An UPDATE of a status keeps the rows, their owners and their items.
SameRows ==
    \A o \in Orders :
        /\ orders'[o] = None <=> orders[o] = None
        /\ orders[o] # None => /\ orders'[o].owner = orders[o].owner
                               /\ orders'[o].items = orders[o].items

\* A request is not disturbed by what another one applies.
LEMMA Undisturbed ==
    ASSUME NEW c \in Cancels, RequestInv(c), Mine(c)' = Mine(c), SameRows,
           \A o \in Orders : applied[o] \subseteq applied'[o],
           \A o \in Orders : c \in applied'[o] => c \in applied[o]
    PROVE  RequestInv(c)'
<1> USE DEF Mine, SameRows
<1>1. Holds(c) => Holds(c)'
  BY DEF Holds
<1>2. Gave(c) => Gave(c)'
  BY DEF Gave
<1>3. Owns(c)' <=> Owns(c)
  BY DEF Owns
<1>4. pc[c] \in {"update", "dispatch"} => target[c] \in Orders /\ orders[target[c]] # None
  BY DEF RequestInv, Holds
<1>5. ASSUME target[c] \in Orders, orders[target[c]] # None, Accounts(c)
      PROVE  Accounts(c)'
  BY <1>5 DEF Accounts
<1> QED
  BY <1>1, <1>2, <1>3, <1>4, <1>5 DEF RequestInv

\* The same for a step that changes no table.
LEMMA Elsewhere ==
    ASSUME IndInv, NEW c \in Cancels, orders' = orders, applied' = applied,
           \A d \in Cancels \ {c} : Mine(d)' = Mine(d),
           TypeOK', RequestInv(c)'
    PROVE  IndInv'
<1>1. RowInv'
  BY DEF IndInv, RowInv
<1>2. SameRows
  BY DEF SameRows
<1>3. \A d \in Cancels \ {c} : RequestInv(d)'
  BY <1>2, Undisturbed DEF IndInv
<1> QED
  BY <1>1, <1>3 DEF IndInv

\* The UPDATE of c's order.
LEMMA CancelRow ==
    ASSUME IndInv, NEW c \in Cancels, pc[c] = "update", Cancel(c)
    PROVE  /\ target[c] \in Orders
           /\ orders' \in [Orders -> OrderRow \cup {None}]
           /\ applied' \in [Orders -> SUBSET Cancels]
           /\ applied'[target[c]] = applied[target[c]] \cup {c}
           /\ \A o \in Orders : o # target[c] => applied'[o] = applied[o]
           /\ SameRows
           /\ RowInv'
<1>1. /\ target[c] \in Orders
      /\ orders[target[c]] # None
      /\ orders \in [Orders -> OrderRow \cup {None}]
      /\ applied \in [Orders -> SUBSET Cancels]
  BY DEF IndInv, RequestInv, Holds, TypeOK
<1> DEFINE o == target[c]
           old == orders[o]
<1>2. old \in OrderRow
  BY <1>1
<1>3. orders' = [orders EXCEPT ![o] = [old EXCEPT !.status = "CANCELLED"]]
  BY <1>1 DEF Cancel, StatusCancelled
<1>4. applied' = [applied EXCEPT ![o] = applied[o] \cup {c}]
  BY <1>1 DEF Cancel
<1> DEFINE new == [old EXCEPT !.status = "CANCELLED"]
<1>5. /\ new \in OrderRow /\ new.status = "CANCELLED"
      /\ new.owner = old.owner /\ new.items = old.items
  BY <1>2 DEF OrderRow, Statuses
<1>6. new # None
  BY <1>5, CancelAssumption
<1> HIDE DEF new
<1>7. orders' = [orders EXCEPT ![o] = new]
  BY <1>3 DEF new
<1>8. SameRows
  BY <1>1, <1>5, <1>6, <1>7 DEF SameRows
<1>9. RowInv'
  BY <1>1, <1>4, <1>5, <1>6, <1>7 DEF IndInv, RowInv
<1> QED
  BY <1>1, <1>4, <1>5, <1>7, <1>8, <1>9

\* The UPDATE of one request leaves what the others hold true of the past.
LEMMA CancelOthers ==
    ASSUME IndInv, NEW c \in Cancels, pc[c] = "update", Cancel(c),
           NEW d \in Cancels, d # c, Mine(d)' = Mine(d)
    PROVE  RequestInv(d)'
<1>1. /\ \A o \in Orders : applied[o] \subseteq applied'[o]
      /\ \A o \in Orders : d \in applied'[o] => d \in applied[o]
      /\ SameRows
  BY CancelRow
<1> QED
  BY <1>1, Undisturbed DEF IndInv

--------------------------------------------------------------------------------
(* The invariant is inductive                                                 *)

\* No request has read an order.
LEMMA InitInv == Init => IndInv
<1> SUFFICES ASSUME Init PROVE IndInv
  OBVIOUS
<1>1. orders \in [Orders -> OrderRow \cup {None}]
      /\ \A o \in Orders : orders[o] # None => orders[o].status = "PENDING"
  BY DEF Init
<1>2. TypeOK
  BY <1>1 DEF Init, TypeOK, Answers
<1>3. RowInv
  BY <1>1 DEF Init, RowInv
<1>4. ASSUME NEW c \in Cancels PROVE RequestInv(c)
  BY DEF Init, RequestInv
<1> QED
  BY <1>2, <1>3, <1>4 DEF IndInv

\* A request holds the row as it was when read.
LEMMA ReadOrderInv ==
    ASSUME IndInv, NEW c \in Cancels, NEW o \in Orders, NEW u \in Users,
           ReadOrder(c, o, u) \/ ReadOrderNotFound(c, o, u) \/ ReadOrderFails(c, o, u)
    PROVE  IndInv'
<1> USE DEF Begin, Goto, Answer
<1>0. TypeOK /\ RowInv /\ RequestInv(c) /\ pc[c] = "idle"
  BY DEF IndInv, ReadOrder, ReadOrderNotFound, ReadOrderFails
<1>1. TypeOK'
  <2>1. /\ target' \in [Cancels -> Orders \cup {None}]
        /\ caller' \in [Cancels -> Users \cup {None}]
        /\ pc' \in [Cancels -> {"idle", "items", "update", "dispatch", "done"}]
        /\ answer' \in [Cancels -> Answers]
    BY <1>0 DEF ReadOrder, ReadOrderNotFound, ReadOrderFails, TypeOK, Answers
  <2>2. /\ seen' \in [Cancels -> OrderRow \cup {None}]
        /\ before' \in [Cancels -> SUBSET Cancels]
    BY <1>0 DEF ReadOrder, ReadOrderNotFound, ReadOrderFails, TypeOK
  <2> QED
    BY <1>0, <2>1, <2>2 DEF ReadOrder, ReadOrderNotFound, ReadOrderFails, TypeOK, jobVars
<1>2. \A d \in Cancels \ {c} : Mine(d)' = Mine(d)
  BY <1>0 DEF ReadOrder, ReadOrderNotFound, ReadOrderFails, TypeOK, Mine, jobVars
<1>3. orders' = orders /\ applied' = applied
  BY DEF ReadOrder, ReadOrderNotFound, ReadOrderFails
<1>4. RequestInv(c)'
  <2>1. restored'[c] = {} /\ dropped'[c] = {} /\ \A p \in Orders : c \notin applied'[p]
    BY <1>0 DEF RequestInv, ReadOrder, ReadOrderNotFound, ReadOrderFails, jobVars
  <2>2. CASE ReadOrder(c, o, u)
    <3>1. /\ pc'[c] = "items" /\ target'[c] = o /\ seen'[c] = orders[o]
          /\ before'[c] = applied[o] /\ answer'[c] = answer[c] /\ orders[o] # None
      BY <1>0, <2>2 DEF ReadOrder, TypeOK
    <3>2. Holds(c)'
      BY <1>0, <1>3, <3>1 DEF Holds, RowInv, TypeOK
    <3>3. answer'[c] = "none"
      BY <1>0, <3>1 DEF RequestInv
    <3> QED
      BY <2>1, <3>1, <3>2, <3>3, <1>3 DEF RequestInv
  <2>3. CASE ReadOrderNotFound(c, o, u) \/ ReadOrderFails(c, o, u)
    <3>1. pc'[c] = "done" /\ answer'[c] # "conflict"
      BY <1>0, <2>3 DEF ReadOrderNotFound, ReadOrderFails, TypeOK
    <3> QED
      BY <2>1, <3>1 DEF RequestInv
  <2> QED
    BY <2>2, <2>3
<1> QED
  BY <1>1, <1>2, <1>3, <1>4, Elsewhere

\* The items of an order never change.
LEMMA ReadItemsInv ==
    ASSUME IndInv, NEW c \in Cancels, ReadItems(c) \/ ReadItemsFails(c)
    PROVE  IndInv'
<1> USE DEF Goto, Answer
<1>0. TypeOK /\ RowInv /\ RequestInv(c) /\ pc[c] = "items" /\ Holds(c)
  BY DEF IndInv, ReadItems, ReadItemsFails, RequestInv
<1>1. UNCHANGED <<orders, target, caller, seen, applied, before, restored, dropped>>
  BY DEF ReadItems, ReadItemsFails, jobVars
<1>2. \/ /\ pc' = [pc EXCEPT ![c] = "done"]
         /\ \E a \in {"forbidden", "error"} : answer' = [answer EXCEPT ![c] = a]
         /\ todo' = todo /\ cut' = cut
      \/ /\ pc' = [pc EXCEPT ![c] = "done"]
         /\ answer' = [answer EXCEPT ![c] = "conflict"]
         /\ todo' = todo /\ cut' = cut
         /\ ~Cancellable(seen[c].status)
      \/ /\ pc' = [pc EXCEPT ![c] = "update"]
         /\ answer' = answer
         /\ \E items \in SUBSET seen[c].items :
               /\ todo' = [todo EXCEPT ![c] = items]
               /\ cut' = [cut EXCEPT ![c] = seen[c].items \ items]
         /\ Owns(c)
         /\ Cancellable(seen[c].status)
  BY DEF ReadItems, ReadItemsFails
<1>3. TypeOK'
  <2>1. seen[c].items \subseteq Products
    BY <1>0 DEF Holds, OrderRow
  <2>2. todo' \in [Cancels -> SUBSET Products] /\ cut' \in [Cancels -> SUBSET Products]
    BY <1>0, <1>2, <2>1 DEF TypeOK
  <2>3. /\ pc' \in [Cancels -> {"idle", "items", "update", "dispatch", "done"}]
        /\ answer' \in [Cancels -> Answers]
    BY <1>0, <1>2 DEF TypeOK, Answers
  <2> QED
    BY <1>0, <1>1, <2>2, <2>3 DEF TypeOK
<1>4. \A d \in Cancels \ {c} : Mine(d)' = Mine(d)
  BY <1>0, <1>1, <1>2 DEF TypeOK, Mine
<1>5. Holds(c)' /\ c \notin before'[c] /\ restored'[c] = {} /\ dropped'[c] = {}
      /\ \A o \in Orders : c \notin applied'[o]
  BY <1>0, <1>1 DEF Holds, RequestInv
<1>6. before[c] = {} <=> Cancellable(seen[c].status)
  BY <1>0 DEF Holds, Cancellable
<1>7. RequestInv(c)'
  <2>1. CASE pc'[c] = "done"
    <3>1. answer'[c] = "conflict" => before'[c] \ {c} # {}
      BY <1>0, <1>1, <1>2, <1>5, <1>6, <2>1 DEF TypeOK
    <3> QED
      BY <1>5, <2>1, <3>1 DEF RequestInv
  <2>2. CASE pc'[c] = "update"
    <3>1. before'[c] = {} /\ Owns(c)' /\ todo'[c] \subseteq seen'[c].items
          /\ answer' = answer
      BY <1>0, <1>1, <1>2, <1>6, <2>2 DEF TypeOK, Owns
    <3>2. Accounts(c)'
      <4>1. PICK items \in SUBSET seen[c].items :
               todo' = [todo EXCEPT ![c] = items]
               /\ cut' = [cut EXCEPT ![c] = seen[c].items \ items]
        BY <1>0, <1>2, <2>2 DEF TypeOK
      <4>2. todo'[c] = items /\ cut'[c] = seen[c].items \ items
        BY <1>0, <4>1 DEF TypeOK
      <4> QED
        BY <1>0, <1>1, <1>5, <4>2 DEF Accounts, Holds
    <3> QED
      BY <1>0, <1>1, <1>5, <2>2, <3>1, <3>2 DEF RequestInv
  <2> QED
    BY <1>0, <1>2, <2>1, <2>2 DEF TypeOK
<1> QED
  BY <1>1, <1>3, <1>4, <1>7, Elsewhere

\* The unconditional UPDATE, acknowledged or not.
LEMMA UpdateInv ==
    ASSUME IndInv, NEW c \in Cancels, UpdateStatus(c) \/ UpdateStatusUnacknowledged(c)
    PROVE  IndInv'
<1> USE DEF Goto, Answer
<1>0. TypeOK /\ RequestInv(c) /\ pc[c] = "update" /\ Holds(c) /\ Cancel(c)
  BY DEF IndInv, UpdateStatus, UpdateStatusUnacknowledged, RequestInv
<1>1. UNCHANGED <<target, caller, seen, todo, before, cut, restored, dropped>>
  BY <1>0 DEF Cancel, jobVars
<1>2. \/ pc' = [pc EXCEPT ![c] = "dispatch"] /\ answer' = answer
      \/ pc' = [pc EXCEPT ![c] = "done"] /\ answer' = [answer EXCEPT ![c] = "error"]
  BY DEF UpdateStatus, UpdateStatusUnacknowledged
<1>3. TypeOK'
  <2>1. /\ orders' \in [Orders -> OrderRow \cup {None}]
        /\ applied' \in [Orders -> SUBSET Cancels]
    BY <1>0, CancelRow
  <2>2. /\ pc' \in [Cancels -> {"idle", "items", "update", "dispatch", "done"}]
        /\ answer' \in [Cancels -> Answers]
    BY <1>0, <1>2 DEF TypeOK, Answers
  <2> QED
    BY <1>0, <1>1, <2>1, <2>2 DEF TypeOK
<1>4. ASSUME NEW d \in Cancels, d # c PROVE RequestInv(d)'
  <2>1. Mine(d)' = Mine(d)
    BY <1>0, <1>1, <1>2, <1>4 DEF TypeOK, Mine
  <2> QED
    BY <1>0, <1>4, <2>1, CancelOthers
<1>5. RequestInv(c)'
  <2>1. SameRows /\ c \in applied'[target[c]]
    BY <1>0, CancelRow
  <2>2. Holds(c)' /\ c \notin before'[c] /\ restored'[c] = {} /\ before'[c] = {}
        /\ Owns(c)' /\ todo'[c] \subseteq seen'[c].items
    BY <1>0, <1>1, <2>1 DEF Holds, SameRows, RequestInv, Owns
  <2>3. answer[c] = "none"
    BY <1>0 DEF RequestInv
  <2>4. \/ pc'[c] = "dispatch" /\ answer'[c] = "none"
        \/ pc'[c] = "done" /\ answer'[c] = "error"
    BY <1>0, <1>2, <2>3 DEF TypeOK
  <2>5. Accounts(c)'
    BY <1>0, <1>1, <2>1 DEF RequestInv, Accounts, Holds, SameRows
  <2>6. \A o \in Orders : c \in applied'[o] => target'[c] = o /\ orders'[o] # None
    BY <1>0, <1>1, <2>1, <2>2, CancelRow DEF RequestInv, Holds
  <2> QED
    BY <1>1, <2>1, <2>2, <2>4, <2>5, <2>6 DEF RequestInv
<1>6. RowInv'
  BY <1>0, CancelRow
<1> QED
  BY <1>3, <1>4, <1>5, <1>6 DEF IndInv

\* Restore jobs are dispatched by a request that has cancelled its order.
LEMMA DispatchInv ==
    ASSUME IndInv, NEW c \in Cancels, DispatchRestore(c)
    PROVE  IndInv'
<1>0. TypeOK /\ RequestInv(c) /\ pc[c] = "dispatch" /\ Holds(c)
      /\ UNCHANGED <<orders, target, caller, pc, seen, answer, applied, before, cut>>
  BY DEF IndInv, DispatchRestore, RequestInv
<1>1. PICK p \in todo[c] :
         /\ todo' = [todo EXCEPT ![c] = todo[c] \ {p}]
         /\ \/ restored' = [restored EXCEPT ![c] = restored[c] \cup {p}] /\ dropped' = dropped
            \/ dropped' = [dropped EXCEPT ![c] = dropped[c] \cup {p}] /\ restored' = restored
  BY <1>0 DEF DispatchRestore, TypeOK
<1>2. TypeOK'
  <2>1. p \in Products
    BY <1>0 DEF TypeOK
  <2>2. /\ todo' \in [Cancels -> SUBSET Products]
        /\ restored' \in [Cancels -> SUBSET Products]
        /\ dropped' \in [Cancels -> SUBSET Products]
    BY <1>0, <1>1, <2>1 DEF TypeOK
  <2> QED
    BY <1>0, <2>2 DEF TypeOK
<1>3. \A d \in Cancels \ {c} : Mine(d)' = Mine(d)
  BY <1>0, <1>1 DEF TypeOK, Mine
<1>4. RequestInv(c)'
  <2>1. /\ todo'[c] \subseteq todo[c]
        /\ restored'[c] \subseteq restored[c] \cup todo[c]
        /\ todo[c] \cup restored[c] \cup dropped[c]
              = todo'[c] \cup restored'[c] \cup dropped'[c]
    BY <1>0, <1>1 DEF TypeOK
  <2>2. restored[c] \subseteq seen[c].items /\ todo[c] \subseteq seen[c].items
    BY <1>0 DEF RequestInv, Gave, Holds
  <2>3. Holds(c)' /\ Owns(c)'
    BY <1>0 DEF Holds, Owns, RequestInv
  <2>4. Gave(c)'
    BY <1>0, <2>1, <2>2 DEF Gave, Holds, RequestInv, Owns
  <2>5. Accounts(c)'
    BY <1>0, <2>1 DEF RequestInv, Accounts
  <2> QED
    BY <1>0, <2>1, <2>2, <2>3, <2>4, <2>5 DEF RequestInv
<1> QED
  BY <1>0, <1>2, <1>3, <1>4, Elsewhere

\* A request that ends keeps what it gave back.
LEMMA EndInv ==
    ASSUME IndInv, NEW c \in Cancels, UpdateStatusFails(c) \/ Respond(c)
    PROVE  IndInv'
<1>0. TypeOK /\ RequestInv(c)
      /\ UNCHANGED <<orders, target, caller, seen, todo, applied, before, cut>>
      /\ UNCHANGED <<restored, dropped>>
  BY DEF IndInv, UpdateStatusFails, Respond, jobVars
<1>1. /\ pc' = [pc EXCEPT ![c] = "done"]
      /\ \/ pc[c] = "update" /\ answer' = [answer EXCEPT ![c] = "error"]
         \/ pc[c] = "dispatch" /\ todo[c] = {} /\ answer' = [answer EXCEPT ![c] = "ok"]
  BY DEF UpdateStatusFails, Respond, Answer
<1>2. TypeOK'
  BY <1>0, <1>1 DEF TypeOK, Answers
<1>3. \A d \in Cancels \ {c} : Mine(d)' = Mine(d)
  BY <1>0, <1>1 DEF TypeOK, Mine
<1>4. RequestInv(c)'
  <2>1. pc'[c] = "done" /\ answer'[c] # "conflict"
    BY <1>0, <1>1 DEF TypeOK
  <2>2. restored'[c] # {} => Gave(c)'
    BY <1>0 DEF RequestInv, Gave
  <2>3. Accounts(c) => Accounts(c)'
    BY <1>0 DEF Accounts
  <2>4. \A o \in Orders : c \in applied'[o] =>
          /\ target'[c] = o /\ orders'[o] # None
          /\ \/ answer'[c] = "error"
             \/ answer'[c] = "ok" /\ Accounts(c)' /\ todo'[c] = {}
    BY <1>0, <1>1, <2>3 DEF RequestInv, TypeOK
  <2> QED
    BY <2>1, <2>2, <2>4 DEF RequestInv
<1> QED
  BY <1>0, <1>2, <1>3, <1>4, Elsewhere

\* A crash ends requests and keeps the tables.
LEMMA CrashInv == ASSUME IndInv, Crash PROVE IndInv'
<1>0. /\ TypeOK
      /\ UNCHANGED <<orders, target, caller, seen, todo, applied, before, cut>>
      /\ UNCHANGED <<restored, dropped>>
  BY DEF IndInv, Crash, jobVars
<1>1. TypeOK'
  <2>1. /\ pc' \in [Cancels -> {"idle", "items", "update", "dispatch", "done"}]
        /\ answer' \in [Cancels -> Answers]
    BY <1>0 DEF Crash, TypeOK, Answers
  <2> QED
    BY <1>0, <2>1 DEF TypeOK
<1>2. RowInv'
  BY <1>0 DEF IndInv, RowInv
<1>3. ASSUME NEW c \in Cancels PROVE RequestInv(c)'
  <2>1. \/ pc'[c] = pc[c] /\ pc[c] \in {"idle", "done"} /\ answer'[c] = answer[c]
        \/ pc'[c] = "done" /\ answer'[c] = "died"
    BY <1>0 DEF Crash, TypeOK
  <2>2. restored'[c] # {} => Gave(c)'
    BY <1>0 DEF IndInv, RequestInv, Gave
  <2>3. Accounts(c) => Accounts(c)'
    BY <1>0 DEF Accounts
  <2> QED
    BY <1>0, <2>1, <2>2, <2>3 DEF IndInv, RequestInv
<1> QED
  BY <1>1, <1>2, <1>3 DEF IndInv

\* Every step keeps the invariant.
LEMMA NextInv == IndInv /\ [Next]_vars => IndInv'
<1> SUFFICES ASSUME IndInv, [Next]_vars PROVE IndInv'
  OBVIOUS
<1>1. CASE Crash
  BY <1>1, CrashInv
<1>2. ASSUME NEW c \in Cancels, CancelStep(c) PROVE IndInv'
  BY <1>2, ReadOrderInv, ReadItemsInv, UpdateInv, DispatchInv, EndInv DEF CancelStep
<1>3. CASE UNCHANGED vars
  BY <1>3 DEF vars, jobVars, IndInv, TypeOK, RowInv, RequestInv, Holds, Gave, Owns, Accounts
<1> QED
  BY <1>1, <1>2, <1>3 DEF Next

\* The invariant holds throughout.
LEMMA Inductive == Spec => []IndInv
<1> QED
  BY InitInv, NextInv, PTL DEF Spec

--------------------------------------------------------------------------------
(* Theorems                                                                   *)

\* CancelOrder keeps the types of the tables and of what its requests hold.
THEOREM TypeCorrect == Spec => []TypeOK
<1> QED
  BY Inductive, PTL DEF IndInv

\* CancelOrder refuses an order for its status only if another request had cancelled
\* it before this one read it.
THEOREM ConflictCause == Spec => []ConflictHasCause
<1>1. IndInv => ConflictHasCause
  BY DEF IndInv, RequestInv, ConflictHasCause
<1> QED
  BY Inductive, <1>1, PTL

\* The restore jobs of CancelOrder are of an order that is CANCELLED, by a request of
\* its owner that has cancelled it, and name no item the order has not.
THEOREM RestoresCancelled == Spec => []RestoreAfterCancel
<1>1. IndInv => RestoreAfterCancel
  BY DEF IndInv, RowInv, RequestInv, Gave, RestoreAfterCancel
<1> QED
  BY Inductive, <1>1, PTL

\* CancelOrder leaves no item of a cancelled order out of account: every request that
\* cancelled it has dispatched a job for each item it was not prevented from reading,
\* unless it is still at it, was told an error, or died.
THEOREM RestoresAccounted == Spec => []RestoreAccounted
<1>1. ASSUME IndInv, NEW o \in Orders, orders[o] # None, orders[o].status = "CANCELLED"
      PROVE  /\ applied[o] # {}
             /\ \A c \in applied[o] :
                   \/ pc[c] = "dispatch"
                   \/ answer[c] \in {"error", "died"}
                   \/ orders[o].items = restored[c] \cup dropped[c] \cup cut[c]
  <2>1. applied[o] # {}
    BY <1>1 DEF IndInv, RowInv
  <2>2. ASSUME NEW c \in applied[o]
        PROVE  \/ pc[c] = "dispatch"
               \/ answer[c] \in {"error", "died"}
               \/ orders[o].items = restored[c] \cup dropped[c] \cup cut[c]
    <3>1. c \in Cancels /\ RequestInv(c)
      BY <1>1, <2>2 DEF IndInv, TypeOK
    <3> QED
      BY <2>2, <3>1 DEF RequestInv, Accounts
  <2> QED
    BY <2>1, <2>2
<1>2. IndInv => RestoreAccounted
  BY <1>1 DEF RestoreAccounted
<1> QED
  BY Inductive, <1>2, PTL

\* Two requests give back the stock of one order only if each had read it before the
\* other's UPDATE: CancelOrder's guard holds against all but a race.
THEOREM RestoresOnceButForRaces == Spec => []RestoredAgainOnlyInRace
<1>1. IndInv => RestoredAgainOnlyInRace
  BY DEF IndInv, RequestInv, Gave, RestoredAgainOnlyInRace
<1> QED
  BY Inductive, <1>1, PTL
================================================================================
