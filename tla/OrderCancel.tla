------------------------------ MODULE OrderCancel ------------------------------
(******************************************************************************)
(* OrderService.CancelOrder: an order is read in two queries, checked, its    *)
(* status updated in a third statement and the restore jobs of its items are  *)
(* handed to the worker pool.  Nothing holds the order between these calls,   *)
(* and the UPDATE does not test the status it overwrites.                     *)
(*                                                                            *)
(* Fault "db": a statement fails, or its acknowledgement is lost.  Fault      *)
(* "rows": the connection breaks while the rows of a query are read.  The end *)
(* of a request's context, after which Timeout lets the handler run on, shows *)
(* as either.  Fault "crash": the process dies.                               *)
(******************************************************************************)
EXTENDS FiniteSets

CONSTANTS
    Orders,      \* order ids that requests name
    Users,
    Products,
    Cancels,     \* cancellation requests, each served once
    Faults,      \* subset of {"db", "rows", "crash"}
    None

\* domain.OrderStatus.
Statuses == {"PENDING", "PAID", "SHIPPED", "CANCELLED"}

\* A row of table orders with the products of its rows of table order_items.
OrderRow == [owner : Users, status : Statuses, items : SUBSET Products]

ASSUME CancelAssumption ==
    /\ None \notin OrderRow \cup Orders \cup Users
    /\ Faults \subseteq {"db", "rows", "crash"}

VARIABLES
    orders,     \* the tables: a row per id, None where there is none
    target,     \* the order a request names
    caller,     \* the user AuthMiddleware found in its token
    pc,         \* the call it makes next
    seen,       \* the row of orders it has read
    todo,       \* the items it has read and not yet handed to the pool
    answer,
    applied,    \* history: the requests whose UPDATE of an order took effect
    before,     \* history: those of its order when a request read the row
    cut,        \* history: items a request missed as its read was cut off
    restored,   \* history: items whose restore job the pool took of a request
    dropped     \* history: items whose restore job the full pool dropped

jobVars == <<restored, dropped>>
vars == <<orders, target, caller, pc, seen, todo, answer, applied, before, cut, jobVars>>

Answers ==
    {"none", "ok", "not_found", "forbidden", "conflict", "error", "died"}

TypeOK ==
    /\ orders \in [Orders -> OrderRow \cup {None}]
    /\ target \in [Cancels -> Orders \cup {None}]
    /\ caller \in [Cancels -> Users \cup {None}]
    /\ pc \in [Cancels -> {"idle", "items", "update", "dispatch", "done"}]
    /\ seen \in [Cancels -> OrderRow \cup {None}]
    /\ todo \in [Cancels -> SUBSET Products]
    /\ answer \in [Cancels -> Answers]
    /\ applied \in [Orders -> SUBSET Cancels]
    /\ before \in [Cancels -> SUBSET Cancels]
    /\ cut \in [Cancels -> SUBSET Products]
    /\ restored \in [Cancels -> SUBSET Products]
    /\ dropped \in [Cancels -> SUBSET Products]

\* Orders as checkout stores them: PENDING, with one item or more.
Init ==
    /\ orders \in [Orders -> {row \in OrderRow : row.status = "PENDING" /\ row.items # {}}
                             \cup {None}]
    /\ target = [c \in Cancels |-> None]
    /\ caller = [c \in Cancels |-> None]
    /\ pc = [c \in Cancels |-> "idle"]
    /\ seen = [c \in Cancels |-> None]
    /\ todo = [c \in Cancels |-> {}]
    /\ answer = [c \in Cancels |-> "none"]
    /\ applied = [o \in Orders |-> {}]
    /\ before = [c \in Cancels |-> {}]
    /\ cut = [c \in Cancels |-> {}]
    /\ restored = [c \in Cancels |-> {}]
    /\ dropped = [c \in Cancels |-> {}]

DbFails == "db" \in Faults

\* The handler maps the service's result to a status and returns.
Answer(c, a) ==
    /\ pc' = [pc EXCEPT ![c] = "done"]
    /\ answer' = [answer EXCEPT ![c] = a]

Goto(c, step) == pc' = [pc EXCEPT ![c] = step] /\ UNCHANGED answer

--------------------------------------------------------------------------------
(* GetByID                                                                    *)

Begin(c, o, u) ==
    /\ pc[c] = "idle"
    /\ target' = [target EXCEPT ![c] = o]
    /\ caller' = [caller EXCEPT ![c] = u]
    /\ UNCHANGED <<orders, todo, applied, cut, jobVars>>

\* The query of table orders finds the row.
ReadOrder(c, o, u) ==
    /\ Begin(c, o, u)
    /\ orders[o] # None
    /\ seen' = [seen EXCEPT ![c] = orders[o]]
    /\ before' = [before EXCEPT ![c] = applied[o]]
    /\ Goto(c, "items")

ReadOrderNotFound(c, o, u) ==
    /\ Begin(c, o, u)
    /\ orders[o] = None
    /\ Answer(c, "not_found")
    /\ UNCHANGED <<seen, before>>

ReadOrderFails(c, o, u) ==
    /\ Begin(c, o, u)
    /\ DbFails
    /\ Answer(c, "error")
    /\ UNCHANGED <<seen, before>>

Owns(c) == seen[c].owner = caller[c]

\* Mutant of Cancellable: the guard is missing.
CancellableAlways(status) == TRUE

\* Mutant of Cancellable: an order must have been paid.
CancellableIfPaid(status) == status = "PAID"

Cancellable(status) == status \notin {"SHIPPED", "CANCELLED"}

\* The query of table order_items ends.  Rows that a broken connection cuts off
\* are not missed: rows.Err is not consulted.  Then the checks, on the row read.
ReadItems(c) ==
    /\ pc[c] = "items"
    /\ \E items \in SUBSET seen[c].items :
        /\ items = seen[c].items \/ "rows" \in Faults
        /\ \/ ~Owns(c) /\ Answer(c, "forbidden") /\ UNCHANGED <<todo, cut>>
           \/ /\ Owns(c) /\ ~Cancellable(seen[c].status)
              /\ Answer(c, "conflict") /\ UNCHANGED <<todo, cut>>
           \/ /\ Owns(c) /\ Cancellable(seen[c].status)
              /\ todo' = [todo EXCEPT ![c] = items]
              /\ cut' = [cut EXCEPT ![c] = seen[c].items \ items]
              /\ Goto(c, "update")
    /\ UNCHANGED <<orders, target, caller, seen, applied, before, jobVars>>

ReadItemsFails(c) ==
    /\ pc[c] = "items"
    /\ DbFails
    /\ Answer(c, "error")
    /\ UNCHANGED <<orders, target, caller, seen, todo, applied, before, cut, jobVars>>

--------------------------------------------------------------------------------
(* UpdateStatus and the restore jobs                                          *)

\* Mutant of StatusCancelled: a misspelt constant.
StatusMisspelt == "CANCELED"

StatusCancelled == "CANCELLED"

Cancel(c) ==
    /\ orders' = [orders EXCEPT ![target[c]].status = StatusCancelled]
    /\ applied' = [applied EXCEPT ![target[c]] = @ \cup {c}]
    /\ UNCHANGED <<target, caller, seen, todo, before, cut, jobVars>>

UpdateStatus(c) ==
    /\ pc[c] = "update"
    /\ Cancel(c)
    /\ Goto(c, "dispatch")

\* Applied, with its acknowledgement lost: the order stays cancelled and no job
\* is dispatched.
UpdateStatusUnacknowledged(c) ==
    /\ pc[c] = "update"
    /\ DbFails
    /\ Cancel(c)
    /\ Answer(c, "error")

\* Mutant of UpdateStatusFails: the error is dropped.
UpdateStatusIgnored(c) ==
    /\ pc[c] = "update"
    /\ DbFails
    /\ Goto(c, "dispatch")
    /\ UNCHANGED <<orders, target, caller, seen, todo, applied, before, cut, jobVars>>

UpdateStatusFails(c) ==
    /\ pc[c] = "update"
    /\ DbFails
    /\ Answer(c, "error")
    /\ UNCHANGED <<orders, target, caller, seen, todo, applied, before, cut, jobVars>>

\* One call of Dispatch: the pool takes the job, or drops it when it is full.
DispatchRestore(c) ==
    /\ pc[c] = "dispatch"
    /\ \E p \in todo[c] :
        /\ todo' = [todo EXCEPT ![c] = @ \ {p}]
        /\ \/ restored' = [restored EXCEPT ![c] = @ \cup {p}] /\ UNCHANGED dropped
           \/ dropped' = [dropped EXCEPT ![c] = @ \cup {p}] /\ UNCHANGED restored
    /\ UNCHANGED <<orders, target, caller, pc, seen, answer, applied, before, cut>>

\* Mutant of Respond: the loop is left at the first job the pool drops.
RespondAtDrop(c) ==
    /\ pc[c] = "dispatch"
    /\ todo[c] = {} \/ dropped[c] # {}
    /\ Answer(c, "ok")
    /\ UNCHANGED <<orders, target, caller, seen, todo, applied, before, cut, jobVars>>

Respond(c) ==
    /\ pc[c] = "dispatch"
    /\ todo[c] = {}
    /\ Answer(c, "ok")
    /\ UNCHANGED <<orders, target, caller, seen, todo, applied, before, cut, jobVars>>

\* The requests under way die with the process; the tables stay.
Crash ==
    LET dead == {c \in Cancels : pc[c] \notin {"idle", "done"}}
    IN  /\ "crash" \in Faults
        /\ dead # {}
        /\ pc' = [c \in Cancels |-> IF c \in dead THEN "done" ELSE pc[c]]
        /\ answer' = [c \in Cancels |-> IF c \in dead THEN "died" ELSE answer[c]]
        /\ UNCHANGED <<orders, target, caller, seen, todo, applied, before, cut, jobVars>>

CancelStep(c) ==
    \/ \E o \in Orders, u \in Users :
          ReadOrder(c, o, u) \/ ReadOrderNotFound(c, o, u) \/ ReadOrderFails(c, o, u)
    \/ ReadItems(c) \/ ReadItemsFails(c)
    \/ UpdateStatus(c) \/ UpdateStatusUnacknowledged(c) \/ UpdateStatusFails(c)
    \/ DispatchRestore(c) \/ Respond(c)

Next == Crash \/ \E c \in Cancels : CancelStep(c)

Spec == Init /\ [][Next]_vars

--------------------------------------------------------------------------------
(* Properties                                                                 *)

\* A request is refused for the order's state only if another request had
\* cancelled the order before this one read it.
ConflictHasCause ==
    \A c \in Cancels : answer[c] = "conflict" => before[c] \ {c} # {}

\* Stock is given back only for an order that is CANCELLED, by a request of its
\* owner whose own UPDATE took effect, and no more than the order's items.
RestoreAfterCancel ==
    \A c \in Cancels : restored[c] # {} =>
        /\ c \in applied[target[c]]
        /\ caller[c] = orders[target[c]].owner
        /\ orders[target[c]].status = "CANCELLED"
        /\ restored[c] \subseteq orders[target[c]].items

\* A cancelled order has every item restored by each request that cancelled it, but
\* for the jobs the full pool dropped and the items a broken read cut off, unless the
\* request is still at it, was told an error although its UPDATE was applied, or died.
RestoreAccounted ==
    \A o \in Orders : orders[o] # None /\ orders[o].status = "CANCELLED" =>
        /\ applied[o] # {}
        /\ \A c \in applied[o] :
              \/ pc[c] = "dispatch"
              \/ answer[c] \in {"error", "died"}
              \/ orders[o].items = restored[c] \cup dropped[c] \cup cut[c]

\* "guards against cancelling shipped/cancelled orders" (service.go): two requests
\* give back the stock of one order only if each had read the order before the
\* other's UPDATE.  A request that begins after the cancellation never does.
RestoredAgainOnlyInRace ==
    \A c, d \in Cancels :
        /\ c # d
        /\ target[c] = target[d]
        /\ restored[c] # {} /\ restored[d] # {}
        => c \notin before[d] /\ d \notin before[c]
================================================================================
