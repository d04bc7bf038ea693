--------------------------------- MODULE Server --------------------------------
(******************************************************************************)
(* The life of the server process: requests served behind the Timeout         *)
(* middleware, the jobs they dispatch to the worker pool, and the graceful    *)
(* shutdown of Server.Start.                                                  *)
(*                                                                            *)
(* Timeout runs the handler in a goroutine of its own and does not wait for   *)
(* it once the request's context is done (the deadline, answered 504, or the  *)
(* client gone), so a request may be over for net/http while its handler      *)
(* still runs and dispatches.                                                 *)
(******************************************************************************)
EXTENDS WorkerPool

CONSTANTS
    Requests,         \* requests, each served once
    JobsPerRequest    \* jobs a request's handler dispatches, one after the other

ASSUME ServerAssumption ==
    /\ JobsPerRequest \in [Requests -> Nat]
    /\ Jobs = UNION {{r} \X (1 .. JobsPerRequest[r]) : r \in Requests}

VARIABLES
    phase,     \* of Server.Start
    forced,    \* httpServer.Shutdown returned an error: its deadline had passed
    handler,   \* the goroutine that runs a request's handler
    served,    \* how Timeout's ServeHTTP ended: what net/http sees of the request
    next       \* the next job its handler dispatches

vars == <<poolVars, phase, forced, handler, served, next>>
serverVars == <<phase, forced, handler, served, next>>

TypeOK ==
    /\ PoolTypeOK
    /\ phase \in {"serving", "draining", "closing", "stopped", "failed"}
    /\ forced \in BOOLEAN
    /\ handler \in [Requests -> {"none", "running", "returned", "panicked"}]
    /\ served \in [Requests -> {"none", "handled", "abandoned", "recovered"}]
    /\ next \in [Requests -> Nat \ {0}]
    /\ \A r \in Requests : next[r] <= JobsPerRequest[r] + 1

Init ==
    /\ PoolInit
    /\ phase = "serving"
    /\ forced = FALSE
    /\ handler = [r \in Requests |-> "none"]
    /\ served = [r \in Requests |-> "none"]
    /\ next = [r \in Requests |-> 1]

\* The process has exited.
Exited == phase \in {"stopped", "failed"}

--------------------------------------------------------------------------------
(* Requests                                                                   *)

Arrive(r) ==
    /\ phase = "serving"
    /\ handler[r] = "none"
    /\ handler' = [handler EXCEPT ![r] = "running"]
    /\ UNCHANGED <<poolVars, phase, forced, served, next>>

Running(r) == ~Exited /\ handler[r] = "running"

NextJob(r) == <<r, next[r]>>

\* The handler dispatches its next job: CreateOrderFromCart after clearing the
\* cart, CancelOrder for each item.
HandlerDispatches(r) ==
    /\ Running(r)
    /\ next[r] <= JobsPerRequest[r]
    /\ DispatchAccepts(NextJob(r)) \/ DispatchDrops(NextJob(r))
    /\ next' = [next EXCEPT ![r] = @ + 1]
    /\ UNCHANGED <<phase, forced, handler, served>>

\* The panic ends the handler's goroutine, which recovers it.
HandlerPanics(r) ==
    /\ Running(r)
    /\ next[r] <= JobsPerRequest[r]
    /\ DispatchPanics(NextJob(r))
    /\ handler' = [handler EXCEPT ![r] = "panicked"]
    /\ UNCHANGED <<phase, forced, served, next>>

\* It returns: after its jobs, or earlier on an error.
HandlerReturns(r) ==
    /\ Running(r)
    /\ next[r] \in {1, JobsPerRequest[r] + 1}
    /\ handler' = [handler EXCEPT ![r] = "returned"]
    /\ UNCHANGED <<poolVars, phase, forced, served, next>>

Serve(r, how) ==
    /\ ~Exited
    /\ served[r] = "none"
    /\ served' = [served EXCEPT ![r] = how]
    /\ UNCHANGED <<poolVars, phase, forced, handler, next>>

\* Timeout's select: the handler's end, its panic (raised again and answered by
\* Recovery), or the end of the context, whichever is chosen of those ready.
Handled(r) == handler[r] = "returned" /\ Serve(r, "handled")

Recovered(r) == handler[r] = "panicked" /\ Serve(r, "recovered")

Abandoned(r) == handler[r] # "none" /\ Serve(r, "abandoned")

RequestStep(r) ==
    \/ Arrive(r) \/ HandlerDispatches(r) \/ HandlerPanics(r) \/ HandlerReturns(r)
    \/ Handled(r) \/ Recovered(r) \/ Abandoned(r)

--------------------------------------------------------------------------------
(* Server.Start                                                               *)

Signal ==
    /\ phase = "serving"
    /\ phase' = "draining"
    /\ UNCHANGED <<poolVars, forced, handler, served, next>>

\* ListenAndServe fails: Start returns and main exits, the pool not shut down.
ListenFails ==
    /\ phase = "serving"
    /\ phase' = "failed"
    /\ UNCHANGED <<poolVars, forced, handler, served, next>>

\* Mutant of RequestsOver: httpServer.Close instead of Shutdown.
RequestsOverAlways == TRUE

\* What httpServer.Shutdown waits for.
RequestsOver == \A r \in Requests : handler[r] = "none" \/ served[r] # "none"

ClosePool ==
    /\ phase = "draining"
    /\ CloseJobs
    /\ phase' = "closing"
    /\ UNCHANGED <<handler, served, next>>

HTTPDrained == RequestsOver /\ ClosePool /\ forced' = FALSE

\* The ShutdownTimeout passes: Close, and on to the pool.
HTTPForced == ~RequestsOver /\ ClosePool /\ forced' = TRUE

\* Shutdown of the pool returns; the tracer, the database and Redis are closed
\* and main returns.
Stop ==
    /\ phase = "closing"
    /\ WorkersDone
    /\ phase' = "stopped"
    /\ UNCHANGED <<poolVars, forced, handler, served, next>>

Work(w) == ~Exited /\ WorkerStep(w) /\ UNCHANGED serverVars

Next ==
    \/ \E r \in Requests : RequestStep(r)
    \/ \E w \in Workers : Work(w)
    \/ Signal \/ ListenFails \/ HTTPDrained \/ HTTPForced \/ Stop

Spec == Init /\ [][Next]_vars

\* A worker goroutine is scheduled and its job ends; httpServer.Shutdown returns,
\* at the latest with its deadline; nothing forces a signal, or a handler to go on.
Fairness ==
    /\ \A w \in Workers : WF_vars(Work(w))
    /\ WF_vars(HTTPDrained \/ HTTPForced)
    /\ WF_vars(Stop)

LiveSpec == Spec /\ Fairness

--------------------------------------------------------------------------------
(* Properties                                                                 *)

Accepted(j) == sent[j] = "accepted"

\* An accepted job is in exactly one place: at one position of the channel, with
\* one worker, or finished.  A job that was not accepted is nowhere.
JobConserved ==
    \A j \in Jobs :
        Cardinality({i \in 1 .. Len(jobs) : jobs[i] = j})
          + Cardinality({w \in Workers : holding[w] = j})
          + (IF result[j] # "none" THEN 1 ELSE 0)
        = (IF Accepted(j) THEN 1 ELSE 0)

\* A job is given up only after MaxRetries executions, and none is executed more
\* often than that: with several workers, no retry is counted twice or skipped.
RetriesExact ==
    \A j \in Jobs :
        /\ runs[j] <= MaxRetries
        /\ result[j] = "dead" => runs[j] = MaxRetries
        /\ result[j] = "processed" => runs[j] >= 1

\* "Shutdown drains remaining jobs then waits for all workers to finish."
\* (pool.go): when the server has stopped every accepted job is finished, those
\* accepted while the HTTP server was draining included.
StopDrains ==
    phase = "stopped" => \A j \in Jobs : Accepted(j) => result[j] # "none"

\* A dispatch meets the closed channel only if its request was given up on with
\* the handler still running, or httpServer.Shutdown was forced.  A shutdown in
\* which every request is waited for loses no job this way.
OnlyAbandonedPanic ==
    \A r \in Requests : \A i \in 1 .. JobsPerRequest[r] :
        sent[<<r, i>>] = "panicked" => forced \/ served[r] = "abandoned"

\* Once a signal has arrived the server stops.
StopCompletes == phase = "draining" ~> phase = "stopped"

\* An accepted job is finished, unless the process exits without a shutdown.
JobFinishes ==
    \A j \in Jobs : Accepted(j) ~> result[j] # "none" \/ phase = "failed"

\* "Dispatch enqueues a job for async processing. Non-blocking; drops the job if
\* the queue is full" (pool.go): it does one or the other.
DispatchReturns == \A j \in Jobs : sent[j] # "panicked"
================================================================================
