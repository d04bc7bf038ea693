------------------------------ MODULE WorkerPool -------------------------------
(******************************************************************************)
(* internal/worker: a buffered channel of background jobs drained by a fixed  *)
(* set of goroutines.  A panicking job is retried by the worker that took it, *)
(* and given up (the dead-letter log) after MaxRetries attempts.  The steps   *)
(* of this module are composed with the HTTP server's in module Server.       *)
(******************************************************************************)
EXTENDS Integers, Sequences, FiniteSets

CONSTANTS
    Jobs,            \* background jobs, each dispatched at most once
    Workers,         \* worker goroutines (NewPool is called with 5)
    QueueCapacity,   \* buffer of the channel
    MaxRetries,      \* maxRetries
    NoJob            \* a worker waiting on the channel

ASSUME PoolAssumption ==
    /\ QueueCapacity \in Nat \ {0}
    /\ MaxRetries \in Nat \ {0}
    /\ NoJob \notin Jobs
    /\ Workers # {}

VARIABLES
    jobs,       \* the channel's buffer
    closed,     \* the channel is closed
    holding,    \* the job a worker executes, or NoJob
    attempt,    \* its attempt
    exited,     \* workers whose goroutine has returned
    sent,       \* what Dispatch did with a job
    result,     \* how a job ended
    runs        \* times a job was executed

poolVars == <<jobs, closed, holding, attempt, exited, sent, result, runs>>

PoolTypeOK ==
    /\ jobs \in Seq(Jobs) /\ Len(jobs) <= QueueCapacity
    /\ closed \in BOOLEAN
    /\ holding \in [Workers -> Jobs \cup {NoJob}]
    /\ attempt \in [Workers -> 1 .. MaxRetries]
    /\ exited \subseteq Workers
    /\ sent \in [Jobs -> {"none", "accepted", "dropped", "panicked"}]
    /\ result \in [Jobs -> {"none", "processed", "dead"}]
    /\ runs \in [Jobs -> Nat]

\* NewPool, and Start before the first request.
PoolInit ==
    /\ jobs = <<>>
    /\ closed = FALSE
    /\ holding = [w \in Workers |-> NoJob]
    /\ attempt = [w \in Workers |-> 1]
    /\ exited = {}
    /\ sent = [j \in Jobs |-> "none"]
    /\ result = [j \in Jobs |-> "none"]
    /\ runs = [j \in Jobs |-> 0]

--------------------------------------------------------------------------------
(* Dispatch: a send that does not block.                                      *)

\* Mutant of HasRoom: an off-by-one against the buffer.
HasRoomPlusOne == Len(jobs) <= QueueCapacity

HasRoom == Len(jobs) < QueueCapacity

Enqueue(j) == jobs' = Append(jobs, j)

DispatchAccepts(j) ==
    /\ ~closed /\ HasRoom
    /\ Enqueue(j)
    /\ sent' = [sent EXCEPT ![j] = "accepted"]
    /\ UNCHANGED <<closed, holding, attempt, exited, result, runs>>

DispatchDrops(j) ==
    /\ ~closed /\ ~HasRoom
    /\ sent' = [sent EXCEPT ![j] = "dropped"]
    /\ UNCHANGED <<jobs, closed, holding, attempt, exited, result, runs>>

\* A send on a closed channel panics, select and default notwithstanding.
DispatchPanics(j) ==
    /\ closed
    /\ sent' = [sent EXCEPT ![j] = "panicked"]
    /\ UNCHANGED <<jobs, closed, holding, attempt, exited, result, runs>>

--------------------------------------------------------------------------------
(* runWorker, executeWithRetry, executeJob                                    *)

\* Mutant of Dequeue: the job stays in the channel.
DequeuePeeks == UNCHANGED jobs

Dequeue == jobs' = Tail(jobs)

\* A closed channel still hands out what it buffers.
TakeJob(w) ==
    /\ w \notin exited
    /\ holding[w] = NoJob
    /\ jobs # <<>>
    /\ holding' = [holding EXCEPT ![w] = Head(jobs)]
    /\ attempt' = [attempt EXCEPT ![w] = 1]
    /\ Dequeue
    /\ UNCHANGED <<closed, exited, sent, result, runs>>

Ends(w, how) ==
    /\ result' = [result EXCEPT ![holding[w]] = how]
    /\ holding' = [holding EXCEPT ![w] = NoJob]
    /\ UNCHANGED attempt

JobSucceeds(w) ==
    /\ holding[w] # NoJob
    /\ runs' = [runs EXCEPT ![holding[w]] = @ + 1]
    /\ Ends(w, "processed")
    /\ UNCHANGED <<jobs, closed, exited, sent>>

\* Mutant of LastAttempt: attempt < maxRetries as the loop's condition.
LastAttemptEarly(w) == attempt[w] + 1 >= MaxRetries

LastAttempt(w) == attempt[w] >= MaxRetries

\* The job panics; the worker recovers, sleeps and tries again, or gives it up.
JobPanics(w) ==
    /\ holding[w] # NoJob
    /\ runs' = [runs EXCEPT ![holding[w]] = @ + 1]
    /\ IF LastAttempt(w)
       THEN Ends(w, "dead")
       ELSE /\ attempt' = [attempt EXCEPT ![w] = @ + 1]
            /\ UNCHANGED <<holding, result>>
    /\ UNCHANGED <<jobs, closed, exited, sent>>

\* Mutant of RangeEnds: a closed channel ends the loop at once.
RangeEndsOnClose == closed

\* Mutant of RangeEnds: a plain receive loop, which a closed channel does not end.
RangeNeverEnds == FALSE

\* range over the channel ends once it is closed and drained.
RangeEnds == closed /\ jobs = <<>>

WorkerExits(w) ==
    /\ w \notin exited
    /\ holding[w] = NoJob
    /\ RangeEnds
    /\ exited' = exited \cup {w}
    /\ UNCHANGED <<jobs, closed, holding, attempt, sent, result, runs>>

WorkerStep(w) == TakeJob(w) \/ JobSucceeds(w) \/ JobPanics(w) \/ WorkerExits(w)

--------------------------------------------------------------------------------
(* Shutdown                                                                   *)

CloseJobs ==
    /\ ~closed
    /\ closed' = TRUE
    /\ UNCHANGED <<jobs, holding, attempt, exited, sent, result, runs>>

\* wg.Wait returns.
WorkersDone == exited = Workers
================================================================================
