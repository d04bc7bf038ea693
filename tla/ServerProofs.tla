------------------------------ MODULE ServerProofs -----------------------------
(******************************************************************************)
(* Proofs about Server and its WorkerPool, for any number of requests, jobs   *)
(* and workers, any capacity of the queue and any number of attempts.         *)
(******************************************************************************)
EXTENDS Server, SequenceTheorems, FiniteSetTheorems, TLAPS

Queued(j) == \E i \in 1 .. Len(jobs) : jobs[i] = j

Held(j) == \E w \in Workers : holding[w] = j

\* The channel holds no job twice and no two workers hold one job.
NoDuplicate ==
    /\ \A i, k \in 1 .. Len(jobs) : jobs[i] = jobs[k] => i = k
    /\ \A w, v \in Workers : holding[w] = holding[v] /\ holding[w] # NoJob => w = v

\* A job has been accepted exactly if it is in the channel, with a worker or
\* finished, and is in only one of these places.
PlaceInv ==
    /\ NoDuplicate
    /\ \A j \in Jobs :
        /\ Accepted(j) <=> Queued(j) \/ Held(j) \/ result[j] # "none"
        /\ ~(Queued(j) /\ Held(j))
        /\ result[j] # "none" => ~Queued(j) /\ ~Held(j)

\* A job has run once for each attempt its worker has behind it.
RunsInv ==
    \A j \in Jobs :
        /\ ~Held(j) /\ result[j] = "none" => runs[j] = 0
        /\ \A w \in Workers : holding[w] = j => runs[j] = attempt[w] - 1
        /\ result[j] = "dead" => runs[j] = MaxRetries
        /\ result[j] = "processed" => runs[j] \in 1 .. MaxRetries

\* The jobs a handler has yet to dispatch have not been accepted.
FreshInv ==
    \A r \in Requests : \A i \in 1 .. JobsPerRequest[r] :
        next[r] <= i => sent[<<r, i>>] # "accepted"

\* The channel is closed once the HTTP server is down; a worker leaves its loop only
\* when the channel is closed and empty, and with no job in hand.
CloseInv ==
    /\ closed <=> phase \in {"closing", "stopped"}
    /\ exited # {} => closed /\ jobs = <<>>
    /\ \A w \in exited : holding[w] = NoJob
    /\ phase = "stopped" => exited = Workers

\* How ServeHTTP ended tells where the handler is, and a shutdown that was not forced
\* has closed the channel after the end of every request.
ServeInv ==
    /\ \A r \in Requests : /\ served[r] = "handled" => handler[r] = "returned"
                           /\ served[r] = "recovered" => handler[r] = "panicked"
    /\ closed /\ ~forced => RequestsOver
    /\ \A j \in Jobs : sent[j] = "panicked" => closed

PoolInv == PoolTypeOK /\ PlaceInv /\ RunsInv

IndInv ==
    /\ TypeOK
    /\ PlaceInv
    /\ RunsInv
    /\ FreshInv
    /\ CloseInv
    /\ ServeInv
    /\ OnlyAbandonedPanic

--------------------------------------------------------------------------------
(* Jobs and the channel                                                       *)

\* The jobs are the pairs of a request and the number of one of its jobs.
LEMMA JobPairs ==
    /\ \A r \in Requests : \A i \in 1 .. JobsPerRequest[r] : <<r, i>> \in Jobs
    /\ \A j \in Jobs : \E r \in Requests : \E i \in 1 .. JobsPerRequest[r] : j = <<r, i>>
  BY ServerAssumption

\* Append puts a job at the end of the channel and moves no other.
LEMMA QueuedAppend ==
    ASSUME PoolTypeOK, NEW j \in Jobs, jobs' = Append(jobs, j), ~Queued(j),
           \A i, k \in 1 .. Len(jobs) : jobs[i] = jobs[k] => i = k
    PROVE  /\ jobs' \in Seq(Jobs) /\ Len(jobs') = Len(jobs) + 1
           /\ \A k \in Jobs : Queued(k)' <=> Queued(k) \/ k = j
           /\ (\A i, k \in 1 .. Len(jobs) : jobs[i] = jobs[k] => i = k)'
<1>1. jobs \in Seq(Jobs) /\ Len(jobs) \in Nat
  BY DEF PoolTypeOK
<1>2. /\ jobs' \in Seq(Jobs) /\ Len(jobs') = Len(jobs) + 1
      /\ \A i \in 1 .. Len(jobs) : jobs'[i] = jobs[i]
      /\ jobs'[Len(jobs) + 1] = j
  BY <1>1, AppendProperties
<1>3. \A k \in Jobs : Queued(k)' <=> Queued(k) \/ k = j
  BY <1>1, <1>2 DEF Queued
<1>4. ASSUME NEW i \in 1 .. Len(jobs'), NEW k \in 1 .. Len(jobs'), jobs'[i] = jobs'[k]
      PROVE  i = k
  BY <1>1, <1>2, <1>4 DEF Queued
<1> QED
  BY <1>2, <1>3, <1>4

\* Tail removes the head, which is nowhere else in the channel.
LEMMA QueuedTail ==
    ASSUME PoolTypeOK, jobs # <<>>, jobs' = Tail(jobs),
           \A i, k \in 1 .. Len(jobs) : jobs[i] = jobs[k] => i = k
    PROVE  /\ jobs' \in Seq(Jobs) /\ Len(jobs') = Len(jobs) - 1
           /\ Head(jobs) \in Jobs /\ Queued(Head(jobs))
           /\ \A k \in Jobs : Queued(k)' <=> Queued(k) /\ k # Head(jobs)
           /\ (\A i, k \in 1 .. Len(jobs) : jobs[i] = jobs[k] => i = k)'
<1>1. jobs \in Seq(Jobs) /\ Len(jobs) \in Nat \ {0}
  BY EmptySeq DEF PoolTypeOK
<1>2. /\ jobs' \in Seq(Jobs) /\ Len(jobs') = Len(jobs) - 1
      /\ \A i \in 1 .. Len(jobs') : jobs'[i] = jobs[i + 1]
      /\ Head(jobs) \in Jobs
  BY <1>1, HeadTailProperties
<1>3. Head(jobs) = jobs[1]
  OBVIOUS
<1>4. Queued(Head(jobs))
  BY <1>1, <1>3 DEF Queued
<1>5. ASSUME NEW k \in Jobs PROVE Queued(k)' <=> Queued(k) /\ k # Head(jobs)
  <2>1. ASSUME Queued(k)' PROVE Queued(k) /\ k # Head(jobs)
    <3>1. PICK i \in 1 .. Len(jobs') : jobs'[i] = k
      BY <2>1 DEF Queued
    <3>2. jobs[i + 1] = k /\ i + 1 \in 1 .. Len(jobs) /\ i + 1 # 1 /\ 1 \in 1 .. Len(jobs)
      BY <1>1, <1>2, <3>1
    <3> QED
      BY <1>3, <3>2 DEF Queued
  <2>2. ASSUME Queued(k), k # Head(jobs) PROVE Queued(k)'
    <3>1. PICK i \in 1 .. Len(jobs) : jobs[i] = k
      BY <2>2 DEF Queued
    <3>2. i - 1 \in 1 .. Len(jobs') /\ (i - 1) + 1 = i
      BY <1>1, <1>2, <1>3, <2>2, <3>1
    <3>3. jobs'[i - 1] = k
      BY <1>2, <3>1, <3>2
    <3> QED
      BY <3>2, <3>3 DEF Queued
  <2> QED
    BY <2>1, <2>2
<1>6. ASSUME NEW i \in 1 .. Len(jobs'), NEW k \in 1 .. Len(jobs'), jobs'[i] = jobs'[k]
      PROVE  i = k
  <2>1. /\ jobs[i + 1] = jobs[k + 1]
        /\ i + 1 \in 1 .. Len(jobs) /\ k + 1 \in 1 .. Len(jobs)
    BY <1>1, <1>2, <1>6
  <2> QED
    BY <2>1
<1> QED
  BY <1>2, <1>4, <1>5, <1>6

--------------------------------------------------------------------------------
(* The pool                                                                   *)

\* A step that moves no job.
LEMMA PoolIdle ==
    ASSUME PoolInv, UNCHANGED <<jobs, holding, attempt, result, runs>>,
           sent' \in [Jobs -> {"none", "accepted", "dropped", "panicked"}],
           \A j \in Jobs : Accepted(j)' <=> Accepted(j),
           closed' \in BOOLEAN, exited' \subseteq Workers
    PROVE  PoolInv'
<1>1. PoolTypeOK'
  BY DEF PoolInv, PoolTypeOK
<1>2. PlaceInv'
  BY DEF PoolInv, PlaceInv, NoDuplicate, Queued, Held
<1>3. RunsInv'
  BY DEF PoolInv, RunsInv, Held
<1> QED
  BY <1>1, <1>2, <1>3 DEF PoolInv

\* Dispatch puts a job that was nowhere at the end of the channel.
LEMMA AcceptInv ==
    ASSUME PoolInv, NEW j \in Jobs, ~Accepted(j), DispatchAccepts(j)
    PROVE  PoolInv' /\ \A k \in Jobs : Accepted(k)' <=> Accepted(k) \/ k = j
<1>1. PoolTypeOK /\ PlaceInv /\ RunsInv /\ ~Queued(j) /\ ~Held(j) /\ result[j] = "none"
  BY DEF PoolInv, PlaceInv
<1>2. /\ jobs' = Append(jobs, j) /\ Len(jobs) < QueueCapacity
      /\ sent' = [sent EXCEPT ![j] = "accepted"]
      /\ UNCHANGED <<closed, holding, attempt, exited, result, runs>>
  BY DEF DispatchAccepts, Enqueue, HasRoom
<1>3. /\ jobs' \in Seq(Jobs) /\ Len(jobs') = Len(jobs) + 1
      /\ \A k \in Jobs : Queued(k)' <=> Queued(k) \/ k = j
      /\ (\A i, k \in 1 .. Len(jobs) : jobs[i] = jobs[k] => i = k)'
  BY <1>1, <1>2, QueuedAppend DEF PlaceInv, NoDuplicate
<1>4. \A k \in Jobs : Accepted(k)' <=> Accepted(k) \/ k = j
  BY <1>1, <1>2 DEF PoolTypeOK, Accepted
<1>5. \A k \in Jobs : Held(k)' <=> Held(k)
  BY <1>2 DEF Held
<1>6. PoolTypeOK'
  <2>1. Len(jobs) \in Nat /\ QueueCapacity \in Nat
    BY <1>1, PoolAssumption DEF PoolTypeOK
  <2> QED
    BY <1>1, <1>2, <1>3, <2>1 DEF PoolTypeOK
<1>7. PlaceInv'
  <2>1. NoDuplicate'
    BY <1>1, <1>2, <1>3 DEF PlaceInv, NoDuplicate
  <2> QED
    BY <1>1, <1>2, <1>3, <1>4, <1>5, <2>1 DEF PlaceInv
<1>8. RunsInv'
  BY <1>1, <1>2, <1>5 DEF RunsInv
<1> QED
  BY <1>4, <1>6, <1>7, <1>8 DEF PoolInv

\* A worker takes the first job of the channel, and nobody else has it.
LEMMA TakeInv ==
    ASSUME PoolInv, NEW w \in Workers, TakeJob(w)
    PROVE  PoolInv'
<1> DEFINE j == Head(jobs)
<1>1. PoolTypeOK /\ PlaceInv /\ RunsInv
  BY DEF PoolInv
<1>2. /\ jobs # <<>> /\ jobs' = Tail(jobs) /\ holding[w] = NoJob
      /\ holding' = [holding EXCEPT ![w] = j]
      /\ attempt' = [attempt EXCEPT ![w] = 1]
      /\ UNCHANGED <<closed, exited, sent, result, runs>>
  BY DEF TakeJob, Dequeue
<1>3. /\ jobs' \in Seq(Jobs) /\ Len(jobs') = Len(jobs) - 1
      /\ j \in Jobs /\ Queued(j)
      /\ \A k \in Jobs : Queued(k)' <=> Queued(k) /\ k # j
      /\ (\A i, k \in 1 .. Len(jobs) : jobs[i] = jobs[k] => i = k)'
  BY <1>1, <1>2, QueuedTail DEF PlaceInv, NoDuplicate
<1>4. Accepted(j) /\ ~Held(j) /\ result[j] = "none" /\ j # NoJob
  BY <1>1, <1>3, PoolAssumption DEF PlaceInv
<1> HIDE DEF j
<1>5. \A k \in Jobs : Held(k)' <=> Held(k) \/ k = j
  BY <1>1, <1>2, PoolAssumption DEF Held, PoolTypeOK
<1>6. PoolTypeOK'
  <2>1. Len(jobs) \in Nat /\ QueueCapacity \in Nat /\ 1 \in 1 .. MaxRetries
    BY <1>1, PoolAssumption DEF PoolTypeOK
  <2> QED
    BY <1>1, <1>2, <1>3, <2>1 DEF PoolTypeOK
<1>7. PlaceInv'
  <2>1. NoDuplicate'
    BY <1>1, <1>2, <1>3, <1>4 DEF PlaceInv, NoDuplicate, PoolTypeOK, Held
  <2>2. \A k \in Jobs : Accepted(k)' <=> Accepted(k)
    BY <1>2 DEF Accepted
  <2> QED
    BY <1>1, <1>2, <1>3, <1>4, <1>5, <2>1, <2>2 DEF PlaceInv
<1>8. RunsInv'
  <2>1. runs[j] = 0
    BY <1>1, <1>3, <1>4 DEF RunsInv
  <2>2. ASSUME NEW k \in Jobs, NEW v \in Workers, holding'[v] = k
        PROVE  runs'[k] = attempt'[v] - 1
    BY <1>1, <1>2, <1>3, <2>1, <2>2 DEF RunsInv, PoolTypeOK
  <2> QED
    BY <1>1, <1>2, <1>5, <2>2 DEF RunsInv
<1> QED
  BY <1>6, <1>7, <1>8 DEF PoolInv

\* A worker's job runs once more, and is finished or tried again.
LEMMA ExecuteInv ==
    ASSUME PoolInv, NEW w \in Workers, JobSucceeds(w) \/ JobPanics(w)
    PROVE  PoolInv'
<1>1. PoolTypeOK /\ PlaceInv /\ RunsInv /\ MaxRetries \in Nat \ {0} /\ NoJob \notin Jobs
  BY PoolAssumption DEF PoolInv
<1>0. PICK j \in Jobs : holding[w] = j
  BY <1>1 DEF JobSucceeds, JobPanics, PoolTypeOK
<1>2. /\ j # NoJob
      /\ UNCHANGED <<jobs, closed, exited, sent>>
      /\ runs' = [runs EXCEPT ![j] = runs[j] + 1]
  BY <1>0, <1>1 DEF JobSucceeds, JobPanics
<1>3. \/ /\ \/ result' = [result EXCEPT ![j] = "processed"]
            \/ result' = [result EXCEPT ![j] = "dead"] /\ attempt[w] >= MaxRetries
         /\ holding' = [holding EXCEPT ![w] = NoJob]
         /\ attempt' = attempt
      \/ /\ attempt' = [attempt EXCEPT ![w] = attempt[w] + 1]
         /\ ~(attempt[w] >= MaxRetries)
         /\ UNCHANGED <<holding, result>>
  BY <1>0 DEF JobSucceeds, JobPanics, Ends, LastAttempt
<1>4. /\ Accepted(j) /\ Held(j) /\ ~Queued(j) /\ result[j] = "none"
      /\ runs[j] = attempt[w] - 1 /\ attempt[w] \in 1 .. MaxRetries
  <2>1. Held(j)
    BY <1>0 DEF Held
  <2> QED
    BY <1>0, <1>1, <1>2, <2>1 DEF PlaceInv, RunsInv, PoolTypeOK
<1>5. \A v \in Workers \ {w} : holding[v] # j
  BY <1>0, <1>1, <1>2 DEF PlaceInv, NoDuplicate
<1>6. \A k \in Jobs : (Accepted(k)' <=> Accepted(k)) /\ (Queued(k)' <=> Queued(k))
  BY <1>2 DEF Accepted, Queued
<1>7. \A k \in Jobs \ {j} : /\ Held(k)' <=> Held(k)
                            /\ result'[k] = result[k] /\ runs'[k] = runs[k]
  <2>1. \A k \in Jobs \ {j} : Held(k)' <=> Held(k)
    BY <1>0, <1>1, <1>2, <1>3 DEF Held, PoolTypeOK
  <2> QED
    BY <1>1, <1>2, <1>3, <2>1 DEF PoolTypeOK
<1>8. runs'[j] = attempt[w]
  BY <1>1, <1>2, <1>4 DEF PoolTypeOK
<1>9. CASE holding' = [holding EXCEPT ![w] = NoJob] /\ attempt' = attempt /\ result'[j] # "none"
  <2>1. \/ result'[j] = "processed"
        \/ result'[j] = "dead" /\ attempt[w] = MaxRetries
    BY <1>1, <1>2, <1>3, <1>4, <1>9 DEF PoolTypeOK
  <2>2. ~Held(j)'
    BY <1>1, <1>2, <1>5, <1>9 DEF Held, PoolTypeOK
  <2>3. PoolTypeOK'
    <3>1. /\ holding' \in [Workers -> Jobs \cup {NoJob}]
          /\ runs' \in [Jobs -> Nat]
      BY <1>1, <1>2, <1>9 DEF PoolTypeOK
    <3>2. result' \in [Jobs -> {"none", "processed", "dead"}]
      BY <1>1, <1>3 DEF PoolTypeOK
    <3> QED
      BY <1>1, <1>2, <1>9, <3>1, <3>2 DEF PoolTypeOK
  <2>4. NoDuplicate'
    BY <1>1, <1>2, <1>9 DEF PlaceInv, NoDuplicate, PoolTypeOK
  <2>5. PlaceInv'
    BY <1>1, <1>4, <1>6, <1>7, <1>9, <2>2, <2>4 DEF PlaceInv
  <2>6. RunsInv'
    <3>1. ASSUME NEW k \in Jobs, NEW v \in Workers, holding'[v] = k
          PROVE  holding[v] = k /\ k # j /\ attempt'[v] = attempt[v]
      BY <1>1, <1>5, <1>9, <3>1 DEF PoolTypeOK
    <3>2. runs'[j] \in 1 .. MaxRetries
      BY <1>4, <1>8
    <3> QED
      BY <1>1, <1>4, <1>7, <1>8, <1>9, <2>1, <2>2, <3>1, <3>2 DEF RunsInv
  <2> QED
    BY <2>3, <2>5, <2>6 DEF PoolInv
<1>10. CASE /\ attempt' = [attempt EXCEPT ![w] = attempt[w] + 1]
            /\ ~(attempt[w] >= MaxRetries)
            /\ UNCHANGED <<holding, result>>
  <2>1. attempt[w] + 1 \in 1 .. MaxRetries
    BY <1>1, <1>4, <1>10
  <2>2. PoolTypeOK'
    BY <1>1, <1>2, <1>10, <2>1 DEF PoolTypeOK
  <2>3. PlaceInv'
    <3>1. NoDuplicate'
      BY <1>1, <1>2, <1>10 DEF PlaceInv, NoDuplicate
    <3>2. \A k \in Jobs : Held(k)' <=> Held(k)
      BY <1>10 DEF Held
    <3> QED
      BY <1>1, <1>6, <1>10, <3>1, <3>2 DEF PlaceInv
  <2>4. RunsInv'
    <3>1. Held(j)'
      BY <1>4, <1>10 DEF Held
    <3>2. ASSUME NEW k \in Jobs, NEW v \in Workers, holding'[v] = k
          PROVE  runs'[k] = attempt'[v] - 1
      <4>1. CASE v = w
        BY <1>0, <1>1, <1>4, <1>8, <1>10, <3>2, <4>1 DEF PoolTypeOK
      <4>2. CASE v # w
        BY <1>1, <1>5, <1>7, <1>10, <3>2, <4>2 DEF PoolTypeOK, RunsInv
      <4> QED
        BY <4>1, <4>2
    <3> QED
      BY <1>1, <1>4, <1>7, <1>10, <3>1, <3>2 DEF RunsInv
  <2> QED
    BY <2>2, <2>3, <2>4 DEF PoolInv
<1> QED
  BY <1>1, <1>2, <1>3, <1>9, <1>10 DEF PoolTypeOK

--------------------------------------------------------------------------------
(* The server                                                                 *)

\* The channel is empty and no request has begun.
LEMMA InitInv == Init => IndInv
<1> SUFFICES ASSUME Init PROVE IndInv
  OBVIOUS
<1>1. TypeOK
  <2>1. jobs \in Seq(Jobs) /\ Len(jobs) = 0 /\ 0 <= QueueCapacity /\ 1 \in 1 .. MaxRetries
    BY PoolAssumption DEF Init, PoolInit
  <2>2. PoolTypeOK
    BY <2>1 DEF Init, PoolInit, PoolTypeOK
  <2>3. \A r \in Requests : next[r] = 1 /\ 1 <= JobsPerRequest[r] + 1
    BY ServerAssumption DEF Init
  <2>4. next \in [Requests -> Nat \ {0}]
    BY DEF Init
  <2>5. /\ forced \in BOOLEAN
        /\ handler \in [Requests -> {"none", "running", "returned", "panicked"}]
        /\ served \in [Requests -> {"none", "handled", "abandoned", "recovered"}]
    BY DEF Init
  <2> QED
    BY <2>2, <2>3, <2>4, <2>5 DEF Init, TypeOK
<1>2. Len(jobs) = 0 /\ \A j \in Jobs : ~Queued(j) /\ ~Held(j) /\ ~Accepted(j)
  BY PoolAssumption DEF Init, PoolInit, Queued, Held, Accepted
<1>3. PlaceInv /\ RunsInv
  BY <1>2, PoolAssumption DEF Init, PoolInit, PlaceInv, NoDuplicate, RunsInv
<1>4. FreshInv /\ OnlyAbandonedPanic
  BY JobPairs DEF Init, PoolInit, FreshInv, OnlyAbandonedPanic
<1>5. CloseInv /\ ServeInv
  BY DEF Init, PoolInit, CloseInv, ServeInv
<1> QED
  BY <1>1, <1>3, <1>4, <1>5 DEF IndInv

\* The properties of the server that a step of a worker leaves alone.
LEMMA WorkInv ==
    ASSUME IndInv, NEW w \in Workers, Work(w)
    PROVE  IndInv'
<1>1. /\ PoolInv /\ TypeOK /\ UNCHANGED <<phase, forced, handler, served, next, closed, sent>>
      /\ PoolTypeOK
  BY DEF IndInv, PoolInv, TypeOK, Work, serverVars, WorkerStep, TakeJob, JobSucceeds,
     JobPanics, WorkerExits
<1>2. PoolInv'
  <2>1. CASE WorkerExits(w)
    <3>1. /\ UNCHANGED <<jobs, holding, attempt, result, runs>>
          /\ exited' \subseteq Workers /\ closed' \in BOOLEAN
      BY <1>1, <2>1 DEF WorkerExits, PoolTypeOK
    <3> QED
      BY <1>1, <3>1, PoolIdle DEF Accepted, PoolTypeOK
  <2> QED
    BY <1>1, <2>1, TakeInv, ExecuteInv DEF Work, WorkerStep
<1>3. TypeOK'
  BY <1>1, <1>2 DEF TypeOK, PoolInv
<1>4. FreshInv' /\ ServeInv' /\ OnlyAbandonedPanic'
  BY <1>1 DEF IndInv, FreshInv, ServeInv, OnlyAbandonedPanic, RequestsOver
<1>5. CloseInv'
  <2>1. CASE TakeJob(w)
    <3>1. exited = {} /\ exited' = exited
      BY <2>1 DEF IndInv, CloseInv, TakeJob
    <3> QED
      BY <1>1, <3>1, <2>1 DEF IndInv, CloseInv, Work, Exited
  <2>2. CASE JobSucceeds(w) \/ JobPanics(w)
    <3>1. /\ jobs' = jobs /\ exited' = exited /\ w \notin exited
          /\ \A v \in Workers \ {w} : holding'[v] = holding[v]
      BY <1>1, <2>2 DEF IndInv, CloseInv, JobSucceeds, JobPanics, Ends, PoolTypeOK
    <3> QED
      BY <1>1, <3>1 DEF IndInv, CloseInv, PoolTypeOK
  <2>3. CASE WorkerExits(w)
    BY <1>1, <2>3 DEF IndInv, CloseInv, WorkerExits, RangeEnds, Work, Exited
  <2> QED
    BY <2>1, <2>2, <2>3 DEF Work, WorkerStep
<1> QED
  BY <1>2, <1>3, <1>4, <1>5 DEF IndInv, PoolInv

\* A handler dispatches its next job, which is accepted or dropped.
LEMMA DispatchInv ==
    ASSUME IndInv, NEW r \in Requests, HandlerDispatches(r)
    PROVE  IndInv'
<1> DEFINE j == <<r, next[r]>>
<1>1. /\ PoolInv /\ TypeOK /\ PoolTypeOK
      /\ next[r] \in 1 .. JobsPerRequest[r] /\ JobsPerRequest \in [Requests -> Nat]
  <2>1. JobsPerRequest \in [Requests -> Nat]
    BY ServerAssumption
  <2>2. TypeOK /\ next[r] <= JobsPerRequest[r]
    BY DEF IndInv, HandlerDispatches
  <2>3. next[r] \in 1 .. JobsPerRequest[r]
    BY <2>1, <2>2 DEF TypeOK
  <2> QED
    BY <2>1, <2>2, <2>3 DEF IndInv, PoolInv, TypeOK
<1>2. j \in Jobs /\ ~Accepted(j)
  BY <1>1, JobPairs DEF IndInv, FreshInv, Accepted
<1>3. /\ UNCHANGED <<phase, forced, handler, served, closed, exited, holding>>
      /\ ~closed
      /\ next' = [next EXCEPT ![r] = next[r] + 1]
      /\ sent' \in {[sent EXCEPT ![j] = "accepted"], [sent EXCEPT ![j] = "dropped"]}
      /\ DispatchAccepts(j) \/ DispatchDrops(j)
  BY DEF HandlerDispatches, NextJob, DispatchAccepts, DispatchDrops
<1> HIDE DEF j
<1>4. PoolInv'
  <2>1. CASE DispatchDrops(j)
    <3>1. /\ UNCHANGED <<jobs, holding, attempt, result, runs, closed, exited>>
          /\ sent' = [sent EXCEPT ![j] = "dropped"]
      BY <2>1 DEF DispatchDrops
    <3>2. /\ sent' \in [Jobs -> {"none", "accepted", "dropped", "panicked"}]
          /\ \A k \in Jobs : Accepted(k)' <=> Accepted(k)
      BY <1>1, <1>2, <3>1 DEF PoolTypeOK, Accepted
    <3> QED
      BY <1>1, <3>1, <3>2, PoolIdle DEF PoolTypeOK
  <2> QED
    BY <1>1, <1>2, <1>3, <2>1, AcceptInv
<1>5. TypeOK'
  BY <1>1, <1>3, <1>4 DEF TypeOK, PoolInv
<1>6. FreshInv'
  <2>1. ASSUME NEW q \in Requests, NEW i \in 1 .. JobsPerRequest[q], next'[q] <= i
        PROVE  sent'[<<q, i>>] # "accepted"
    <3>1. next[q] <= i /\ <<q, i>> # j
      BY <1>1, <1>3, <2>1 DEF TypeOK, j
    <3>2. <<q, i>> \in Jobs /\ sent'[<<q, i>>] = sent[<<q, i>>]
      BY <1>1, <1>2, <1>3, <3>1, JobPairs DEF PoolTypeOK
    <3> QED
      BY <3>1, <3>2 DEF IndInv, FreshInv
  <2> QED
    BY <2>1 DEF FreshInv
<1>7. \A k \in Jobs : sent'[k] = "panicked" => sent[k] = "panicked"
  BY <1>1, <1>3 DEF PoolTypeOK
<1>8. CloseInv' /\ ServeInv' /\ OnlyAbandonedPanic'
  <2>1. exited = {}
    BY <1>3 DEF IndInv, CloseInv
  <2>2. CloseInv'
    BY <1>3, <2>1 DEF IndInv, CloseInv
  <2>3. ServeInv'
    BY <1>3, <1>7 DEF IndInv, ServeInv, RequestsOver
  <2>4. OnlyAbandonedPanic'
    BY <1>3, <1>7, JobPairs DEF IndInv, OnlyAbandonedPanic
  <2> QED
    BY <2>2, <2>3, <2>4
<1> QED
  BY <1>4, <1>5, <1>6, <1>8 DEF IndInv, PoolInv

\* A dispatch meets the closed channel: the request had been abandoned, or the
\* shutdown forced.
LEMMA PanicInv ==
    ASSUME IndInv, NEW r \in Requests, HandlerPanics(r)
    PROVE  IndInv'
<1> DEFINE j == <<r, next[r]>>
<1>1. /\ PoolInv /\ TypeOK /\ PoolTypeOK
      /\ next[r] \in 1 .. JobsPerRequest[r] /\ JobsPerRequest \in [Requests -> Nat]
  <2>1. JobsPerRequest \in [Requests -> Nat]
    BY ServerAssumption
  <2>2. TypeOK /\ next[r] <= JobsPerRequest[r]
    BY DEF IndInv, HandlerPanics
  <2>3. next[r] \in 1 .. JobsPerRequest[r]
    BY <2>1, <2>2 DEF TypeOK
  <2> QED
    BY <2>1, <2>2, <2>3 DEF IndInv, PoolInv, TypeOK
<1>2. j \in Jobs /\ ~Accepted(j)
  BY <1>1, JobPairs DEF IndInv, FreshInv, Accepted
<1>3. /\ handler[r] = "running" /\ closed
      /\ handler' = [handler EXCEPT ![r] = "panicked"]
      /\ sent' = [sent EXCEPT ![j] = "panicked"]
      /\ UNCHANGED <<phase, forced, served, next>>
      /\ UNCHANGED <<jobs, closed, holding, attempt, exited, result, runs>>
  BY DEF HandlerPanics, Running, NextJob, DispatchPanics
<1>4. forced \/ served[r] = "abandoned"
  BY <1>1, <1>3 DEF IndInv, ServeInv, RequestsOver, TypeOK
<1> HIDE DEF j
<1>5. PoolInv'
  <2>1. /\ sent' \in [Jobs -> {"none", "accepted", "dropped", "panicked"}]
        /\ \A k \in Jobs : Accepted(k)' <=> Accepted(k)
    BY <1>1, <1>2, <1>3 DEF PoolTypeOK, Accepted
  <2> QED
    BY <1>1, <1>3, <2>1, PoolIdle DEF PoolTypeOK
<1>6. TypeOK'
  BY <1>1, <1>3, <1>5 DEF TypeOK, PoolInv
<1>7. FreshInv'
  <2>1. \A k \in Jobs : sent'[k] = "accepted" => sent[k] = "accepted"
    BY <1>1, <1>3 DEF PoolTypeOK
  <2> QED
    BY <1>3, <2>1, JobPairs DEF IndInv, FreshInv
<1>8. CloseInv'
  BY <1>3 DEF IndInv, CloseInv
<1>9. ServeInv'
  BY <1>1, <1>3 DEF IndInv, ServeInv, RequestsOver, TypeOK
<1>10. OnlyAbandonedPanic'
  <2>1. ASSUME NEW q \in Requests, NEW i \in 1 .. JobsPerRequest[q],
               sent'[<<q, i>>] = "panicked"
        PROVE  forced \/ served[q] = "abandoned"
    <3>1. CASE <<q, i>> = j
      BY <1>4, <3>1 DEF j
    <3>2. CASE <<q, i>> # j
      BY <1>1, <1>3, <2>1, <3>2, JobPairs DEF IndInv, OnlyAbandonedPanic, PoolTypeOK
    <3> QED
      BY <3>1, <3>2
  <2> QED
    BY <1>3, <2>1 DEF OnlyAbandonedPanic
<1> QED
  BY <1>5, <1>6, <1>7, <1>8, <1>9, <1>10 DEF IndInv, PoolInv

\* The other steps of a request touch neither the pool nor what its handler has sent.
LEMMA RequestInv ==
    ASSUME IndInv, NEW r \in Requests,
           Arrive(r) \/ HandlerReturns(r) \/ Handled(r) \/ Recovered(r) \/ Abandoned(r)
    PROVE  IndInv'
<1>1. TypeOK /\ PoolInv /\ UNCHANGED <<phase, forced, next>> /\ UNCHANGED poolVars
  BY DEF IndInv, PoolInv, TypeOK, Arrive, HandlerReturns, Handled, Recovered, Abandoned, Serve
<1>2. PoolInv' /\ CloseInv' /\ FreshInv'
  BY <1>1, PoolIdle DEF poolVars, PoolInv, PoolTypeOK, Accepted, IndInv, CloseInv, FreshInv
<1>3. TypeOK'
  BY <1>1, <1>2 DEF TypeOK, PoolInv, Arrive, HandlerReturns, Handled, Recovered, Abandoned,
     Serve
<1>4. ServeInv' /\ OnlyAbandonedPanic'
  <2>1. CASE Arrive(r)
    <3>1. ~closed /\ served' = served /\ handler' = [handler EXCEPT ![r] = "running"]
          /\ handler[r] = "none"
      BY <2>1 DEF IndInv, CloseInv, Arrive
    <3> QED
      BY <1>1, <3>1 DEF IndInv, ServeInv, OnlyAbandonedPanic, TypeOK, poolVars
  <2>2. CASE HandlerReturns(r)
    BY <1>1, <2>2 DEF IndInv, ServeInv, OnlyAbandonedPanic, TypeOK, HandlerReturns,
       Running, RequestsOver, poolVars
  <2>3. CASE Handled(r) \/ Recovered(r) \/ Abandoned(r)
    BY <1>1, <2>3 DEF IndInv, ServeInv, OnlyAbandonedPanic, TypeOK, Handled, Recovered,
       Abandoned, Serve, RequestsOver, poolVars
  <2> QED
    BY <2>1, <2>2, <2>3
<1> QED
  BY <1>2, <1>3, <1>4 DEF IndInv, PoolInv

\* The steps of Start: it closes the channel after the HTTP server is down.
LEMMA StartInv ==
    ASSUME IndInv, Signal \/ ListenFails \/ HTTPDrained \/ HTTPForced \/ Stop
    PROVE  IndInv'
<1>1. TypeOK /\ PoolInv /\ PoolTypeOK
      /\ UNCHANGED <<handler, served, next, jobs, holding, attempt, exited, sent, result, runs>>
  BY DEF IndInv, PoolInv, TypeOK, Signal, ListenFails, HTTPDrained, HTTPForced, ClosePool,
     CloseJobs, Stop, poolVars
<1>2. closed' \in BOOLEAN /\ forced' \in BOOLEAN
      /\ phase' \in {"serving", "draining", "closing", "stopped", "failed"}
  BY <1>1 DEF TypeOK, PoolTypeOK, Signal, ListenFails, HTTPDrained, HTTPForced, ClosePool,
     CloseJobs, Stop, poolVars
<1>3. PoolInv'
  BY <1>1, <1>2, PoolIdle DEF PoolTypeOK, Accepted
<1>4. TypeOK' /\ FreshInv'
  BY <1>1, <1>2, <1>3 DEF TypeOK, PoolInv, IndInv, FreshInv
<1>5. CloseInv'
  BY <1>1 DEF IndInv, CloseInv, Signal, ListenFails, HTTPDrained, HTTPForced, ClosePool,
     CloseJobs, Stop, poolVars, WorkersDone
<1>6. ServeInv' /\ OnlyAbandonedPanic'
  <2>1. CASE Signal \/ ListenFails \/ Stop
    BY <1>1, <2>1 DEF IndInv, ServeInv, OnlyAbandonedPanic, RequestsOver, Signal,
       ListenFails, Stop, poolVars
  <2>2. CASE HTTPDrained \/ HTTPForced
    <3>1. ~closed /\ (RequestsOver \/ forced')
      BY <2>2 DEF HTTPDrained, HTTPForced, ClosePool, CloseJobs
    <3>2. \A j \in Jobs : sent[j] # "panicked"
      BY <3>1 DEF IndInv, ServeInv
    <3> QED
      BY <1>1, <3>1, <3>2, JobPairs DEF IndInv, ServeInv, OnlyAbandonedPanic, RequestsOver
  <2> QED
    BY <2>1, <2>2
<1> QED
  BY <1>3, <1>4, <1>5, <1>6 DEF IndInv, PoolInv

\* Every step keeps the invariant.
LEMMA NextInv == IndInv /\ [Next]_vars => IndInv'
<1> SUFFICES ASSUME IndInv, [Next]_vars PROVE IndInv'
  OBVIOUS
<1>1. ASSUME NEW r \in Requests, RequestStep(r) PROVE IndInv'
  BY <1>1, DispatchInv, PanicInv, RequestInv DEF RequestStep
<1>2. ASSUME NEW w \in Workers, Work(w) PROVE IndInv'
  BY <1>2, WorkInv
<1>3. CASE Signal \/ ListenFails \/ HTTPDrained \/ HTTPForced \/ Stop
  BY <1>3, StartInv
<1>4. CASE UNCHANGED vars
  BY <1>4 DEF vars, poolVars, IndInv, TypeOK, PoolTypeOK, PlaceInv, NoDuplicate, RunsInv,
     FreshInv, CloseInv, ServeInv, OnlyAbandonedPanic, RequestsOver, Queued, Held, Accepted
<1> QED
  BY <1>1, <1>2, <1>3, <1>4 DEF Next

\* The invariant holds throughout.
LEMMA Inductive == Spec => []IndInv
<1> QED
  BY InitInv, NextInv, PTL DEF Spec

--------------------------------------------------------------------------------
(* Theorems                                                                   *)

\* Server and pool keep their types; in particular Dispatch never puts more into the
\* channel than its buffer holds.
THEOREM TypeCorrect == Spec => []TypeOK
<1> QED
  BY Inductive, PTL DEF IndInv

\* Dispatch, runWorker and Shutdown conserve jobs: an accepted job is at one position
\* of the channel, or with one worker, or finished; any other job is nowhere.
THEOREM JobsConserved == Spec => []JobConserved
<1>1. ASSUME IndInv PROVE JobConserved
  <2> SUFFICES ASSUME NEW j \in Jobs
               PROVE  Cardinality({i \in 1 .. Len(jobs) : jobs[i] = j})
                        + Cardinality({w \in Workers : holding[w] = j})
                        + (IF result[j] # "none" THEN 1 ELSE 0)
                      = (IF Accepted(j) THEN 1 ELSE 0)
    BY DEF JobConserved
  <2> DEFINE Slots == {i \in 1 .. Len(jobs) : jobs[i] = j}
             Hands == {w \in Workers : holding[w] = j}
  <2>1. /\ j # NoJob
        /\ Accepted(j) <=> Queued(j) \/ Held(j) \/ result[j] # "none"
        /\ ~(Queued(j) /\ Held(j))
        /\ result[j] # "none" => ~Queued(j) /\ ~Held(j)
    BY <1>1, PoolAssumption DEF IndInv, PlaceInv
  <2>2. Cardinality(Slots) = IF Queued(j) THEN 1 ELSE 0
    <3>1. CASE Queued(j)
      <4>1. PICK i \in 1 .. Len(jobs) : jobs[i] = j
        BY <3>1 DEF Queued
      <4>2. Slots = {i}
        BY <1>1, <4>1 DEF IndInv, PlaceInv, NoDuplicate
      <4> QED
        BY <3>1, <4>2, FS_Singleton
    <3>2. CASE ~Queued(j)
      <4>1. Slots = {}
        BY <3>2 DEF Queued
      <4> QED
        BY <3>2, <4>1, FS_EmptySet
    <3> QED
      BY <3>1, <3>2
  <2>3. Cardinality(Hands) = IF Held(j) THEN 1 ELSE 0
    <3>1. CASE Held(j)
      <4>1. PICK w \in Workers : holding[w] = j
        BY <3>1 DEF Held
      <4>2. Hands = {w}
        BY <1>1, <2>1, <4>1 DEF IndInv, PlaceInv, NoDuplicate
      <4> QED
        BY <3>1, <4>2, FS_Singleton
    <3>2. CASE ~Held(j)
      <4>1. Hands = {}
        BY <3>2 DEF Held
      <4> QED
        BY <3>2, <4>1, FS_EmptySet
    <3> QED
      BY <3>1, <3>2
  <2> HIDE DEF Slots, Hands
  <2>4. Cardinality(Slots) + Cardinality(Hands) + (IF result[j] # "none" THEN 1 ELSE 0)
        = (IF Accepted(j) THEN 1 ELSE 0)
    BY <2>1, <2>2, <2>3
  <2> QED
    BY <2>4 DEF Slots, Hands
<1> QED
  BY Inductive, <1>1, PTL

\* executeWithRetry: no job runs more often than maxRetries, and none is given up
\* before.
THEOREM RetriesCounted == Spec => []RetriesExact
<1>1. ASSUME IndInv PROVE RetriesExact
  <2>1. ASSUME NEW j \in Jobs
        PROVE  /\ runs[j] <= MaxRetries
               /\ result[j] = "dead" => runs[j] = MaxRetries
               /\ result[j] = "processed" => runs[j] >= 1
    <3>1. MaxRetries \in Nat /\ result[j] \in {"none", "processed", "dead"}
          /\ attempt \in [Workers -> 1 .. MaxRetries]
      BY <1>1, PoolAssumption DEF IndInv, TypeOK, PoolTypeOK
    <3>2. CASE Held(j)
      <4>1. PICK w \in Workers : holding[w] = j
        BY <3>2 DEF Held
      <4> QED
        BY <1>1, <3>1, <3>2, <4>1 DEF IndInv, RunsInv, PlaceInv
    <3>3. CASE ~Held(j)
      BY <1>1, <3>1, <3>3 DEF IndInv, RunsInv
    <3> QED
      BY <3>2, <3>3
  <2> QED
    BY <2>1 DEF RetriesExact
<1> QED
  BY Inductive, <1>1, PTL

\* Start and Shutdown: when the server has stopped, every accepted job is finished.
THEOREM StopFinishesJobs == Spec => []StopDrains
<1>1. ASSUME IndInv PROVE StopDrains
  <2>1. SUFFICES ASSUME phase = "stopped", NEW j \in Jobs, Accepted(j)
                 PROVE  result[j] # "none"
    BY DEF StopDrains
  <2>2. exited = Workers /\ jobs = <<>> /\ \A w \in Workers : holding[w] = NoJob
    BY <1>1, <2>1, PoolAssumption DEF IndInv, CloseInv
  <2>3. ~Queued(j) /\ ~Held(j)
    BY <2>2, PoolAssumption DEF Queued, Held
  <2> QED
    BY <1>1, <2>1, <2>3 DEF IndInv, PlaceInv
<1> QED
  BY Inductive, <1>1, PTL

\* Timeout and Start: a handler meets the closed channel only in a request that was
\* abandoned, or after a forced shutdown.
THEOREM PanicsExplained == Spec => []OnlyAbandonedPanic
<1> QED
  BY Inductive, PTL DEF IndInv
================================================================================
