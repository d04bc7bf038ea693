\* pool.go: Dispatch enqueues or drops.
SPECIFICATION Spec
CONSTANTS
    Requests = {"checkout"}
    Workers = {w1}
    JobsPerRequest <- JobCounts
    QueueCapacity = 1
    MaxRetries = 1
    NoJob = NoJob
    Jobs <- JobsOfRequests
INVARIANTS
    DispatchReturns
CHECK_DEADLOCK FALSE
