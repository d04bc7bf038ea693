\* Overlapping requests, failing jobs and a shutdown at any moment.
SPECIFICATION LiveSpec
CONSTANTS
    Requests = {"checkout", "cancel"}
    Workers = {w1, w2}
    JobsPerRequest <- JobCounts
    QueueCapacity = 2
    MaxRetries = 2
    NoJob = NoJob
    Jobs <- JobsOfRequests
INVARIANTS
    TypeOK
    JobConserved
    RetriesExact
    StopDrains
    OnlyAbandonedPanic
PROPERTIES
    StopCompletes
    JobFinishes
CHECK_DEADLOCK FALSE
