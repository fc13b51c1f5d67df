\* The batching loop, the fan-out and the facade: safety, the refinement of
\* StreamProtocol, and liveness under weak fairness of the batching task.
CONSTANTS
    r1 = r1
    r2 = r2
    r3 = r3
    Requests <- MCRequests
    MaxNewTokens = {1, 2}
    MaxConcurrent = 2
    MaxBatchSize = 2
    MaxBatchTotalTokens = 4
    MaxWaitingTokens = 2
    RatioNum = 1
    RatioDen = 1
    BackendFilterFails = FALSE
SPECIFICATION FairSpec
INVARIANTS TypeOK BatchingTaskAlive BatchWithinMaxSize
PROPERTIES CancelPrunesCache StreamSpec EveryRequestAnswered
\* Once every slot has been used the router idles: batching_task waits on
\* its notifier forever, which is the server's rest state, not a deadlock.
\* EveryRequestAnswered checks that no request is stranded in such a state.
CHECK_DEADLOCK FALSE
