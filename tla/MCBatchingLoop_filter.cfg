\* A failing filter_batch or clear_cache call panics the batching task (infer.rs:579, 587).
CONSTANTS
    r1 = r1
    r2 = r2
    r3 = r3
    Requests <- MCRequests
    MaxNewTokens = {1, 2}
    MaxConcurrent = 2
    MaxBatchSize = 2
    MaxBatchTotalTokens = 4
    MaxWaitingTokens = 2
    RatioNum = 1
    RatioDen = 1
    BackendFilterFails = TRUE
SPECIFICATION Spec
\* Once every slot has been used the router idles: batching_task waits on
\* its notifier forever, which is the server's rest state, not a deadlock.
\* EveryRequestAnswered (MCBatchingLoop_live.cfg) checks that no request is
\* stranded in such a state.
INVARIANT BatchingTaskAlive
CHECK_DEADLOCK FALSE
