CONSTANTS
    UpdateStats <- FlashUpdateStats
    BatchWeight <- FlashBatchWeight
    PrefillWeight <- FlashPrefillWeight
    ExceedsWeight <- FlashExceedsWeight
    WeightAt <- FlashWeightAt
    EmptyStats = 0
    Shapes <- FlashShapesWide
    SizeLimit = 2
    WeightLimit = 10
    PrefillWeightLimit = 3
    CUTOFF_DURATION = 1
    MAX_WAITING_DURATION = 1
    MaxEntries = 3
    MaxTime = 3
    ClientsCancel = TRUE

SPECIFICATION Spec

INVARIANT TypeOK
INVARIANT SizeBound

PROPERTY PrefillBound

\* A panic of the queue task (NoQueuePanic) leaves no step to take.
CHECK_DEADLOCK FALSE
