CONSTANTS
    UpdateStats <- FlashUpdateStats
    BatchWeight <- FlashBatchWeight
    PrefillWeight <- FlashPrefillWeight
    ExceedsWeight <- FlashExceedsWeight
    WeightAt <- FlashWeightAt
    EmptyStats = 0
    Shapes <- FlashShapes
    SizeLimit = 3
    WeightLimit = 6
    PrefillWeightLimit = 3
    CUTOFF_DURATION = 1
    MAX_WAITING_DURATION = 1
    MaxEntries = 3
    MaxTime = 3
    ClientsCancel = TRUE

SPECIFICATION Spec

PROPERTY RequestQueueSpec
