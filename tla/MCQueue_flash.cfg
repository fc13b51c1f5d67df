CONSTANTS
    UpdateStats <- FlashUpdateStats
    BatchWeight <- FlashBatchWeight
    PrefillWeight <- FlashPrefillWeight
    ExceedsWeight <- FlashExceedsWeight
    WeightAt <- FlashWeightAt
    EmptyStats = 0
    Shapes <- FlashShapesWide
    SizeLimit = 2
    WeightLimit = 10
    PrefillWeightLimit = 3
    CUTOFF_DURATION = 1
    MAX_WAITING_DURATION = 1
    MaxEntries = 3
    MaxTime = 3
    ClientsCancel = FALSE

SPECIFICATION Spec

INVARIANT TypeOK
INVARIANT SizeBound
PROPERTY PrefillBound
