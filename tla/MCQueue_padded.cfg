CONSTANTS
    UpdateStats <- PaddedUpdateStats
    BatchWeight <- PaddedBatchWeight
    PrefillWeight <- PaddedPrefillWeight
    ExceedsWeight <- PaddedExceedsWeight
    WeightAt <- PaddedWeightAt
    EmptyStats <- PaddedEmptyStats
    Shapes <- PaddedShapes
    SizeLimit = 2
    WeightLimit = 18
    PrefillWeightLimit = 3
    CUTOFF_DURATION = 1
    MAX_WAITING_DURATION = 1
    MaxEntries = 3
    MaxTime = 3
    ClientsCancel = FALSE

SPECIFICATION Spec

INVARIANT TypeOK
INVARIANT SizeBound
PROPERTY PrefillBound
