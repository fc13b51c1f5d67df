CONSTANTS
    MaxMembers = 3
    Lengths = {1, 2, 3}
    Limits = {16, 36, 50, 72}
    F32Min <- MCF32Min
    Means <- MCMeans
    MaxBestOf = 3

SPECIFICATION Spec

INVARIANT PaddedExceedsMatchesReference
