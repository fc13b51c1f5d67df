CONSTANTS
    MaxMembers = 3
    Lengths = {1, 2, 3}
    Limits = {4, 6, 9, 12}
    F32Min <- MCF32Min
    Means <- MCMeans
    MaxBestOf = 3

SPECIFICATION Spec

INVARIANT FlashExceedsMatchesReference
INVARIANT BestOfPicksHighestMean
