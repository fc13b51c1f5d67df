----------------------------- MODULE MCCostModel -----------------------------
(***************************************************************************)
(* Checks the exceeds_weight walks of CostModel against the reference      *)
(* weight over every projected batch of up to MaxMembers members with      *)
(* lengths in Lengths, every limit in Limits and every current output      *)
(* length.  The state is the input; it never changes.                      *)
(* It also checks the selection of generate_best_of (BestOf) over every    *)
(* vector of up to MaxBestOf means drawn from Means.                       *)
(***************************************************************************)
EXTENDS CostModel, BestOf

CONSTANTS MaxMembers, Lengths, Limits, Means, MaxBestOf

VARIABLES tree, limit, current_output_len, means
vars == <<tree, limit, current_output_len, means>>

\* f32::MIN, and means from -inf (below it) to 0.
MCF32Min == -50
MCMeans == {-100, -2, -1, 0}

Trees ==
    UNION { { {<<o[i], n[i], i>> : i \in S} : o \in [S -> Lengths], n \in [S -> Lengths] }
            : S \in SUBSET (1..MaxMembers) }

Init ==
    /\ tree \in Trees
    /\ limit \in Limits
    /\ current_output_len \in Lengths
    /\ means \in UNION {[1..n -> Means] : n \in 1..MaxBestOf}

Next == UNCHANGED vars

Spec == Init /\ [][Next]_vars

(* The queue calls exceeds_weight right after inserting the new request,   *)
(* whose remaining output is current_output_len; the walk is meant to say  *)
(* whether the batch will be over the limit at one of the decode steps at  *)
(* which a member of output at most current_output_len ends (the ones with *)
(* a longer output were checked when they were added).  FlashBatch's walk  *)
(* (queue.rs FlashBatch::exceeds_weight) decides exactly that.             *)
FlashExceedsMatchesReference ==
    FlashExceedsWeight(tree, limit, current_output_len)
      <=> \E t \in Tiers(tree) :
             t <= current_output_len /\ FlashWeightAt(tree, t) > limit

(* The same statement for PaddedBatch::exceeds_weight, with the padded     *)
(* weight (members still running times the squared padded length).        *)
PaddedExceedsMatchesReference ==
    PaddedExceedsWeight(tree, limit, current_output_len)
      <=> \E t \in Tiers(tree) :
             t <= current_output_len /\ PaddedWeightAt(tree, t) > limit

(* generate_best_of returns the response with the highest mean            *)
(* log-probability per token (spec section 4.5) and every other response   *)
(* alongside it, each once, whatever the means: also when some are -inf,   *)
(* below the f32::MIN the loop starts from, and when several are equal.    *)
BestOfPicksHighestMean ==
    LET n   == Len(means)
        out == GenerateBestOf([i \in 1..n |-> i], means)
    IN  /\ \A j \in 1..n : means[j] <= means[out[1]]
        /\ Len(out[2]) = n - 1
        /\ ToSet(out[2]) \cup {out[1]} = 1..n

=============================================================================
