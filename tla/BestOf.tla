------------------------------- MODULE BestOf -------------------------------
(***************************************************************************)
(* The selection in Infer::generate_best_of (router/src/infer.rs): after   *)
(* the best_of generate calls have all returned, the response with the     *)
(* highest mean log-probability per token is taken out of the vector and   *)
(* returned with the others.                                               *)
(*                                                                         *)
(* A mean is an f32.  Every response has at least its End token, so no     *)
(* mean is 0/0, and without NaN the f32 values are totally ordered by >.   *)
(* They are modelled as integers in that order: a mean of -inf (a token    *)
(* of log-probability -inf) is an integer below F32Min, the value of       *)
(* f32::MIN.                                                               *)
(***************************************************************************)
EXTENDS Integers, Sequences, SequencesExt

CONSTANT F32Min   \* f32::MIN, where the search for the maximum starts

\* The loop over the responses, with max_logprob starting at start: a mean
\* replaces the best so far only when strictly greater.
PickBest(means, start) ==
    FoldLeftDomain(LAMBDA best, i :
                       IF means[i] > best.logprob THEN [index |-> i, logprob |-> means[i]]
                       ELSE best,
                   [index |-> 1, logprob |-> start], means).index

\* Mutant: max_logprob starts at 0.0, above every log-probability.
BestIndexFromZero(means) == PickBest(means, 0)

\* The index of the response generate_best_of returns (max_index).
BestIndex(means) == PickBest(means, F32Min)

\* infer_responses.remove(max_index): the best one, and the others in order.
GenerateBestOf(responses, means) ==
    LET i == BestIndex(means)
    IN  <<responses[i], RemoveAt(responses, i)>>

=============================================================================
