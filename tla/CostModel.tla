------------------------------ MODULE CostModel ------------------------------
(***************************************************************************)
(* The two implementations of the BatchType trait of router/src/queue.rs:  *)
(* FlashBatch (non-padded, statistics = total token count) and PaddedBatch *)
(* (rectangular, statistics = <<max input length, max output length>>).   *)
(*                                                                         *)
(* A projected batch ("tree" in the code, a BTreeSet of tuples) is a set   *)
(* of triples <<remaining output length, current input length, id>>; the  *)
(* id makes equal shapes distinct elements, as the &u64 does in the code.  *)
(*                                                                         *)
(* Besides the code's operators, the module defines the reference that     *)
(* exceeds_weight is meant to decide: the weight of the projected batch    *)
(* after t further decode steps, when the members whose remaining output   *)
(* is shorter than t have left it.                                         *)
(***************************************************************************)
EXTENDS Integers, Sequences, FiniteSets, SequencesExt, FiniteSetsExt, Functions

\* The larger of two lengths (std::cmp::max).
MaxOf(a, b) == IF a >= b THEN a ELSE b

\* Floor of the square root (num::integer::Roots::sqrt on usize).
ISqrt(n) == CHOOSE r \in 0..n : r * r <= n /\ (r + 1) * (r + 1) > n

\* The BTreeSet's order is lexicographic on the triple.
TupleLess(x, y) ==
    \/ x[1] < y[1]
    \/ x[1] = y[1] /\ x[2] < y[2]
    \/ x[1] = y[1] /\ x[2] = y[2] /\ x[3] < y[3]

\* tree.iter().rev(): the tuples from the longest remaining output down.
Descending(tree) == SetToSortSeq(tree, LAMBDA x, y : TupleLess(y, x))

-----------------------------------------------------------------------------
(* FlashBatch: Stats = total tokens of the batch.                           *)

FlashUpdateStats(total_tokens, input_length, output_length) ==
    total_tokens + input_length + output_length

FlashBatchWeight(total_tokens, batch_size) == total_tokens

FlashPrefillWeight(total_tokens, batch_size) == total_tokens

\* Mutant: a tuple is checked only when its output is below current_output_len.
FlashExceedsWeightLt(tree, max_total_weight, current_output_len) ==
    LET s == Descending(tree)
        InSum(k) == SumFunction([j \in 1..k |-> s[j][2]])
    IN  \E k \in 1..Len(s) :
           /\ s[k][1] < current_output_len
           /\ InSum(k) + k * s[k][1] > max_total_weight

(* Walking the tuples from the longest remaining output, the k-th one      *)
(* (bs + 1 in the code) is checked when its output is at most              *)
(* current_output_len: input sum of the first k plus k times its output.   *)
FlashExceedsWeight(tree, max_total_weight, current_output_len) ==
    LET s == Descending(tree)
        InSum(k) == SumFunction([j \in 1..k |-> s[j][2]])
    IN  \E k \in 1..Len(s) :
           /\ s[k][1] <= current_output_len
           /\ InSum(k) + k * s[k][1] > max_total_weight

-----------------------------------------------------------------------------
(* PaddedBatch: Stats = <<max input length, max output length>>.            *)

PaddedUpdateStats(max_in_out_lengths, input_length, output_length) ==
    << MaxOf(max_in_out_lengths[1], input_length),
       MaxOf(max_in_out_lengths[2], output_length) >>

PaddedBatchWeight(max_in_out_lengths, batch_size) ==
    batch_size * (max_in_out_lengths[1] + max_in_out_lengths[2]) ^ 2

PaddedPrefillWeight(max_in_out_lengths, batch_size) ==
    batch_size * ISqrt(max_in_out_lengths[1] ^ 3)

(* Only the first tuple of each run of equal outputs is examined (the      *)
(* this_ol != last_ol test, last_ol starting at 0); it updates max_in and, *)
(* when its output is at most current_output_len, is checked with its own  *)
(* position k as the batch size.                                           *)
PaddedExceedsWeight(tree, max_total_weight, current_output_len) ==
    LET s == Descending(tree)
        TierStart(k) == s[k][1] # (IF k = 1 THEN 0 ELSE s[k - 1][1])
        MaxIn(k) == Max({0} \cup {s[j][2] : j \in {i \in 1..k : TierStart(i)}})
    IN  \E k \in 1..Len(s) :
           /\ TierStart(k)
           /\ s[k][1] <= current_output_len
           /\ (MaxIn(k) + s[k][1]) ^ 2 * k > max_total_weight

-----------------------------------------------------------------------------
(* Reference: the weight of the projected batch t decode steps from now.   *)
(* The members still running are those whose remaining output is at least *)
(* t; each then holds its input plus t tokens.                             *)

Running(tree, t) == {e \in tree : e[1] >= t}

FlashWeightAt(tree, t) == MapThenSumSet(LAMBDA e : e[2] + t, Running(tree, t))

PaddedWeightAt(tree, t) ==
    Cardinality(Running(tree, t))
      * (Max({0} \cup {e[2] : e \in Running(tree, t)}) + t) ^ 2

\* The decode steps at which the weight peaks: when a member is about to end.
Tiers(tree) == {e[1] : e \in tree}

=============================================================================
