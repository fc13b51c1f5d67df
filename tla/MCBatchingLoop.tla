---------------------------- MODULE MCBatchingLoop ----------------------------
(***************************************************************************)
(* Instantiates BatchingLoop for TLC: three interchangeable request slots, *)
(* each asking for one or two tokens.                                      *)
(***************************************************************************)
EXTENDS BatchingLoop

CONSTANTS r1, r2, r3

MCRequests == {r1, r2, r3}

=============================================================================
