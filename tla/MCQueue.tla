------------------------------- MODULE MCQueue -------------------------------
(***************************************************************************)
(* Instantiates Queue for TLC.  The cfg files bind the cost-model operator *)
(* constants to CostModel's Flash or Padded operators and choose the       *)
(* request shapes and limits defined here.                                 *)
(***************************************************************************)
EXTENDS Queue, CostModel

PaddedEmptyStats == <<0, 0>>

\* Flash: every shape fits an empty batch alone (truncate + max_new <= 6).
FlashShapes == {<<1, 1>>, <<2, 2>>, <<1, 3>>}

\* Flash, with a long request: any two requests with one (3, 4) among them
\* need the btree analysis under weight limit 10, and two (1, 1) requests
\* weigh less than half of it.
FlashShapesWide == {<<1, 1>>, <<2, 2>>, <<3, 4>>}

\* Padded: every shape fits alone ((truncate + max_new)^2 <= 16).
PaddedShapes == {<<1, 1>>, <<2, 1>>, <<1, 3>>}


=============================================================================
