---------------------------- MODULE RequestQueue ----------------------------
(***************************************************************************)
(* What the request queue promises the batching loop, independent of how   *)
(* next_batch chooses (spec sections 4.1, 4.2 and 8):                      *)
(*   - requests wait in arrival order, and a call of next_batch removes    *)
(*     only requests it hands out and requests whose client cancelled,    *)
(*     leaving the others in their order;                                  *)
(*   - a request handed out was live when it was chosen, and the running   *)
(*     batch never exceeds the size limit;                                 *)
(*   - if the queue task dies, what it held is lost and nothing more is    *)
(*     appended or handed out.                                             *)
(* Clients may cancel during a next_batch call: such a step may also      *)
(* close receivers (late).                                                 *)
(***************************************************************************)
EXTENDS FiniteSets, Sequences, SequencesExt

CONSTANTS Ids, SizeLimit

VARIABLES
    waiting,   \* ids waiting, oldest first
    running,   \* ids in the running batch
    closed,    \* ids whose client dropped its receiver
    finished,  \* ids the batching loop has retired
    dropped,   \* ids removed from the queue without being handed out
    failed     \* the queue task has died

vars == <<waiting, running, closed, finished, dropped, failed>>

Known == ToSet(waiting) \cup running \cup finished \cup dropped

Init ==
    /\ waiting = <<>>
    /\ running = {} /\ closed = {} /\ finished = {} /\ dropped = {}
    /\ failed = FALSE

Enqueue(id) ==
    /\ ~failed /\ id \notin Known
    /\ waiting' = Append(waiting, id)
    /\ UNCHANGED <<running, closed, finished, dropped, failed>>

Cancel(id) ==
    /\ id \in Known \ (closed \cup finished)
    /\ closed' = closed \cup {id}
    /\ UNCHANGED <<waiting, running, finished, dropped, failed>>

Finish(id) ==
    /\ id \in running
    /\ running' = running \ {id}
    /\ finished' = finished \cup {id}
    /\ UNCHANGED <<waiting, closed, dropped, failed>>

\* One next_batch call: drop cancelled requests D, hand out live requests S.
Schedule ==
    /\ ~failed
    /\ \E late \in SUBSET (ToSet(waiting) \ closed) :
       \E D \in SUBSET (ToSet(waiting) \cap (closed \cup late)) :
       \E S \in SUBSET (ToSet(waiting) \ (closed \cup late)) :
          /\ Cardinality(running \cup S) <= SizeLimit
          /\ closed' = closed \cup late
          /\ waiting' = SelectSeq(waiting, LAMBDA id : id \notin D \cup S)
          /\ running' = running \cup S
          /\ dropped' = dropped \cup D
          /\ UNCHANGED <<finished, failed>>

\* The queue task dies in a next_batch call; the requests it removed are lost.
Crash ==
    /\ ~failed
    /\ \E late \in SUBSET (ToSet(waiting) \ closed) :
       \E L \in SUBSET ToSet(waiting) :
          /\ closed' = closed \cup late
          /\ waiting' = SelectSeq(waiting, LAMBDA id : id \notin L)
          /\ dropped' = dropped \cup L
          /\ failed' = TRUE
          /\ UNCHANGED <<running, finished>>

Next ==
    \/ \E id \in Ids : Enqueue(id) \/ Cancel(id) \/ Finish(id)
    \/ Schedule
    \/ Crash

Spec == Init /\ [][Next]_vars

=============================================================================
