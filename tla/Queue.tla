-------------------------------- MODULE Queue --------------------------------
(***************************************************************************)
(* The request queue of router/src/queue.rs: the State owned by the queue  *)
(* actor (queue_task), whose append and next_batch commands run one at a   *)
(* time, and around it the environment that calls them: clients append    *)
(* requests and may drop their receiver, the batching loop passes the      *)
(* running batch ("existing" entries) to next_batch and retires entries    *)
(* from it, and time passes.                                               *)
(*                                                                         *)
(* The cost model is a parameter, like the BatchType trait: the operator   *)
(* constants are instantiated with CostModel's Flash or Padded operators.  *)
(* Time is counted in ticks of CUTOFF_DURATION / MAX_WAITING_DURATION's    *)
(* unit (one second in the code).                                          *)
(***************************************************************************)
EXTENDS Integers, Sequences, FiniteSets, SequencesExt, FiniteSetsExt

CONSTANTS
    UpdateStats(_, _, _),   \* BatchType::update_stats
    BatchWeight(_, _),      \* BatchType::batch_weight
    PrefillWeight(_, _),    \* BatchType::prefill_weight
    ExceedsWeight(_, _, _), \* BatchType::exceeds_weight
    EmptyStats,             \* BatchType::Stats::default()
    WeightAt(_, _),         \* reference: projected weight t steps ahead
    SizeLimit,              \* BatchingConfig.size_limit
    WeightLimit,            \* BatchingConfig.weight_limit
    PrefillWeightLimit,     \* BatchingConfig.prefill_weight_limit (0: off)
    CUTOFF_DURATION,        \* in ticks
    MAX_WAITING_DURATION,   \* in ticks
    Shapes,                 \* <<truncate, max_new_tokens>> of valid requests
    MaxEntries,             \* bound on the number of appended requests
    MaxTime,                \* bound on the clock
    ClientsCancel           \* whether clients may drop their receiver

ASSUME SizeLimit \in Nat \ {0}
ASSUME WeightLimit \in Nat /\ PrefillWeightLimit \in Nat
ASSUME Shapes \subseteq (Nat \X (Nat \ {0}))
ASSUME MaxEntries \in Nat /\ MaxTime \in Nat /\ ClientsCancel \in BOOLEAN

VARIABLES
    entries,                      \* State.entries: the waiting queue
    next_id,                      \* State.next_id
    next_batch_id,                \* State.next_batch_id
    last_seen_batch_size,         \* State.last_seen_batch_size
    checked_request_count,        \* State.checked_request_count
    buffer_contents_insufficient, \* State.buffer_contents_insufficient
    crashed,                      \* the queue task has panicked
    closed,      \* ids whose response_tx is disconnected (receiver dropped)
    active,      \* entries of the running batch, passed as "existing"
    done,        \* ids the batching loop has retired
    discarded,   \* ids removed from the queue without being batched
    now,         \* the clock (Instant::now())
    progress     \* per id: tokens generated so far by the batching loop

vars == <<entries, next_id, next_batch_id, last_seen_batch_size,
          checked_request_count, buffer_contents_insufficient, crashed,
          closed, active, done, discarded, now, progress>>

Ids == 0..(MaxEntries - 1)

Entry == [id : Ids, truncate : Nat, max_new_tokens : Nat, queue_time : 0..MaxTime]

IdsOf(S) == {e.id : e \in S}
WaitingIds == {entries[i].id : i \in DOMAIN entries}

-----------------------------------------------------------------------------
(* Helpers of State::next_batch.  Indices are 0-based as in the VecDeque.  *)

\* BatchType::compute_stats: fold the existing entries into statistics.
ComputeStats(S) ==
    FoldSet(LAMBDA e, s : UpdateStats(s, e.truncate, e.max_new_tokens), EmptyStats, S)

(* The btree record of an entry: remaining output max_new_tokens minus     *)
(* generated_tokens and input truncate plus generated_tokens.  Nothing in  *)
(* the router ever increments Entry.generated_tokens, so it is 0 here.     *)
Projection(e) == <<e.max_new_tokens, e.truncate, e.id>>

\* State::next_entry_waiting_too_long on the queue q.
NextEntryWaitingTooLong(q) ==
    q # <<>> /\ now - Head(q).queue_time > MAX_WAITING_DURATION

\* Pop cancelled entries from the front of the queue.
RECURSIVE DropClosedFront(_)
DropClosedFront(q) ==
    IF q # <<>> /\ Head(q).id \in closed THEN DropClosedFront(Tail(q)) ELSE q

\* VecDeque::remove(i): out of range, it returns None and removes nothing.
RemoveIndex(q, i) == IF i < Len(q) THEN RemoveAt(q, i + 1) ELSE q

\* indices_to_drop.iter().for_each(|i| self.entries.remove(*i)).
RemoveDropped(q, drop) == FoldLeft(RemoveIndex, q, drop)

\* The cheap test before the btree analysis (uses the stats before the entry).
NeedsAnalysis(batch_stats, total_count) ==
    BatchWeight(batch_stats, total_count + 1) > WeightLimit

\* Mutant: the prefill weight of the batch before the entry is added.
PrefillTooHeavyStale(prefill_stats, input_len, chosen_count) ==
    /\ PrefillWeightLimit > 0
    /\ PrefillWeight(prefill_stats, chosen_count + 1) > PrefillWeightLimit

\* Adding an entry of input input_len makes the new requests too costly to
\* prefill in one forward pass.
PrefillTooHeavy(prefill_stats, input_len, chosen_count) ==
    /\ PrefillWeightLimit > 0
    /\ PrefillWeight(UpdateStats(prefill_stats, input_len, 0), chosen_count + 1)
         > PrefillWeightLimit

\* Mutant: the size limit tested with > instead of >=.
SizeReachedOffByOne(total_count) == total_count > SizeLimit

SizeReached(total_count) == total_count >= SizeLimit

(* One iteration of 'queue_loop over the entry e of q, given the loop's    *)
(* locals in the record a.  a.qi is queue_index, a.checked is              *)
(* checked_up_to_index, a.tree the btree (meaningful when a.hasTree), a.cutoff *)
(* the time_cutoff as a set of at most one instant, a.closed the receivers *)
(* is_disconnected reports as dropped while the pass runs.                 *)
Visit(a, e, q, existing) ==
    LET qi      == a.qi + 1
        t       == Projection(e)
        heavy   == NeedsAnalysis(a.stats, a.total)
        hasTree == a.hasTree \/ heavy
        base    == IF a.hasTree THEN a.tree
                   ELSE {Projection(x) : x \in existing}
                          \cup {Projection(q[i + 1]) : i \in Range(a.chosen)}
        over    == heavy /\ ExceedsWeight(base \cup {t}, WeightLimit, e.max_new_tokens)
        nps     == UpdateStats(a.pstats, e.truncate, 0)
        cutoff  == IF a.cutoff = {} THEN {e.queue_time + CUTOFF_DURATION} ELSE a.cutoff
        seen    == [a EXCEPT !.qi = qi, !.checked = @ + 1]
    IN  CASE \E c \in a.cutoff : e.queue_time > c ->
                 [a EXCEPT !.stop = TRUE]
          [] e.id \in a.closed ->
                 [a EXCEPT !.qi = qi, !.drop = Append(@, qi)]
          [] over ->
                 [seen EXCEPT !.hasTree = TRUE, !.tree = base, !.cutoff = cutoff]
          [] PrefillTooHeavy(a.pstats, e.truncate, Len(a.chosen)) ->
                 [seen EXCEPT !.hasTree = hasTree, !.tree = base,
                              !.hit = a.hit \/ hasTree, !.cutoff = cutoff]
          [] OTHER ->
                 [seen EXCEPT !.hasTree = hasTree, !.tree = base \cup {t},
                              !.stats = UpdateStats(a.stats, e.truncate, e.max_new_tokens),
                              !.pstats = IF PrefillWeightLimit > 0 THEN nps ELSE a.pstats,
                              !.chosen = Append(@, qi - 1),
                              !.total = a.total + 1,
                              !.stop = SizeReached(a.total + 1)]

\* Mutant: the pass stops one entry before the end of the queue.
RECURSIVE ScanSkipLast(_, _, _)
ScanSkipLast(a, q, existing) ==
    IF a.stop \/ a.qi >= Len(q) - 1 THEN a
    ELSE ScanSkipLast(Visit(a, q[a.qi + 1], q, existing), q, existing)

\* The read-only pass over q from index a.qi.
RECURSIVE Scan(_, _, _)
Scan(a, q, existing) ==
    IF a.stop \/ a.qi >= Len(q) THEN a
    ELSE Scan(Visit(a, q[a.qi + 1], q, existing), q, existing)

ScanFrom(start, q, existing, cl) ==
    Scan([closed |-> cl, qi |-> start, checked |-> start, chosen |-> <<>>, drop |-> <<>>,
          hasTree |-> FALSE, tree |-> {}, cutoff |-> {}, hit |-> FALSE,
          stats |-> ComputeStats(existing), pstats |-> EmptyStats,
          total |-> Cardinality(existing), stop |-> FALSE], q, existing)

(* Pop the chosen entries: the i-th pop removes index chosen[i] - i, and   *)
(* .expect("bug") panics when that index is out of range.                  *)
RECURSIVE PopChosen(_, _, _)
PopChosen(q, chosen, i) ==
    IF i = Len(chosen) THEN [queue |-> q, batch |-> {}, panic |-> FALSE]
    ELSE LET k == chosen[i + 1] - i
         IN  IF k >= Len(q) THEN [queue |-> q, batch |-> {}, panic |-> TRUE]
             ELSE LET rest == PopChosen(RemoveAt(q, k + 1), chosen, i + 1)
                  IN  [rest EXCEPT !.batch = @ \cup {q[k + 1]}]

-----------------------------------------------------------------------------
(* State::new, with the clients and the batching loop not started yet.    *)
Init ==
    /\ entries = <<>>
    /\ next_id = 0
    /\ next_batch_id = 0
    /\ last_seen_batch_size = 0
    /\ checked_request_count = 0
    /\ buffer_contents_insufficient = FALSE
    /\ crashed = FALSE
    /\ closed = {}
    /\ active = {}
    /\ done = {}
    /\ discarded = {}
    /\ now = 0
    /\ progress = [i \in Ids |-> 0]

\* Mutant: the request is pushed at the front of the queue.
AppendEntryFront(shape) ==
    /\ ~crashed
    /\ next_id < MaxEntries
    /\ entries' = <<[id |-> next_id, truncate |-> shape[1],
                     max_new_tokens |-> shape[2], queue_time |-> now]>> \o entries
    /\ next_id' = next_id + 1
    /\ UNCHANGED <<next_batch_id, last_seen_batch_size, checked_request_count,
                   buffer_contents_insufficient, crashed, closed, active, done,
                   discarded, now, progress>>

(* Infer::generate_stream enqueues a validated request stamped with        *)
(* Instant::now() and State::append gives it the next id.  Once the queue  *)
(* task has panicked the send's unwrap panics instead.                     *)
AppendEntry(shape) ==
    /\ ~crashed
    /\ next_id < MaxEntries
    /\ entries' = Append(entries, [id |-> next_id, truncate |-> shape[1],
                                   max_new_tokens |-> shape[2], queue_time |-> now])
    /\ next_id' = next_id + 1
    /\ UNCHANGED <<next_batch_id, last_seen_batch_size, checked_request_count,
                   buffer_contents_insufficient, crashed, closed, active, done,
                   discarded, now, progress>>

(* A client drops its receiver: response_tx becomes disconnected.          *)
DropReceiver(id) ==
    /\ ClientsCancel
    /\ id \in 0..(next_id - 1) \ (closed \cup done)
    /\ closed' = closed \cup {id}
    /\ UNCHANGED <<entries, next_id, next_batch_id, last_seen_batch_size,
                   checked_request_count, buffer_contents_insufficient, crashed,
                   active, done, discarded, now, progress>>

(* The batching loop removes a finished or cancelled entry from the        *)
(* running batch.                                                          *)
Retire(e) ==
    /\ e \in active
    /\ active' = active \ {e}
    /\ done' = done \cup {e.id}
    /\ UNCHANGED <<entries, next_id, next_batch_id, last_seen_batch_size,
                   checked_request_count, buffer_contents_insufficient, crashed,
                   closed, discarded, now, progress>>

(* A prefill or decode of the running batch (batching_task): every entry  *)
(* of it gets one more token.  An entry at its max_new_tokens stops and    *)
(* must be retired first.  The queue's Entry.generated_tokens is not       *)
(* updated: nothing in the router writes it.                               *)
Decode ==
    /\ active # {}
    /\ \A e \in active : progress[e.id] < e.max_new_tokens
    /\ progress' = [i \in Ids |-> IF i \in IdsOf(active) THEN progress[i] + 1 ELSE progress[i]]
    /\ UNCHANGED <<entries, next_id, next_batch_id, last_seen_batch_size,
                   checked_request_count, buffer_contents_insufficient, crashed,
                   closed, active, done, discarded, now>>

Tick ==
    /\ now < MaxTime
    /\ now' = now + 1
    /\ UNCHANGED <<entries, next_id, next_batch_id, last_seen_batch_size,
                   checked_request_count, buffer_contents_insufficient, crashed,
                   closed, active, done, discarded, progress>>

(* State::next_batch(existing), run by the queue task as one step: its    *)
(* outcome and the queue state it leaves.  The outcomes: nothing new to check;  *)
(* no entry chosen; a batch too small to add to the running one; a batch   *)
(* emitted, or the panic of .expect("bug") while popping it.  Whatever the *)
(* outcome, last_seen_batch_size records the size of the running batch,    *)
(* and the entries no longer waiting nor batched count as discarded.       *)
(* Receivers in late are dropped by their clients during the call, after  *)
(* the front filter and before the pass reads is_disconnected.            *)
NextBatchResult(late) ==
    LET existing == active
        total    == Cardinality(existing)
        q        == DropClosedFront(entries)
        start    == IF total # last_seen_batch_size \/ Len(q) < Len(entries)
                    THEN 0 ELSE checked_request_count
        nothingNew == /\ existing # {}
                      /\ \/ Len(q) <= start
                         \/ buffer_contents_insufficient /\ ~NextEntryWaitingTooLong(q)
        r        == ScanFrom(start, q, existing, closed \cup late)
        q2       == RemoveDropped(q, r.drop)
        tooSmall == /\ ~r.hit
                    /\ existing # {}
                    /\ ~NextEntryWaitingTooLong(q2)
                    /\ BatchWeight(r.stats, r.total) < WeightLimit \div 2
        p        == PopChosen(q2, r.chosen, 0)
    IN  CASE nothingNew ->
                 [kind |-> "NothingNew", entries |-> q, checked |-> start,
                  insufficient |-> buffer_contents_insufficient, crashed |-> FALSE, batch |-> {}]
          [] r.chosen = <<>> ->
                 [kind |-> "NoneChosen", entries |-> q2, checked |-> r.checked,
                  insufficient |-> buffer_contents_insufficient, crashed |-> FALSE, batch |-> {}]
          [] tooSmall ->
                 [kind |-> "TooSmall", entries |-> q2, checked |-> r.checked,
                  insufficient |-> TRUE, crashed |-> FALSE, batch |-> {}]
          [] p.panic ->
                 [kind |-> "Panic", entries |-> p.queue, checked |-> 0,
                  insufficient |-> buffer_contents_insufficient, crashed |-> TRUE, batch |-> {}]
          [] OTHER ->
                 [kind |-> "Emit", entries |-> p.queue, checked |-> 0,
                  insufficient |-> FALSE, crashed |-> FALSE, batch |-> p.batch]

\* The values of vars after a next_batch call of outcome o.
NextBatchVars(o) ==
    LET active2 == active \cup o.batch
    IN  <<o.entries, next_id, IF o.batch # {} THEN next_batch_id + 1 ELSE next_batch_id,
          Cardinality(active), o.checked, o.insufficient, o.crashed, closed, active2, done,
          discarded \cup (WaitingIds \ ({o.entries[i].id : i \in DOMAIN o.entries}
                                        \cup IdsOf(active2))),
          now, progress>>

(* At the size limit next_batch returns at once and changes nothing, so    *)
(* the step is disabled there; after a panic the queue task is gone.       *)
NextBatchCalled == ~crashed /\ ~SizeReached(Cardinality(active))

(* The receivers clients may drop while next_batch runs.                  *)
LateDrops == IF ClientsCancel THEN SUBSET (WaitingIds \ closed) ELSE {{}}

NextBatch ==
    /\ NextBatchCalled
    /\ \E late \in LateDrops :
       LET v == NextBatchVars(NextBatchResult(late))
       IN  /\ entries' = v[1]
           /\ next_batch_id' = v[3]
           /\ last_seen_batch_size' = v[4]
           /\ checked_request_count' = v[5]
           /\ buffer_contents_insufficient' = v[6]
           /\ crashed' = v[7]
           /\ active' = v[9]
           /\ discarded' = v[11]
           /\ closed' = closed \cup late
           /\ UNCHANGED <<next_id, done, now, progress>>

Next ==
    \/ \E s \in Shapes : AppendEntry(s)
    \/ \E id \in Ids : DropReceiver(id)
    \/ \E e \in active : Retire(e)
    \/ Tick
    \/ Decode
    \/ NextBatch

Spec == Init /\ [][Next]_vars

(* Weak fairness of NextBatch, WF_vars(NextBatch), written with its       *)
(* enabling condition made explicit: without cancellations NextBatch is   *)
(* deterministic, so a non-stuttering NextBatch step is possible exactly   *)
(* when it is called and its result differs from the current state.        *)
NextBatchFair ==
    \/ []<>~(NextBatchCalled /\ NextBatchVars(NextBatchResult({})) # vars)
    \/ []<><<NextBatch>>_vars

(* The batching loop calls next_batch after every decode step while a     *)
(* batch runs and after each notification while idle (append notifies);    *)
(* every running entry ends by its stopping criteria; the clock advances.  *)
FairSpec ==
    /\ Spec
    /\ NextBatchFair
    /\ WF_vars(\E e \in active : Retire(e))
    /\ WF_vars(Tick)

-----------------------------------------------------------------------------
(* Properties.                                                             *)

TypeOK ==
    /\ entries \in Seq(Entry)
    /\ next_id \in 0..MaxEntries
    /\ next_batch_id \in 0..MaxEntries
    /\ last_seen_batch_size \in 0..(SizeLimit - 1)
    /\ checked_request_count \in 0..MaxEntries
    /\ buffer_contents_insufficient \in BOOLEAN
    /\ crashed \in BOOLEAN
    /\ closed \subseteq Ids /\ done \subseteq Ids /\ discarded \subseteq Ids
    /\ active \subseteq Entry
    /\ now \in 0..MaxTime
    /\ progress \in [Ids -> Nat]

(* The queue task never panics (the .expect("bug") when popping the chosen *)
(* entries): after a panic every append and next_batch call panics too.    *)
NoQueuePanic == ~crashed

(* The running batch never holds more than size_limit entries, however     *)
(* entries are added by next_batch and retired between calls.              *)
SizeBound == Cardinality(active) <= SizeLimit

(* The running batch's weight never exceeds weight_limit at any future     *)
(* decode step (the weight-bound invariant of the design), given what its  *)
(* entries have really generated: each has max_new_tokens - generated left *)
(* and truncate + generated tokens of context.                             *)
WeightBound ==
    LET tree == {<<e.max_new_tokens - progress[e.id], e.truncate + progress[e.id], e.id>> :
                   e \in active}
    IN  \A t \in {e.max_new_tokens : e \in active} : WeightAt(tree, t) <= WeightLimit

(* When next_batch emits a batch and prefill_weight_limit is set, the      *)
(* batch's prefill weight is within it.                                    *)
PrefillBound ==
    [][ LET B == active' \ active
        IN  B # {} /\ PrefillWeightLimit > 0 =>
              PrefillWeight(FoldSet(LAMBDA e, s : UpdateStats(s, e.truncate, 0),
                                    EmptyStats, B), Cardinality(B))
                <= PrefillWeightLimit ]_vars

(* The cutoff rule: a request admitted while an older one is left waiting  *)
(* (and not cancelled) arrived at most CUTOFF_DURATION after it.           *)
CutoffRule ==
    [][ \A b \in active' \ active, i \in DOMAIN entries' :
          LET a == entries'[i]
          IN  a.id \notin closed /\ a.queue_time < b.queue_time =>
                b.queue_time <= a.queue_time + CUTOFF_DURATION ]_vars

(* State implements RequestQueue (spec 4.2 step 7 and the exclusivity      *)
(* invariant of spec 8): append pushes at the back; each next_batch call   *)
(* removes only the entries it hands out and those whose client cancelled, *)
(* keeps the rest in order, hands out only entries its pass saw live, and  *)
(* keeps the batch within size_limit; a panic of the queue task is the     *)
(* abstract Crash.  It is about the drop indices of next_batch             *)
(* (queue.rs:378, 469) when clients cancel, also during the call.          *)
Abstract == INSTANCE RequestQueue WITH
    waiting  <- [i \in DOMAIN entries |-> entries[i].id],
    running  <- IdsOf(active),
    closed   <- closed,
    finished <- done,
    dropped  <- discarded,
    failed   <- crashed

RequestQueueSpec == Abstract!Spec

(* Every request that is queued is eventually batched.                     *)
EveryRequestBatched ==
    \A i \in Ids : (i \in WaitingIds) ~> (i \in IdsOf(active) \cup done)

=============================================================================
