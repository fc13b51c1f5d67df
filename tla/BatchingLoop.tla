---------------------------- MODULE BatchingLoop ----------------------------
(***************************************************************************)
(* The batching task of router/src/infer.rs with the parts it talks to:    *)
(* clients calling Infer::generate_stream (semaphore permit, validation,   *)
(* append, notify_one) and dropping their stream; the batching_task loop   *)
(* with its prefill, decode, filter_batch and the response fan-out        *)
(* (filter_send_generations, send_responses, send_errors).                 *)
(*                                                                         *)
(* infer.rs calls queue.next_batch(min_size, max_size, prefill_tokens,     *)
(* token_budget), which queue.rs does not provide; that queue and the      *)
(* model server behind the sharded client are modelled from the spec      *)
(* (sections 4.2 and 4.3): the queue hands out the longest FIFO prefix of  *)
(* live requests that fits max_size and the token budget, or nothing when  *)
(* it is shorter than min_size; the server generates one token per cached  *)
(* request and keeps those not finished.                                   *)
(*                                                                         *)
(* Every await of the batching task (notified, next_batch, prefill,        *)
(* decode) ends a step, so clients act between any two of them.            *)
(***************************************************************************)
EXTENDS Integers, Sequences, FiniteSets, SequencesExt, FiniteSetsExt

CONSTANTS
    Requests,             \* request slots, each submitted at most once
    MaxNewTokens,         \* the max_new_tokens a valid request may have
    MaxConcurrent,        \* max_concurrent_requests (semaphore permits)
    MaxBatchSize,         \* max_batch_size
    MaxBatchTotalTokens,  \* max_batch_total_tokens
    MaxWaitingTokens,     \* max_waiting_tokens
    RatioNum, RatioDen,   \* waiting_served_ratio = RatioNum / RatioDen
    BackendFilterFails    \* the client's filter_batch/clear_cache may fail

ASSUME MaxNewTokens \subseteq (Nat \ {0}) /\ MaxConcurrent \in Nat \ {0}
ASSUME MaxBatchSize \in Nat \ {0} /\ MaxWaitingTokens \in Nat \ {0}
ASSUME \A n \in MaxNewTokens : n <= MaxBatchTotalTokens

Terminal == {"End", "Err"}
Msg == {"Token"} \cup Terminal

VARIABLES
    status,          \* per slot: "idle", "validating", "overloaded", "invalid", "accepted"
    rx,              \* per slot: the response receiver "none", "open", "dropped"
    need,            \* per slot: stopping_parameters.max_new_tokens
    gen,             \* per slot: tokens the server has generated
    sent,            \* per slot: messages sent on response_tx
    queue,           \* the waiting queue (request slots, FIFO)
    notified,        \* the permit stored in Shared.batching_task (Notify)
    pc,              \* where batching_task is
    entries,         \* the running batch's entries map (its keys)
    newEntries,      \* new_entries of a batch being added
    cache,           \* the server's cached batch (cached_batch), {} = None
    newCache,        \* new_cached_batch pushed onto batches, {} = none
    waiting_tokens,  \* waiting_tokens, capped at MaxWaitingTokens
    health,          \* generation_health
    panicked,        \* the batching task has panicked
    result           \* per slot: what generate returned

vars == <<status, rx, need, gen, sent, queue, notified, pc, entries, newEntries,
          cache, newCache, waiting_tokens, health, panicked, result>>

PCs == {"wait", "poll", "prefill", "extend", "prefillNew", "decode"}

-----------------------------------------------------------------------------
(* Helpers.                                                                *)

(* Permits held: by a generate_stream call awaiting its validation, and by *)
(* every stream its caller still holds.                                    *)
Permits == {r \in Requests : status[r] = "validating" \/ rx[r] = "open"}

SumNeed(S) == MapThenSumSet(LAMBDA r : need[r], S)

\* u32::saturating_sub.
SatSub(a, b) == IF a >= b THEN a - b ELSE 0

(* The queue's next_batch(min_size, max_size, _, token_budget) (spec       *)
(* modelled): the live requests in FIFO order, the longest prefix within   *)
(* max_size and the budget, nothing when that is shorter than min_size.   *)
TakeBatch(min_size, max_size, budget) ==
    LET live == SelectSeq(queue, LAMBDA r : rx[r] = "open")
        Fits(k) == k <= max_size /\ SumNeed(ToSet(SubSeq(live, 1, k))) <= budget
        k == Max({j \in 0..Len(live) : Fits(j)})
    IN  IF k = 0 \/ k < min_size THEN <<>> ELSE SubSeq(live, 1, k)

\* What the queue keeps after handing out batch b.
QueueAfter(b) ==
    SelectSeq(queue, LAMBDA r : rx[r] = "open" /\ r \notin ToSet(b))

\* The server generates one token for every request of the batches B.
Generate(B) == [r \in Requests |-> IF r \in B THEN gen[r] + 1 ELSE gen[r]]

\* The server's next cached batch: the requests of B not finished.
ServerNext(B, g) == {r \in B : g[r] < need[r]}

\* Mutant: the last generation is sent as an intermediate token.
RespondNoEnd(r, g) ==
    IF rx[r] # "open" THEN sent[r] ELSE Append(sent[r], "Token")

(* send_responses for the generation of r: nothing when the receiver is    *)
(* gone, else End with the last token or an intermediate token.            *)
Respond(r, g) ==
    IF rx[r] # "open" THEN sent[r]
    ELSE Append(sent[r], IF g[r] = need[r] THEN "End" ELSE "Token")

\* Mutant: stopped entries are not removed from the entries map.
FilterSendGenerationsKeep(B, ents, g) ==
    [ents  |-> ents,
     sent  |-> [r \in Requests |-> IF r \in B /\ r \in ents THEN Respond(r, g) ELSE sent[r]],
     panic |-> ~(B \subseteq ents)]

(* filter_send_generations: a generation whose id is not in entries hits   *)
(* the expect; an entry stops when its receiver is gone (send_responses    *)
(* returns true, or its send fails) or when the generation is its last.    *)
FilterSendGenerations(B, ents, g) ==
    [ents  |-> ents \ {r \in B : rx[r] # "open" \/ g[r] = need[r]},
     sent  |-> [r \in Requests |-> IF r \in B /\ r \in ents THEN Respond(r, g) ELSE sent[r]],
     panic |-> ~(B \subseteq ents)]

\* Mutant: filter_batch never retains, the server keeps its batch.
FilterBatchNoRetain(next, ents) == next

(* filter_batch: None stays None; a batch of the size of entries is kept   *)
(* as is; otherwise it keeps the ids in entries, and an empty result is    *)
(* cleared from the server's cache (None).                                 *)
FilterBatch(next, ents) ==
    IF next = {} \/ Cardinality(next) = Cardinality(ents) THEN next
    ELSE next \cap ents

(* The outcomes of the client calls in filter_batch: they are made only   *)
(* when the batch is not None and its size differs from entries, and a     *)
(* failure hits the unwrap and panics the batching task.                   *)
FilterFails(next, ents) ==
    IF BackendFilterFails /\ next # {} /\ Cardinality(next) # Cardinality(ents)
    THEN BOOLEAN ELSE {FALSE}

\* send_errors: every entry is drained and sent an Err if its receiver lives.
SendErrors(ents) ==
    [r \in Requests |-> IF r \in ents /\ rx[r] = "open" THEN Append(sent[r], "Err")
                        ELSE sent[r]]

\* Mutant: the counter restarts at 0.
WaitingTokensResetZero == 0

\* waiting_tokens = 1 after every prefill.
WaitingTokensReset == 1

-----------------------------------------------------------------------------
(* Infer::new: nothing submitted, the batching task waiting.               *)
Init ==
    /\ status = [r \in Requests |-> "idle"]
    /\ rx = [r \in Requests |-> "none"]
    /\ need = [r \in Requests |-> 0]
    /\ gen = [r \in Requests |-> 0]
    /\ sent = [r \in Requests |-> <<>>]
    /\ queue = <<>>
    /\ notified = FALSE
    /\ pc = "wait"
    /\ entries = {} /\ newEntries = {}
    /\ cache = {} /\ newCache = {}
    /\ waiting_tokens = 1
    /\ health \in BOOLEAN   \* the flag is created by the caller
    /\ panicked = FALSE
    /\ result = [r \in Requests |-> "none"]

BatchVars == <<pc, entries, newEntries, cache, newCache, waiting_tokens, health, panicked>>

(* Infer::generate_stream up to validate().await: try_acquire_owned fails  *)
(* fast when every permit is held (Overloaded); otherwise the permit is    *)
(* held while the request is validated.                                    *)
AcquirePermit(r) ==
    /\ status[r] = "idle"
    /\ status' = [status EXCEPT ![r] = IF Cardinality(Permits) >= MaxConcurrent
                                       THEN "overloaded" ELSE "validating"]
    /\ UNCHANGED <<rx, need, gen, sent, queue, notified, result, BatchVars>>

(* Infer::generate_stream after validation: an error drops the permit;     *)
(* otherwise the request is appended with a new response channel,          *)
(* notify_one is called, and the permit moves into the returned stream.    *)
GenerateStream(r) ==
    /\ status[r] = "validating"
    /\ \/ /\ status' = [status EXCEPT ![r] = "invalid"]
          /\ UNCHANGED <<rx, need, queue, notified>>
       \/ /\ \E n \in MaxNewTokens :
                /\ status' = [status EXCEPT ![r] = "accepted"]
                /\ rx' = [rx EXCEPT ![r] = "open"]
                /\ need' = [need EXCEPT ![r] = n]
                /\ queue' = Append(queue, r)
                /\ notified' = TRUE   \* notify_one stores a permit
    /\ UNCHANGED <<gen, sent, result, BatchVars>>

(* The client drops its stream (having read the end, or cancelling): the  *)
(* receiver closes and the semaphore permit is released.                   *)
DropStream(r) ==
    /\ rx[r] = "open"
    /\ rx' = [rx EXCEPT ![r] = "dropped"]
    /\ UNCHANGED <<result, status, need, gen, sent, queue, notified, BatchVars>>

(* The response senders still alive: those of the queued entries and, as  *)
(* long as the batching task runs, those of its entries maps.  A panic     *)
(* drops the task's future and with it every sender it holds.              *)
Held == ToSet(queue) \cup IF panicked THEN {} ELSE entries \cup newEntries

Finished(r) == sent[r] # <<>> /\ Last(sent[r]) \in Terminal

(* Infer::generate reads the stream to its end: the first Err is returned  *)
(* (response?), an End gives the response, and a stream that ends with no  *)
(* End is IncompleteGeneration.  Returning drops the stream and the permit.*)
InferGenerate(r) ==
    /\ rx[r] = "open"
    /\ Finished(r) \/ r \notin Held
    /\ result' = [result EXCEPT ![r] =
                    IF ~Finished(r) THEN "incomplete"
                    ELSE IF Last(sent[r]) = "End" THEN "ok" ELSE "error"]
    /\ rx' = [rx EXCEPT ![r] = "dropped"]
    /\ UNCHANGED <<status, need, gen, sent, queue, notified, BatchVars>>

\* shared.batching_task.notified().await
Wait ==
    /\ ~panicked /\ pc = "wait" /\ notified
    /\ notified' = FALSE
    /\ pc' = "poll"
    /\ UNCHANGED <<result, status, rx, need, gen, sent, queue, entries, newEntries, cache,
                   newCache, waiting_tokens, health, panicked>>

(* The outer while: queue.next_batch(None, max_batch_size, _,              *)
(* max_batch_total_tokens); None sends the task back to waiting.           *)
Poll ==
    LET b == TakeBatch(0, MaxBatchSize, MaxBatchTotalTokens)
    IN  /\ ~panicked /\ pc = "poll"
        /\ queue' = QueueAfter(b)
        /\ IF b = <<>> THEN pc' = "wait" /\ UNCHANGED entries
           ELSE pc' = "prefill" /\ entries' = ToSet(b)
        /\ UNCHANGED <<result, status, rx, need, gen, sent, notified, newEntries, cache,
                       newCache, waiting_tokens, health, panicked>>

(* prefill(batch, entries) of a batch from the outer while.  On an error   *)
(* the batch is cleared and every entry gets the error.  When no cached    *)
(* batch is left the inner loop is skipped and entries goes out of scope.  *)
Prefill ==
    /\ ~panicked /\ pc = "prefill"
    /\ waiting_tokens' = WaitingTokensReset
    /\ \/ LET g == Generate(entries)
              f == FilterSendGenerations(entries, entries, g)
              c == FilterBatch(ServerNext(entries, g), f.ents)
          IN  /\ gen' = g /\ sent' = f.sent
              /\ \E fails \in FilterFails(ServerNext(entries, g), f.ents) :
                     panicked' = (f.panic \/ fails)
              /\ cache' = c
              /\ entries' = IF c = {} THEN {} ELSE f.ents
              /\ pc' = IF c = {} THEN "poll" ELSE "extend"
              /\ health' = TRUE
       \/ /\ sent' = SendErrors(entries)
          /\ entries' = {} /\ cache' = {}
          /\ pc' = "poll"
          /\ health' = FALSE
          /\ UNCHANGED <<gen, panicked>>
    /\ UNCHANGED <<result, status, rx, need, queue, notified, newEntries, newCache>>

\* Mutant: max_size is max_batch_size, not what the running batch leaves.
ExtendFullSize ==
    LET min_size == IF waiting_tokens >= MaxWaitingTokens THEN 0
                    ELSE (Cardinality(cache) * RatioNum) \div RatioDen
        b == TakeBatch(min_size, MaxBatchSize, SatSub(MaxBatchTotalTokens, SumNeed(cache)))
    IN  /\ ~panicked /\ pc = "extend"
        /\ queue' = QueueAfter(b)
        /\ IF b = <<>> THEN pc' = "decode" /\ UNCHANGED newEntries
           ELSE pc' = "prefillNew" /\ newEntries' = ToSet(b)
        /\ UNCHANGED <<result, status, rx, need, gen, sent, notified, entries, cache,
                       newCache, waiting_tokens, health, panicked>>

(* The inner loop asks for a batch to add: min_size is None once           *)
(* waiting_tokens reaches max_waiting_tokens, else floor(size * ratio);    *)
(* the budget is max_batch_total_tokens.saturating_sub(max_tokens).        *)
Extend ==
    LET min_size == IF waiting_tokens >= MaxWaitingTokens THEN 0
                    ELSE (Cardinality(cache) * RatioNum) \div RatioDen
        b == TakeBatch(min_size, MaxBatchSize - Cardinality(cache),
                       SatSub(MaxBatchTotalTokens, SumNeed(cache)))
    IN  /\ ~panicked /\ pc = "extend"
        /\ queue' = QueueAfter(b)
        /\ IF b = <<>> THEN pc' = "decode" /\ UNCHANGED newEntries
           ELSE pc' = "prefillNew" /\ newEntries' = ToSet(b)
        /\ UNCHANGED <<result, status, rx, need, gen, sent, notified, entries, cache,
                       newCache, waiting_tokens, health, panicked>>

\* Mutant: the new batch is pushed onto batches without extending entries.
PrefillNewNoExtend ==
    /\ ~panicked /\ pc = "prefillNew"
    /\ waiting_tokens' = WaitingTokensReset
    /\ \/ LET g == Generate(newEntries)
              f == FilterSendGenerations(newEntries, newEntries, g)
              c == FilterBatch(ServerNext(newEntries, g), f.ents)
          IN  /\ gen' = g /\ sent' = f.sent
              /\ \E fails \in FilterFails(ServerNext(newEntries, g), f.ents) :
                     panicked' = (f.panic \/ fails)
              /\ newCache' = c
              /\ UNCHANGED entries
              /\ health' = TRUE
       \/ /\ sent' = SendErrors(newEntries)
          /\ health' = FALSE
          /\ UNCHANGED <<gen, panicked, newCache, entries>>
    /\ newEntries' = {}
    /\ pc' = "decode"
    /\ UNCHANGED <<result, status, rx, need, queue, notified, cache>>

(* prefill(new_batch, new_entries): on success with a cached batch left,   *)
(* entries is extended and the batch pushed onto batches; on an error the *)
(* new batch is cleared and its entries get the error; the running batch  *)
(* goes on to decode either way.                                           *)
PrefillNew ==
    /\ ~panicked /\ pc = "prefillNew"
    /\ waiting_tokens' = WaitingTokensReset
    /\ \/ LET g == Generate(newEntries)
              f == FilterSendGenerations(newEntries, newEntries, g)
              c == FilterBatch(ServerNext(newEntries, g), f.ents)
          IN  /\ gen' = g /\ sent' = f.sent
              /\ \E fails \in FilterFails(ServerNext(newEntries, g), f.ents) :
                     panicked' = (f.panic \/ fails)
              /\ newCache' = c
              /\ entries' = IF c = {} THEN entries ELSE entries \cup f.ents
              /\ health' = TRUE
       \/ /\ sent' = SendErrors(newEntries)
          /\ health' = FALSE
          /\ UNCHANGED <<gen, panicked, newCache, entries>>
    /\ newEntries' = {}
    /\ pc' = "decode"
    /\ UNCHANGED <<result, status, rx, need, queue, notified, cache>>

(* decode(batches, entries) over the running and the added batch.  On an   *)
(* error every batch is cleared and every entry gets the error.  When no   *)
(* cached batch is left the inner loop ends and the outer while polls.     *)
Decode ==
    LET B == cache \cup newCache
    IN  /\ ~panicked /\ pc = "decode"
        /\ waiting_tokens' = IF waiting_tokens < MaxWaitingTokens
                             THEN waiting_tokens + 1 ELSE waiting_tokens
        /\ newCache' = {}
        /\ \/ LET g == Generate(B)
                  f == FilterSendGenerations(B, entries, g)
                  c == FilterBatch(ServerNext(B, g), f.ents)
              IN  /\ gen' = g /\ sent' = f.sent
                  /\ \E fails \in FilterFails(ServerNext(B, g), f.ents) :
                         panicked' = (f.panic \/ fails)
                  /\ cache' = c
                  /\ entries' = IF c = {} THEN {} ELSE f.ents
                  /\ pc' = IF c = {} THEN "poll" ELSE "extend"
                  /\ health' = TRUE
           \/ /\ sent' = SendErrors(entries)
              /\ entries' = {} /\ cache' = {}
              /\ pc' = "poll"
              /\ health' = FALSE
              /\ UNCHANGED <<gen, panicked>>
        /\ UNCHANGED <<result, status, rx, need, queue, notified, newEntries>>

BatchingTask == Wait \/ Poll \/ Prefill \/ Extend \/ PrefillNew \/ Decode

Next ==
    \/ \E r \in Requests :
          AcquirePermit(r) \/ GenerateStream(r) \/ DropStream(r) \/ InferGenerate(r)
    \/ BatchingTask

Spec == Init /\ [][Next]_vars

(* The batching task runs whenever it can: it is a spawned task that only  *)
(* suspends on its awaits, and the server answers every call.              *)
FairSpec ==
    /\ Spec
    /\ WF_vars(Wait) /\ WF_vars(Poll) /\ WF_vars(Prefill)
    /\ WF_vars(Extend) /\ WF_vars(PrefillNew) /\ WF_vars(Decode)

-----------------------------------------------------------------------------
(* Properties.                                                             *)

TypeOK ==
    /\ status \in [Requests -> {"idle", "validating", "overloaded", "invalid", "accepted"}]
    /\ rx \in [Requests -> {"none", "open", "dropped"}]
    /\ need \in [Requests -> {0} \cup MaxNewTokens]
    /\ \A r \in Requests : sent[r] \in Seq(Msg) /\ gen[r] \in Nat
    /\ pc \in PCs
    /\ entries \cup newEntries \cup cache \cup newCache \subseteq Requests
    /\ waiting_tokens \in 1..MaxWaitingTokens
    /\ notified \in BOOLEAN /\ health \in BOOLEAN /\ panicked \in BOOLEAN
    /\ result \in [Requests -> {"none", "ok", "error", "incomplete"}]

(* The facade, the batching task and the fan-out together implement     *)
(* StreamProtocol: Overloaded exactly when every permit is held, by open  *)
(* streams and by calls still validating (try_acquire_owned before         *)
(* validate().await, infer.rs:113-121); on every                          *)
(* receiver Token* then End after max_new_tokens tokens, or an Err, and   *)
(* nothing after either; generate never gets IncompleteGeneration.         *)
Stream == INSTANCE StreamProtocol

StreamSpec == Stream!Spec

(* The requests the task holds for one batch, the running entries and a  *)
(* new batch being added, never exceed max_batch_size, nor does the        *)
(* server's cached batch. So max_size - batch_size (infer.rs:403), a usize *)
(* subtraction, never underflows, although receivers dropped since the     *)
(* last filter still count in batch.size.                                  *)
BatchWithinMaxSize ==
    /\ Cardinality(entries \cup newEntries) <= MaxBatchSize
    /\ Cardinality(cache \cup newCache) <= MaxBatchSize

(* The batching task never dies (spec section 7: the loop never dies on a *)
(* per-batch error): neither the expects of filter_send_generations nor   *)
(* the unwraps on the client calls of filter_batch fire.                  *)
BatchingTaskAlive == ~panicked

(* Cancellation prunes the cache: after a prefill or a decode, no request  *)
(* whose receiver was dropped before it is still in the server's cached    *)
(* batch (filter_batch retains only the entries left).                     *)
CancelPrunesCache ==
    [][ (pc \in {"prefill", "decode"} /\ pc' # pc)
          => (\A r \in cache' : rx[r] = "open") ]_vars

(* Every accepted request whose client keeps its stream eventually gets    *)
(* its End or an Err.                                                       *)
EveryRequestAnswered ==
    \A r \in Requests :
        status[r] = "accepted"
          ~> (sent[r] # <<>> /\ Last(sent[r]) \in Terminal) \/ rx[r] = "dropped"

=============================================================================
