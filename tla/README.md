# TLA+ models of the tgimagik router

This directory holds TLA+ models of the request router under `src/`. The
models are checked with TLC. `PROJECT.json` lists the components, runs,
mutants, source map, findings and hazards. This file explains them.

## 1. The system

| Part | Source | Role |
|---|---|---|
| Cost model | `router/src/queue.rs` 163-284 | `BatchType` trait with `FlashBatch` (total tokens) and `PaddedBatch` (max input/output, rectangular). It gives statistics, weights and `exceeds_weight`, a walk over the projected batch. |
| Queue state | `router/src/queue.rs` 119-151, 287-553 | `State`: the waiting `VecDeque`, the ids, the cursor `checked_request_count`, `last_seen_batch_size` and `buffer_contents_insufficient`. `append` and `next_batch` (the selection algorithm) act on it. |
| Queue actor | `router/src/queue.rs` 35-107, 555-566 | `Queue` handle and `queue_task`. Commands go over an unbounded channel and run one at a time. |
| Batching loop | `router/src/infer.rs` 350-466 | Waits on a notifier, asks the queue for batches, runs prefill/decode, and concatenates new batches onto the running one. |
| Backend calls | `router/src/infer.rs` 468-589 | `prefill`, `decode` and `filter_batch` against the sharded client. Errors go to `send_errors`. |
| Fan-out | `router/src/infer.rs` 591-757 | Sends tokens to each entry's channel and removes stopped or cancelled entries. |
| Infer facade | `router/src/infer.rs` 53-310 | Semaphore permit, validation, append and notify (`generate_stream`), and the collecting `generate`. |
| Chat template, errors | `router/src/infer.rs` | String templating and the error enum. |
| llama.cpp backend | `backends/llamacpp/src` | An FFI stub. `schedule` is unimplemented. |
| Benchmark | `benchmark/src/generation.rs` | A sequential driver of prefill/decode runs. |

**How the parts interact.** Clients call `generate_stream`, which appends an
`Entry` through the actor and notifies the batching loop. The loop hands the
running batch to `next_batch`, gets a new batch, and runs it. As each entry
stops, the fan-out removes it. A client cancels by dropping its receiver.
`next_batch` sees this as `response_tx.is_disconnected()`.

**What is hard.** Five things:
- the index arithmetic of `next_batch` (drops and pops out of a `VecDeque`);
- the cursor, which is kept across calls;
- the cutoff and the size floor, which decide who may overtake whom;
- cancellations that arrive at any time;
- the cost-model walks, which must bound the weight at every future decode step.

## 2. Modules

- **`CostModel.tla`** has one operator per trait method of each cost model.
  The names follow the code: `FlashUpdateStats`, `PaddedExceedsWeight`, and so on.
  - A projected batch (`tree`) is a set of triples `<<remaining output, input, id>>`, as in the code's `BTreeSet`.
  - `Descending` is `tree.iter().rev()`.
  - The module also defines the reference the walks are meant to decide. `FlashWeightAt`/`PaddedWeightAt` give the weight `t` decode steps ahead, counting only the members still running.
- **`MCCostModel.tla`** enumerates every batch of up to 3 members with lengths in `1..3`, several limits, and every `current_output_len`. It checks each walk against the reference (`Tiers`, the steps where a member ends). It also enumerates every vector of up to 3 mean log-probabilities for `BestOf`.
- **`BestOf.tla`** is the selection step of `generate_best_of`. `PickBest` is its loop: a fold over the responses that keeps a strictly greater mean. `BestIndex` starts that fold at `f32::MIN`, as the code does. `GenerateBestOf` removes the chosen response and returns it with the others.
  - A mean is an `f32`. It is never NaN, because every response ends with a token, so the `f32` values are totally ordered. They are modelled as integers in that order, with -inf below `f32::MIN`.
- **`Queue.tla`** models the queue and its environment. The cost model is a parameter: operator CONSTANTS bound in the cfg to the Flash or Padded operators, just as `B: BatchType` is a type parameter in the code.
  - **Variables.** The `State` fields, plus:
    - `crashed`: the queue task has panicked;
    - `closed`: ids whose receiver was dropped;
    - `active`: the running batch passed as `existing`;
    - `done` and `discarded`;
    - `now`: ticks of one second.
  - **`AppendEntry`** is `State::append`.
  - **`NextBatch`** is one whole call of `State::next_batch`.
    - `NextBatchResult` computes its outcome deterministically, following the code line by line. Its outcomes are `NothingNew`, `NoneChosen`, `TooSmall`, `Panic` and `Emit`.
    - `Visit` is one iteration of `'queue_loop`, and `Scan`/`ScanFrom` is the loop.
    - `RemoveDropped` is the drop of cancelled entries.
    - `PopChosen` pops the chosen entries with the `index - i` adjustment and the `.expect("bug")` panic.
    - The early return at the size limit changes nothing, so the step is disabled there (`NextBatchCalled`).
    - Clients run on other threads while the call runs. `LateDrops` lets a step close receivers after the front filter (`DropClosedFront`) and before the pass reads `is_disconnected`. So the pass can meet a dropped entry at the head of the queue, which the front filter alone would have removed.
  - **Environment actions.** `DropReceiver` (a client cancels), `Retire` (the fan-out removes a stopped entry from the running batch), `Decode` and `Tick`.
    - `Decode` is one decode step of the running batch: every running request has generated one more token (`progress`). The queue never learns of it: `Entry.generated_tokens`, which the projection at queue.rs:409 reads, is never written, so `NextBatch` ignores `progress`. `WeightBound` measures the running batch from where it really is.
  - **Refinement.** `Abstract == INSTANCE RequestQueue WITH ...` maps the detailed state onto the abstract queue:
    - `waiting` is the ids of `entries`, in order;
    - `running` is the ids of `active`;
    - `finished` is `done`, `dropped` is `discarded`, and `failed` is `crashed`.
    `RequestQueueSpec == Abstract!Spec` is checked as a temporal property. Without cancellations it says little more than "append at the tail" and the size bound, so it is checked where its content matters: with clients cancelling, in `queue_lost`, where the code breaks it.
- **`RequestQueue.tla`** is the abstract specification of what the queue promises the batching loop, whatever `next_batch` chooses:
  - requests wait in arrival order (`Enqueue`);
  - one `Schedule` step hands out live requests within the size limit and drops cancelled ones. Every other request stays, in order;
  - clients may cancel at any time, including inside a call (`Cancel`);
  - `Finish` retires a running request;
  - `Crash` loses what the task held and stops everything.
- **`MCQueue.tla`** supplies the request shapes and the padded empty statistics for the cfgs.
- **`BatchingLoop.tla`** models `infer.rs`: the facade, the batching task, the backend calls and the fan-out.
  - **Variables.** Per request slot: `status` (idle, overloaded, invalid, accepted), `rx` (the receiver: none, open, dropped), `need` (`max_new_tokens`), `gen` (tokens generated) and `sent` (messages sent on `response_tx`). Shared: `queue`, `notified` (the `Notify` permit). The task's own: `pc` (which await it is at), `entries`, `newEntries`, `cache` (`cached_batch`), `newCache`, `waiting_tokens`, `health`, `panicked`. `result` is what `generate` returned to each caller.
  - **Actions.** `generate_stream` is two steps, split at `validate().await`. `AcquirePermit` is `try_acquire_owned`: it gives Overloaded when every permit is held, else the call holds a permit while it validates (`validating`). `GenerateStream` is the rest: a validation error releases the permit, or the request is appended and `notify_one` is called. `Permits` counts both the calls validating and the open streams. `DropStream` is a `generate_stream` caller dropping its stream. `InferGenerate` is `generate`: once its stream ends, it returns Ok after End, the error after Err, or `IncompleteGeneration` when the sender is gone with no End. `Held` is the set of senders still alive. A panic of the task drops its future and every sender in its entries maps. The task's steps end at its awaits: `Wait`, `Poll` (outer `next_batch`), `Prefill`, `Extend` (inner `next_batch` with `min_size` and the budget), `PrefillNew` and `Decode`. Prefill, PrefillNew and Decode each have a success and an error disjunct. `FilterFails` gives the outcomes of the client calls inside `filter_batch`. They fail only when the constant `BackendFilterFails` is TRUE, and the unwrap then panics the task.
  - **Spec-modelled parts.** `infer.rs` calls `queue.next_batch(min_size, max_size, prefill_tokens, budget)`, which `queue.rs` does not have. So the queue is abstract (`TakeBatch`: the longest live FIFO prefix within size and budget, or nothing below `min_size`). The server is abstract too (`Generate`, `ServerNext`: one token per request per call).
  - `waiting_tokens` only matters compared with `max_waiting_tokens`, so it is capped there.
- **`StreamProtocol.tla`** is the abstract specification of what the facade promises a caller:
  - `Submit` fails with Overloaded exactly when every permit is held, by an open stream or by a call still validating. `Admit` then rejects the request or opens its stream. An abstract spec that counted only open streams is broken by the code: two calls validating make a third Overloaded with no stream open.
  - `Deliver` is one server step. It gives some open streams one allowed message each: Token, End after exactly `max_new_tokens` messages, or Err, and nothing after End or Err;
  - `Cancel` drops a stream;
  - `Return` is `generate` returning Ok or the error, never `IncompleteGeneration`.
  `BatchingLoop` instantiates it with the identity mapping on `status`, `rx`, `need`, `sent` and `result`, and `StreamSpec` is its `Spec`.
- **`MCBatchingLoop.tla`** gives three interchangeable slots as model values.

## 3. Runs

**Bounds for the queue runs.** Unless a cfg says otherwise:
- 3 requests (`MaxEntries`) and clock up to 3 s (`MaxTime`);
- `CUTOFF_DURATION` = `MAX_WAITING_DURATION` = 1 tick;
- size limit 2, so the existing batch plus one new entry reaches it, and the scan's break at the size limit fires;
- three request shapes. One of them needs the btree analysis, so heavy entries are skipped with a cutoff. Two small ones weigh less than half the limit, so the size floor (`TooSmall`) fires.

Every `next_batch` outcome is reached by these runs; `Panic` is reached only with cancellations.

| Run | Result | What it shows |
|---|---|---|
| `exceeds_flash` | pass | `FlashBatch::exceeds_weight` is exactly the reference over all batches of ≤3 members. `generate_best_of` returns a response of highest mean and every other response once (`BestOfPicksHighestMean`, spec §4.5). This holds also when means are -inf, below the `f32::MIN` start, and when means tie. About 1,008,000 states, 60 s. |
| `exceeds_padded` | **violation** | `PaddedBatch::exceeds_weight` skips members that tie on remaining output. Two members (1,1) and (1,2) weigh 18 but the walk computes 9. |
| `queue_flash`, `queue_padded` | pass | Without cancellations, the size and prefill limits hold across the early return, the scan's break and the pops (`SizeBound`, `PrefillBound`). About 58,000 and 47,000 states, 7 s each. |
| `queue_cancel` | pass | With cancellations at any time, including during a `next_batch` call between its front filter and its pass, the size and prefill limits still hold. About 504,000 states, 40 s. Deadlock is not checked: after a panic of the queue task, no step remains. |
| `queue_live` | pass | Every queued request is eventually batched (`EveryRequestBatched`). Here the size limit is 3 and the clock stops at 2 s. |
| `queue_weight` | **violation** | The batch's projected weight exceeds `weight_limit` (bug at queue.rs:393). The run has a second cause. With the check at :393 repaired in a copy, TLC still finds a violation once a running request has decoded a token, because `generated_tokens` (queue.rs:409) is never advanced. With no `Decode` step, the repaired copy passes. |
| `queue_cutoff` | **violation** | A request overtakes an older, skipped one by 2 s (the cursor at queue.rs:477). |
| `queue_lost` | **violation** | Once clients cancel, `Queue` does not implement `RequestQueue` (`RequestQueueSpec`). The drop index at queue.rs:378 points one past each cancelled entry. With entries [0, 1, 2] and the clients of 0 and 2 cancelling during the call, the call discards the live request 1 and hands out the cancelled request 2. |
| `queue_panic` | **violation** | The same off-by-one makes `.expect("bug")` panic the queue task. |
| `loop` | pass | Overload, validation failures, cancellations and prefill/decode errors can happen at every await. Under all of them:<br>• The facade, task and fan-out implement `StreamProtocol` (`StreamSpec`).<br>• The task never panics (`BatchingTaskAlive`).<br>• The running batch plus a new one never exceeds `max_batch_size`, so `max_size - batch_size` (infer.rs:403, a `usize` subtraction) never underflows (`BatchWithinMaxSize`).<br>• After a prefill or decode, no dropped request stays in the server's cache, despite `filter_batch`'s size shortcut (`CancelPrunesCache`).<br>• Every accepted request whose client keeps its stream gets End or Err, so `notify_one` loses no wake-up (`EveryRequestAnswered`).<br>About 210,000 states, 110 s. |
| `loop_filter_panic` | **violation** | With failing client calls in `filter_batch`: a request is batched, its client cancels, and the prefill's `filter_batch` calls `clear_cache`, which fails. The unwrap panics the batching task. Spec §7 says the loop never dies on a per-batch error. |

**Bounds for the loop runs.**
- 3 slots, 2 permits, `max_new_tokens` in {1, 2};
- batch size 2 and a total token budget of 4, so a second batch can join a running one;
- `max_waiting_tokens` 2 and a ratio of 1, so both `min_size` branches are taken.

Every action and every success and error disjunct fires. Deadlock is not checked: once the slots are used up, the task waits on its notifier forever, which is the server's idle state.

**Mutants.** Each property of a passing run is broken by a plausible bug in
the code it is about:
- `>` for `>=` at the size limit;
- the prefill weight computed from the statistics before the entry;
- `<` for `<=` in the flash walk;
- the best_of search started at 0.0;
- a scan that stops one entry early.
- stopped entries kept in `entries` (the Err after an End);
- `waiting_tokens` reset to 0;
- a new batch cached without extending `entries`;
- `filter_batch` never retaining;
- the last token sent as an intermediate;
- an extension sized by `max_batch_size` alone, not by what the running batch leaves.

`StreamSpec`'s mutant, stopped entries kept in `entries`, breaks it through an Err after an End.

**Fairness.** `FairSpec` assumes three things:
- *Weak fairness of `NextBatch`.* The batching loop calls `next_batch` after every decode step and on every notification. `NextBatchFair` spells out WF with the enabling condition made explicit, which TLC evaluates far faster than `ENABLED`.
- *Weak fairness of `Retire`.* Each running request ends within its `max_new_tokens`.
- *Weak fairness of `Tick`.* The clock advances.

`BatchingLoop`'s `FairSpec` assumes weak fairness of each step of the
batching task. The task is a spawned tokio task that only suspends at its
awaits, and the server is assumed to answer every call. The clients get no
fairness: they may never submit or drop. `loop` shows that the task,
run this way, reaches every queued request. That justifies the first
assumption of `Queue`'s `FairSpec`.

## 4. Not modelled, and the plan

- **Limits of `queue_live`.** The run has finitely many arrivals, and
  `Retire` is weakly fair, so the running batch always drains, and an empty
  batch admits the head of the queue. The size floor, the
  `buffer_contents_insufficient` flag and the age waiver can delay a request
  but never starve it at these bounds. The liveness check says nothing about
  an endless stream of arrivals.
- **Early stops.** The abstract server never stops a request before
  `max_new_tokens` (no EOS, no stop sequences). So "End after exactly
  `max_new_tokens` tokens" in `StreamProtocol` reflects the server model,
  not a guarantee of the router. Prefill messages and multi-token
  (speculative) generations are folded into one message per generation.
- **A caller dropped during validation.** The future is dropped and its
  permit is released with no request made. For the router's state this is
  the same as a validation error, so it is not a separate action.
- **Batching loop against the real queue.** `BatchingLoop` uses an abstract
  queue, because the call in `infer.rs` does not match `queue.rs`. It does not
  compose with `Queue`.
- **Facade.** `generate_best_of` runs `k` `generate` calls through
  `try_join_all`, and the first error cancels the rest. The calls are not
  modelled as a group: each is a modelled request, and a cancelled one is a
  dropped stream. Its selection step is modelled (`BestOf`). The means the
  check draws from leave out one value: a mean equal to `f32::MIN` itself.
  After an earlier -inf, such a mean is not preferred, because `>` fails at
  the start value. TLC shows this with means <<-inf, f32::MIN>>. A mean of
  per-token log-probabilities does not come near -3.4e38 unless it is -inf.
  Validation (`validate_best_of`, `validate`) is not in this repository. It is
  a nondeterministic outcome.
- **Cutoff in the refinement.** `RequestQueue` does not state the bounded
  bypass (`CUTOFF_DURATION`); `CutoffRule` checks it separately, and
  `queue_cutoff` shows the code breaks it.
- **Not modelled at all.**
  - chat templating and the error enum: no state;
  - the llama.cpp backend: `new` spawns `scheduler_loop` and joins it at once, so nothing runs concurrently. The loop makes one fixed FFI call and prints the result, and `schedule` always returns an error. `backend.rs` calls a `generate` that the cxx bridge in `lib.rs` has commented out, so the crate does not build as written;
  - the benchmark driver: sequential I/O.
