# A TLA+ verification project for ruLLM

ruLLM is an LLM inference and training library in Rust with its servers. This
directory models its control: who gets which memory and when, which text a
cached state stands for, what a client is told, and what survives a failure or
a crash. Tensor arithmetic is outside; a tensor, where it matters, is the
*history* it was computed from, so a wrong page, a stale row or a wrong slice
shows as a wrong history.

Paths such as `continuous_batch.rs` are relative to the crate's `src/`
directory. `PROJECT.json` maps every definition to its lines, lists the hazards
of the code at theirs, and names the properties that would catch them.

## 1. The system and its parts

| Component | State | Operations | Module |
|---|---|---|---|
| Paged KV manager, `paged_kv.rs` | free pages, reference counts, block tables, reservations, prefix index, eviction queue | create (with a prefix), begin / extend / commit / partly commit / cancel an append, register, remove, switch caching | `PagedKvOps`, `PagedKv` |
| Continuous-batch scheduler, `continuous_batch.rs`, `continuous_batch/` | queues, phases, one batch in flight, speculative turns, samplers | submit, schedule, complete, verify, fail, cancel, pop, reserve lookahead | `BatchScheduler`; promise in `GenerationService` |
| Fenced scheduler, `continuous_batch/fenced.rs` | a fence, a quarantine flag | launch, poll, complete, roll back | `FencedScheduler` |
| Prefix executor, active swap, `continuous_batch/active_swap.rs`, `batch_prefix.rs` | host copies, admission ceiling, remote hand-offs | swap out / in, resume, relieve, import | `PrefixExecutor` |
| Rotary cache of the paged engine, `paged_engine/rotary.rs` | context per slot and per request | step, recompute, roll back | `PagedRotary` |
| Replica workers, `runtime/worker.rs` | thread, bounded queue, permits, flags; result cells and wakers | submit, wait, poll, cancel, drop, shut down | `ReplicaPool` |
| Tiered prefix cache, `prefix_cache.rs` | device, host and disk entries with byte budgets | find, insert, demote, evict, restore, reopen | `TieredPrefixCache` |
| Prefix transfer, `prefix_transfer.rs` | sharded bundles, manifest | export, merge, slice | `PrefixTransfer` |
| Disaggregated prefill, `disaggregated/` | tasks, connections, a service with its pool | submit, poll, cancel, serve | `RemotePrefill` |
| Batched model caches, `batch_kv.rs`, `qwen3/draft/batching.rs`, `deepseek2/mtp/batching.rs`, `causal_draft_batch/`, `parallel_batch.rs` | dense, hybrid and paged rows, verified blocks, pending rows | prefill, decode, speculate, retain, capture, restore | `SpeculativeBatch` with `DraftBatch`, `MtpBatch`, `CausalBatch`; `ParallelBatch` |
| Single-session caches, `qwen3/draft.rs`, `deepseek2/mtp.rs`, `llama.rs`, `ruda_inference.rs` | target and drafter cache, features, buffers | forward, accept, roll back, record, fork, grow | `DraftedCache`, `MtpCache`, `LlamaCache` |
| Ranks, `llama/parallel.rs`, `*/parallel.rs` | per-rank caches, collectives | forward, record, restore | `RankGroup`, `RankLoading` |
| Generation, `generation.rs`, `generation/` | session, stop matcher, sampler, record | advance, speculate, capture, restore | `GenerationSession`, `SpeculativeLoop`, `GenerationOps`, `TokenSampling` |
| OpenAI-compatible server, `openai_server.rs` | engine thread, connections, jobs | accept, step, stream, fail, drop | `OpenAiServer`, `StopStream` |
| HTTP servers, `serving.rs`, `serving/` | handlers, worker loop, bounded channels | admit, step, stream, cancel | `HttpServing` |
| Tool calls and Responses, `serving/tool_calls.rs`, `serving/responses.rs` | streaming parser, items, events | push, finish, replay | `XmlArguments`, `ResponsesStream`, `ResponsesInput` |
| Constrained decoding, `serving/structured/` | tool grammar, matcher | mask, consume, parse | `StructuredDecoding` |
| Server binary, `bin/ruda-serve*` | options, roles, identities | check, dispatch, launch | `ServerLaunch` |
| Training, `training/` | loader, optimizer step, checkpoint directories, replicas, rollouts | train, save, resume, score | `SftTraining`, `DataParallel`, `PolicyScoring` |
| Checkpoint files, `huggingface/` | index, headers, slices | open, check, cut | `Checkpoint` |

The servers submit to a scheduler and stream what it pops; the scheduler owns a
KV manager and drives a model cache one batch at a time; a prefix store and a
remote prefill service hand states to it; replica workers are called
concurrently by producers and executors; training shares the models and the
rank groups.

What is hard here: long sequences of legal calls on shared pages; state
reserved, written by a device that may fail or write *late*, then committed or
given back; requests that fit alone and not together; caches of two models that
must be rolled back together after a rejection; threads, wakers, panics and
shutdown; clients that leave between any two steps; crashes between two file
operations; ranks that fail alone.

## 2. How the modules model the code

**One action per handler.** An action is a whole public operation, or, where
threads share memory (`ReplicaPool`), one access to shared state: an atomic
load or update, a channel operation, a critical section. Choices the code makes
by container order, and faults of devices, files, peers and wakers, are
nondeterministic.

**Histories for data.** In `PagedKv` a memory slot holds the token prefix whose
KV was last written there; `BatchScheduler` reads its next token from what
*memory* holds through the block table, so a wrong page gives a wrong token and
breaks the refinement. The model caches, the rotary contexts, the rank groups
and the trainer follow the same idea: a row of logits, a gradient or a parameter
is the sequence of inputs it depends on.

**Keys.** A prefix key is the token prefix itself. The code keeps a 64-bit chain
hash of the parent blocks beside the block's own tokens, so collisions of that
hash are excluded.

**Abstract specification and refinement.** `GenerationService` is what a
scheduler promises: a request is accepted, its output grows by one or more
tokens of `Reference(job)` per step, and it closes when complete or withdrawn.
`Reference` is the batch-one loop of `generation.rs`. `BatchScheduler`
instantiates it with `jobs`, `out` and `open` read off its queues, and
`ServiceRefined` (run `batch_live`) and `FencedServiceRefined` (run
`scheduling`) say that every step is a step of the service or leaves what
callers see alone.

**Shared parts.** `PagedKvOps` is the manager as a value (`PagedKv`,
`BatchScheduler` and everything above use it); `SpeculativeBatch` is the device
step that `DraftBatch`, `MtpBatch` and `CausalBatch` run with their own forward
pass; `GenerationOps` holds stop matching and cutting for the generation loops.

**Sum modules.** `MCScheduling`, `MCModelCaches`, `MCTraining` and `MCProtocol`
instantiate several components and pick one per
behaviour: `part` names it, `Init` is the disjunction of the components'
initial predicates and every action leaves `part` and the variables of the
others alone. The reachable states are the disjoint union of the components' state
spaces, and a property is a conjunction of `part = "x" => X!P`. Each conjunct is
a named property of its component's module, where its comment says what it is
about. Fairness is stated per component in the sum module, for the constants of
that instance.

Operators named `X_Something` are mutants of `X`, plausible bugs; `PROJECT.json`
names the property that each of them breaks.

## 3. Runs

| Run | Instance | What it shows |
|---|---|---|
| `paged_kv` | `PagedKv`: 2 sequences, 3 pages of 2, length 4, 2 tokens, 3 reservation ids, symmetry of requests, pages and tokens | every interleaving of the manager's public operations keeps page accounting, the prefix index, reservations and contents right, committed pages stable, and evicts the least recently released block |
| `batch_paged` | 3 requests of 3 kinds, 3 pages, chunks of 3, drafts of 2 | the scheduler under preemption, sharing, verification, failures and cancellation leaks nothing and corrupts no committed context |
| `batch_live` | 2 requests of 4 kinds, chunk as long as a history | every request closes; the scheduler implements `GenerationService` |
| `batch_starvation` | chunks of 2 | **violated**: finding 1 |
| `replica` | 2 callers, one with a waker that may panic, 1 worker of capacity 1 | permits exact, results truthful, nothing runs on a failed replica or drops it, every handle resolves |
| `scheduling` | reserve-capacity admission; the fence; swap with 3 requests on 4 pages; remote prefill with 3 faults; shutdown of 2 workers with panicking wakers; tiered cache of 1 and of 2 processes; prefix shards of worlds 1..4; a prefill service with 3 prompts | budgets fit and nobody stalls; pages that a kernel or copy may write stay with their request; fenced refinement; no overtaking of a suspended request; disk budget; continuing only one's own prompt; every request settles, every prefill is answered and shutdown leaves nothing behind |
| `model_caches` | 2 requests on 4 pages for each speculating model; single-session caches; 2 ranks with 2 faults; rotary contexts of 2 requests on 2 pages | logits and caches are those of the request's own text; the ranks' caches agree and no page is freed while one still runs; rotary contexts stay what they were |
| `training` | 3 steps with 3 crashes; a trainer with an auxiliary module; 2 replicas; batches of 2 responses; 2 files; 1 to 4 devices; groups of 2 ranks | a resumed run is an uninterrupted one; replicas of an objective step together, those of supervised steps until a loss is not finite on one; actions are scored as sampled; the ranks are the whole model; training ends; calls of a rank group return although ranks fail |
| `serving` | `HttpServing`: 2 clients, one with a stream, at either worker, channels and queues of 1, replies of 2 tokens, 2 faults | the executor holds exactly the active jobs; every handler ends with a whole answer |
| `protocol` | 2 connections; complete and contradictory command lines; texts of up to 8 symbols; 4-item conversations; token alphabets that split tags; every filter over 3 tokens | what clients are told is what the whole text says; no option is ignored; histories and draws are ordinary |
| `llama_fused_fork` | fused path, forked sessions | **violated**: finding 2 |

Distinct states: `paged_kv` 174,382, `batch_paged` 509,675, `batch_live` 11,695,
`replica` 85,755, `scheduling` 302,544, `model_caches` 345,812, `training`
608,839, `serving` 413,515, `protocol` 512,477. Every action of every
component fires in some passing run but `save_manual` of `SftTraining`, which is
behind a constant (section 5).

Why the bounds meet the cases:

* *Pages.* Blocks of two tokens over three pages give full, partial and shared
  blocks, eviction, and requests that fit alone but not together; sequences of
  seven tokens need every page and cross block boundaries.
* *Jobs* (`MCBatchScheduler`): accepted drafts, rejected drafts, a sampled
  request that stops on its end token, one that needs the whole pool, and a
  common first block. `MCPredict` depends on every token and its position and
  answers 0 to garbage, which no reference output contains. So 0 is a token like
  the others as far as the scheduler can see, and `Token` is `{0, 1, 2}`.
* *Permits.* Two callers on one permit race for the last one; two workers make
  a refused caller go on and the owner stop them in turn.
* *Tiers.* One prompt's file fits the disk budget and two do not; two processes
  can delete and rewrite each other's file.
* *Speculation.* Two drafted tokens can be accepted wholly, partly or not at
  all, and one more block can follow; two predictors lag by one and two.
* *Crashes.* Three faults allow a crash during a save, one during its recovery
  and one after it; any of them may fall inside the write of `latest`.
* *Replicas.* One step of two replicas, supervised or of any objective, with up
  to two values that are not finite and batches of one or two targets.
* *Ranks.* World sizes one to four against head counts that divide and do not.
* *Servers.* With capacity one everywhere the second client fills every queue:
  the jobs channel, the executor's waiting requests and its running ones. Two
  tokens make a row that goes on after its first one.
* *Texts.* Alphabets hold every half of a tag or stop string, up to lengths at
  which a tag, its content and the next tag are complete. XML arguments have CR
  and LF as tokens of their own and CR LF as one. Every constrained text can be
  spelled with the instance's tokens, as with any byte-level tokenizer, so a mask
  that is empty under the whole vocabulary would be the decoder's fault.
* *Counters.* `ReservationLimit` bounds u64 ids; `MaxFaults`, `MaxCalls`,
  `MaxRestarts`, `MaxTick` and `MaxTokens` (comments say BOUND) make the space
  finite.

`CHECK_DEADLOCK FALSE` is set where every request has been served, a gate is
quarantined, a pool is closed or a budget of faults and calls is used up;
`paged_kv` has no such states and checks deadlock.

### Fairness

* *Scheduler* (`batch_live`, swap and remote parts of `scheduling`). `run_until_idle` and the
  server loops call `step` while there is work, each step ends with the batch
  completed or failed, callers pop results: weak fairness of calling `step`, of
  its steps and of the remote network's answers (its tasks end by time-out). A device
  that loses every batch defeats any scheduler, so failures are bounded. A hung
  device is excluded.
* *Workers* (`replica`). Threads run and operations return, a woken task polls
  again, a waiter whose condition was signalled takes the lock, an owner that
  began to shut down continues. Nothing forces callers to submit, poll a handle
  for the first time, cancel or close.
* *Servers* (`serving`, `protocol`). The worker loop runs, clients that stay
  read their events, and a remote prefill answers. In `HttpServing` weak
  fairness of the worker and of "some client or the remote prefill" is enough:
  every step but the worker's wait for a remote prefill uses up something
  finite.
* *Prefill* and *ranks*. Processes, service, connection and rank threads run; a collective
  in which all ranks wait completes. When a rank has failed, panicked or
  returned early, the reductions its peers wait in fail (`Abort` of `RankGroup`):
  this is what is assumed of ruCCL, which is not part of the repository, and
  without it such a call would hang. `TrainingFinishes` checks on groups with and
  without faults that every call then returns; `RefusedTogether` (in
  `RanksExact`) does not rest on it, and says that no rank turns back unless one
  of them faulted.
* *Training.* A trainer that is not finished goes on working. Crashes are
  bounded by `MaxFaults`.

## 4. What is proved

Assumptions are only those the constants' own modules state: positive sizes, a
finite set of requests, callers or clients, `None` not a caller; for the
scheduler, that request ids are natural numbers, that a job is a record of a
prompt, a number of new tokens and a flag (`JobAssumption`), and that the model
answers every text with a token of its vocabulary (`ModelAssumption`). TLC
evaluates them in the runs. The theorems hold for every pool, block size, number
of callers, workers, clients and requests, every queue capacity, every set of
jobs, every model and every option of the scheduler (chunking, preemption,
reserved capacity, prefix caching, drafts, lookahead).

| Module | Theorems about |
|---|---|
| `PagedKvOpsProofs` | lemmas about the manager as a value, for the next two |
| `PagedKvProofs` | the manager driven by any client that follows its protocol |
| `BatchSchedulerProofs` | the manager driven by the scheduler, and the scheduler's own records |
| `ReplicaPoolProofs` | replica workers and their callers |
| `HttpServingProofs` | handlers, worker loop and executor of the HTTP servers |

### `PagedKvProofs`

* `TypeCorrect`: `Spec => []TypeOK`
* `NoPageLeaks`: `Spec => []PagesAccounted`
* `IndexInverse`: `Spec => []IndexAgrees`
* `ReservationsConsistent`: `Spec => []ReservationsOwned`
* `SharedNeverWritten`: `Spec => []TailUnpublished`
* `ContentAlwaysCorrect`: `Spec => []ContentCorrect`
* `CommittedNeverMoves`: `Spec => CommittedStable`
* `EvictsLeastRecent`: `Spec => EvictionIsLru`

The inductive invariant is `Inv == KvInv(kv) /\ HistOK /\ WorkOK`. `KvInv` is the
conjunction of the five statements about a manager value. None of its parts is
inductive alone: that `release_page` frees the right pages needs exact reference
counts, those need injective tables, that a partial commit gives back the right
tail needs that the table is exactly as long as the reservation says, and that
the tail carries no block needs the index to be inverse. `HistOK` and `WorkOK`
type the client's part, because `Register` passes a history and the commits
extend one.

The argument has three layers: what the primitive steps (allocate, release,
acquire, restrict a table) do to each field; for each operation, that `KvInv` of
the manager before gives `KvInv` of the one after; and the lift to the state
machine, one step per action. The first two are `PagedKvOpsProofs`, which knows
no state variable.

`ContentCorrect` is not inductive either. `Content` adds what the code relies on
between operations: a reservation that the device has run holds its tokens
behind the sequence's own (so that a commit extends the history with what memory
holds), and a sequence's chain is the text of its registered blocks (so that a
key published later names that text). The device step needs `TailUnpublished`,
which keeps what it writes out of every page another sequence or the cache can
read, and the lemma that two positions of an injective table never share a slot.
`CommittedNeverMoves` follows from the same lemmas: an append leaves a table as
a prefix of the new one, and what commit and cancel cut off starts behind the
settled tokens.

`EvictsLeastRecent` needs one more invariant, `Ordered`: no two evictable pages
share a rank, and every rank is below the number of pages. The first is why
"least recently released" is strict. The second is why a release, which places
its pages at `NumPages` plus their order before all are ranked anew, puts them
behind those already there. A reservation's tail is given back without ranking
anything, because it carries no block.

The seven properties of run `paged_kv` are thus theorems.

### `BatchSchedulerProofs`

* `SchedulerInvariant`: `Spec => []IInv`
* `NeverLeaks`: `Spec => []NothingLeaks`

`NothingLeaks` compares three records of the same requests: the manager's
sequences and reservations, the scheduler's active requests and their phases,
and the rows of the batch in flight. It is not inductive. A completed row
commits `row.tokens` through `row.reservation`, so that the right reservations
close one has to know that reservation `i` is the one of row `i`, of the row's
request, from the row's start, for at least the tokens fed. That no reservation
is left behind a batch needs that ids restart at 1 when a batch lands. That an
append never exceeds `max_sequence_length` needs what `submit` checked of the
job and that a request has drawn fewer tokens than it may. `IInv` says this:

* `Admitted`: the manager's `KvInv` and `Ordered`, one sequence and one place in
  the order of admission per active request, `Growing` of each, at most
  `max_active_sequences` of them.
* `Waiting`: queued requests are distinct, not active, and numbered below the
  next id, so that promotion never admits a request twice.
* `Idle` or `Flying`: no batch, no reservation and nobody in phase `InFlight`;
  or a batch whose rows are the reservations (`RowHolds`) and whose requests are
  exactly those in that phase.
* `MemInv`: memory holds texts, hence the model samples a token, and the next
  decode feeds one.

The scheduler's calls are functions on its whole state, and the proof follows
them. Between the pieces of one call the invariant holds in part: `Built` while
rows are being added (the rows so far are the reservations so far, and the
phases are not set yet), `Exact` before `reserve_lookahead` (a row reserves what
it feeds), `Settling` while a batch is being settled (the rows not reached yet
are in flight, the others are not).
`build_rows`, `reserve_lookahead`, both completions and the preemption loop are
folds or recursive functions. Each is first rewritten as its sequence of
intermediate values (`BuildExpands`, `LookaheadExpands`, ...), and what holds of
all of them is shown by taking the set of indices that have been reached and the
least one missing (`LeastOf`, from the well-foundedness of the naturals), which
needs no induction theorem with an operator parameter.

### `ReplicaPoolProofs`

* `Invariant`: `Spec => []IInv`
* `TypeCorrect`: `Spec => []TypeOK`
* `PermitsCounted`: `Spec => []PermitsExact`
* `ResultsTruthful`: `Spec => []ResultTruthful`
* `FailedNeverRuns`: `Spec => []NoRunAfterFailure`
* `FailedRetained`: `Spec => []FailedStateRetained`

Any wakers may panic. The last property excepts a thread that such a panic has
killed (section 5), and the invariant says that no thread dies otherwise.

`IInv` is a conjunction of five parts. `Types` types every variable except the
counter, whose type follows from `Counted`. `Phases` says, for each place in the
code a thread or a caller can be at, what it must know there: a thread between
`check` and `release` holds a job, a caller behind `reserve` still has a worker
to try. `Places` says that a submitted job is in exactly one place, a queue or
one thread's hands, that queues hold each job once, and that a caller that waits
or sleeps waits for a job in one of these places or for a stored value.
`Counted` is the permit counter: `outstanding[w]` is the number of jobs the
worker, its queue and the callers about to send hold. Its proof needs `Places`:
a release lowers the counter by one *and* removes one permit only because no job
is held twice. `Truthful` says what value a cell, a running job and a recorded
result may have at each phase; it is what makes `ResultTruthful` inductive when
a panic after the operation publishes a second time. `Failures` relates the
thread's local `failed` flag, which alone stops later jobs, to the records of
operations that failed on its replica. The flag is written after the result is
published, so the part has a conjunct for each moment in between.

The proofs follow one shape: for each action, a frame lemma says what it changes
and what it leaves; each part of `IInv` then has a lemma with one step per
action. `IInv` was model-checked before it was proved.

### `HttpServingProofs`

* `Invariant`: `Spec => []IInv`
* `EngineMatches`: `Spec => []EngineMatchesActive`

`EngineMatchesActive` joins three promises: the executor holds exactly the
requests of the active jobs whenever the loop comes around, the admission loop
takes no job that the executor then refuses, and a handler whose client stays
gives a whole answer. None is inductive. `IInv` adds to the types:

* `Loop`, what the worker has drained at each place of its loop. An idle worker
  owns nothing, which is why the first job it takes finds the executor's queue
  empty and is never refused.
* `Engine`, the comparison of executor and active jobs at every moment and not
  only when the loop comes around: in between, an active job may be in the
  queues of finished and failed requests, and a finished request may belong to
  no job.
* `Fresh`: a client whose job nobody has accepted is nowhere in the worker and
  has an empty channel; jobs in the channel are distinct and unanswered. So an
  accepted job starts its answer from nothing.
* `Answers`, how far a stream has come. What the client has read and what waits
  in its channel are deltas while its job is active or its last event is still
  in the outbox; otherwise there is exactly one last event, and nothing behind
  it. A failing worker is the exception on the way: it tells all active jobs
  and forgets them afterwards, so a job can be told and still active.

A worker that ended in a failed cancel (`silent`) leaves streams open, so
`Answers` and the property leave them out; that it ends nowhere else without
telling its clients is part of what is proved. The proof has one lemma per
action, over lemmas for the kinds of steps: a handler that moves alone, a step
that sends nothing, one that sends deltas or the last events of one job, and the
worker's return.

### Only model-checked

* The properties of the other modules, those of the sum modules, and of the
  proved ones `ShutdownSettles` of `ReplicaPool` and `ContextIntact`,
  `BudgetsFit` and `NeverStalls` of `BatchScheduler`. `ContextIntact` says what
  memory holds, which needs `Content` of `PagedKvProofs` carried through the
  scheduler's folds; `BudgetsFit` and the batch limit are sums over requests,
  and the lemmas for them are not written.
* Liveness (`EveryRequestCloses`, `EveryHandleResolves`, `Settles`,
  `TrainingFinishes`, `EveryHandlerEnds`, `EveryConnectionCloses`): the prover
  does not reason about fairness and ENABLED.
* The refinement of `GenerationService`: `Reference` is a recursion over a
  job's output, and that the scheduler's histories are its values rests on
  `ContextIntact`.

## 5. Findings

1. **A preempted request can starve an older one** (`batch_starvation`).
   `preempt_newest` turns `prefer_prefill` off so that older requests decode
   into the released pages. If the older request is itself still prefilling it
   cannot decode, and `schedule_prefill` picks the bucket that carries more
   tokens, which is the victim's. Every step runs a batch, the older request
   never advances, and `run_until_idle` does not return. `batch_live` shows that
   this does not happen when a chunk covers a whole history.
2. **Forked sessions of the fused path overwrite each other**
   (`llama_fused_fork`). The fused kernel writes in place into buffers that a
   clone of the cache shares; two sessions that continue from one captured
   prompt write one buffer. In `model_caches` the fused path runs unforked and
   the other two paths fork, so `LogitsExact` and `CachesExact` say nothing of
   this hazard.

In five places the code does not do what one would expect of it, the passing
runs include the case, and the property states it as its exception:

* *A torn `latest`*. `trainer.rs` says that checkpoints are written atomically
  (line 7), which holds of the directory `step-N`, a rename. The pointer is
  written by `fs::write` (line 719), which truncates first: after a crash or an
  error inside it `resume` finds an empty name and refuses. `RunsExact` says that
  this is the only window, that the run then stops instead of starting again
  (`TornStops`) and that the saved checkpoint is still there
  (`SavedSurvives`); `TrainingFinishes` admits this end.
* *Supervised replicas part*. `step` decides with `loss_sum`, which is not
  reduced (line 636), while the objectives reduce theirs. When a loss is not
  finite on one replica and all gradients are, that replica alone skips the
  update. `ReplicasAgree` excepts replicas that skipped different supervised
  steps for this reason, and holds without exception for objectives. The
  supervised gradient is a mean of the replicas' means, hence the global mean
  only for batches with equally many targets (`GlobalMean`).
* *CR LF in streamed XML arguments*. `unpad` (`serving/tool_calls.rs:73`) holds
  back a line feed and a whole CR LF at the end of a value, but not a carriage
  return alone. When the line feed comes with the next token, what was streamed
  is no prefix of what is parsed, although the test of `xml_prefix` asserts
  `arguments.starts_with(&partial)`, and the call is refused. `PrefixPreserved`
  says that this split is the only one that does it; a CR LF in one token is
  fine.
* *A string for arguments*. The grammar of a function that is not strict allows
  arguments that are a JSON string, which the parser does not read
  (`EndsReadable`).
* *Panicking wakers* (`Panicky` of `ReplicaPool`): the rejections in the worker
  loop run outside `catch_unwind`, so a panic of the waker unwinds the thread
  past the code that leaks a failed replica, and the queued jobs are never
  answered. `FailedStateRetained` and `EveryHandleResolves` say so as
  exceptions; the other properties hold, and are proved, with such panics.

The modules also reach behaviours at which a property fails and which no run
enables. They are named here because they bound what the passing runs show:

* *Speculation behind the gate* (`DraftTokens > 0` in `FencedScheduler`):
  `try_complete_logits` has one path for all batch kinds and would complete a
  verify batch as a decode batch.
* *Training again after a failed save* (`RetrySave`), *a manual save between
  two calls of `train`* (`Manual`) and *training into a used directory without
  resuming* (`Forgetful`): each is a constant of `SftTraining`, FALSE in the run.
  What a trainer and a checkpoint hold stays exact, but `LatestLoadable` and
  `SavedSurvives` fail. The first two can save a step whose directory `latest`
  already names, and a save removes that directory before it renames the new
  one; the third saves steps that `prune_checkpoints` takes for the oldest.
* *Two processes on one cache directory* exceed the disk budget together, since
  each counts for itself: the budget is checked with one process, the contents
  with two.

## 6. What is not modelled

* What tensors compute: kernels, quantisation, rounding, LoRA merging, export.
* JSON and GGUF parsing; fields are valid or not.
* Memory and shape planning (`runtime/memory.rs`, `runtime/shape.rs`) and error
  tables: no protocol state.
* The pull session of the GPU prefill hand-off (`disaggregated/gpu*.rs`), which
  rests on an external transport; `RemotePrefill` carries the same obligations.
* The device-tier store of the scheduler (`batch_prefix.rs`): the hits that
  `PrefixExecutor` takes stand for it. The tiers themselves are
  `TieredPrefixCache`.
* The Kimi cache, which follows the hybrid one of `CausalBatch`.
* API errors that change nothing (a wrong batch id, a stale reservation) are
  disabled actions; u64 id counters do not overflow.
* A user's own grammar is one text; llguidance is external.

## 7. Plan

1. *Proofs*: `ContextIntact` from `SchedulerInvariant` and the content lemmas of
   `PagedKvProofs`, then `ServiceRefined` step by step; `FenceTracks` of the gate
   over `SchedInv`; `ShutdownSettles` of `ReplicaPool`.
2. *Models*: `batch_prefix.rs` over the manager, the Kimi cache.
