---------------------------- MODULE MCScheduling -----------------------------
(***************************************************************************)
(* The schedulers, the thread pool and the prefix stores below the         *)
(* servers, each on a small instance of its own. A behaviour runs one      *)
(* component, the one `part` names; the variables it does not use stay     *)
(* Off.                                                                    *)
(*                                                                         *)
(* The continuous batcher with capacity reserved at admission, the fenced  *)
(* batcher that overlaps device work with the host, the prefix executor    *)
(* with host swap and with remote prefill, the replica pool being shut     *)
(* down; the tiered prefix cache of one process and of two processes that  *)
(* share a directory, prefix bundles moved between tensor-parallel groups, *)
(* and the remote prefill service.                                         *)
(***************************************************************************)
EXTENDS Integers, Sequences, SequencesExt, TLC

VARIABLES part,  \* the component this behaviour runs
          v1, v2, v3, v4, v5, v6, v7, v8, v9, v10, v11, v12, v13, v14, v15,
          v16, v17, v18, v19, v20, v21, v22, v23, v24, v25

vars == <<part, v1, v2, v3, v4, v5, v6, v7, v8, v9, v10, v11, v12, v13, v14,
                v15, v16, v17, v18, v19, v20, v21, v22, v23, v24, v25>>

Off == "off"

-----------------------------------------------------------------------------
(* BatchScheduler: admission reserves the capacity of a whole sequence,    *)
(* the pending queue has a limit, and batches reserve pages for lookahead. *)

\* A model whose next token depends on every token of the text; unrelated KV
\* yields a token that no reference output contains.
Predict(text, draws) ==
    IF text = <<>>
    THEN 0
    ELSE 1 + (FoldLeftDomain(LAMBDA sum, i : sum + i * text[i], draws, text) % 2)

\* Samples stops on its end token, Long needs the whole pool and the budget of
\* Short fits beside its like.
Repeats == [prompt |-> <<1, 2>>, maxNew |-> 4, eos |-> {}, sampled |-> FALSE]
Samples == [prompt |-> <<1, 2, 1>>, maxNew |-> 3, eos |-> {2}, sampled |-> TRUE]
Long    == [prompt |-> <<1, 2, 1, 1>>, maxNew |-> 3, eos |-> {}, sampled |-> FALSE]
Short   == [prompt |-> <<1>>, maxNew |-> 4, eos |-> {}, sampled |-> TRUE]
Empty   == [prompt |-> <<1>>, maxNew |-> 0, eos |-> {}, sampled |-> FALSE]

Budget == INSTANCE BatchScheduler WITH
    NumPages <- 4, BlockSize <- 2, MaxSequenceLength <- 7, ReservationLimit <-
    9, Request <- 1..2, Token <- {0, 1, 2}, Predict <- Predict, MaxActive <- 2,
    Job <- {Repeats, Short, Long, Empty}, MaxPending <- 1, BatchTokens <- 4,
    TokenLimits <- {5}, ChunkTokens <- 0, Preemption <- FALSE, ReserveCapacity
    <- TRUE, Caching <- FALSE, DraftTokens <- 0, Ngram <- 0, Lookahead <- 2,
    sched <- v1, mem <- v2, closed <- v3

BudgetOn == part = "budget" /\ UNCHANGED <<part, v4, v5, v6, v7, v8, v9, v10, v11, v12, v13, v14, v15, v16, v17, v18,
        v19, v20, v21, v22, v23, v24, v25>>

BudgetInit ==
    /\ part = "budget" /\ Budget!Init
    /\ v4 = Off /\ v5 = Off /\ v6 = Off /\ v7 = Off /\ v8 = Off /\ v9 = Off
    /\ v10 = Off /\ v11 = Off /\ v12 = Off /\ v13 = Off /\ v14 = Off /\ v15 = Off
    /\ v16 = Off /\ v17 = Off /\ v18 = Off /\ v19 = Off /\ v20 = Off /\ v21 = Off
    /\ v22 = Off /\ v23 = Off /\ v24 = Off /\ v25 = Off

BudgetNext == BudgetOn /\ Budget!Next

-----------------------------------------------------------------------------
(* FencedScheduler: a launched batch is completed or rolled back only      *)
(* behind the fence of its device work.                                    *)

Fenced == INSTANCE FencedScheduler WITH
    NumPages <- 3, BlockSize <- 2, MaxSequenceLength <- 7, ReservationLimit <-
    9, Request <- 1..2, Token <- {0, 1, 2}, Predict <- Predict, MaxActive <- 2,
    Job <- {Samples, Long}, MaxPending <- 0, BatchTokens <- 4, TokenLimits <-
    {3}, ChunkTokens <- 4, Preemption <- FALSE, ReserveCapacity <- FALSE,
    Caching <- TRUE, DraftTokens <- 0, Ngram <- 0, Lookahead <- 0, sched <-
    v1, mem <- v2, closed <- v3, fence <- v4, quarantined <- v5, kernel <- v6

FencedOn == part = "fenced" /\ UNCHANGED <<part, v7, v8, v9, v10, v11, v12, v13, v14, v15, v16, v17, v18, v19, v20,
        v21, v22, v23, v24, v25>>

FencedInit ==
    /\ part = "fenced" /\ Fenced!FencedInit
    /\ v7 = Off /\ v8 = Off /\ v9 = Off /\ v10 = Off /\ v11 = Off /\ v12 = Off
    /\ v13 = Off /\ v14 = Off /\ v15 = Off /\ v16 = Off /\ v17 = Off /\ v18 = Off
    /\ v19 = Off /\ v20 = Off /\ v21 = Off /\ v22 = Off /\ v23 = Off /\ v24 = Off
    /\ v25 = Off

FencedNext == FencedOn /\ Fenced!FencedNext

-----------------------------------------------------------------------------
(* PrefixExecutor: three requests on a pool that holds two: active         *)
(* requests are swapped to the host and back.                              *)

Swap == INSTANCE PrefixExecutor WITH
    Prompt <- <<2, 2, 1>>, MaxNew <- <<3, 2, 2>>, Block <- 1, NumPages <- 4,
    MaxActive <- 2, MaxPending <- 2, BatchTokens <- 2, Reserve <- FALSE, Chunk
    <- 1, HostLimit <- 4, Remote <- FALSE, CachedLengths <- {0, 1}, Faults <-
    1, pc <- v1, retried <- v2, todo <- v3, next <- v4, pending <- v5, active
    <- v6, finished <- v7, failed <- v8, cancelled <- v9, gen <- v10, kv <-
    v11, prefix <- v12, ready <- v13, handoff <- v14, deferred <- v15, saved
    <- v16, host <- v17, ceiling <- v18, restoring <- v19, batch <- v20,
    prefer <- v21, remote <- v22, faults <- v23, unfenced <- v24, lost <- v25

ASSUME Swap!ExecutorAssumption

SwapOn == part = "swap" /\ UNCHANGED part

SwapInit ==
    /\ part = "swap" /\ Swap!Init

SwapNext == SwapOn /\ Swap!Next

-----------------------------------------------------------------------------
(* PrefixExecutor: prompts are prefilled by a remote network that may      *)
(* fail.                                                                   *)

Remote == INSTANCE PrefixExecutor WITH
    Prompt <- <<3, 2>>, MaxNew <- <<2, 2>>, Block <- 2, NumPages <- 3,
    MaxActive <- 2, MaxPending <- 2, BatchTokens <- 2, Reserve <- FALSE, Chunk
    <- 2, HostLimit <- 5, Remote <- TRUE, CachedLengths <- {0, 2, 3}, Faults
    <- 3, pc <- v1, retried <- v2, todo <- v3, next <- v4, pending <- v5,
    active <- v6, finished <- v7, failed <- v8, cancelled <- v9, gen <- v10,
    kv <- v11, prefix <- v12, ready <- v13, handoff <- v14, deferred <- v15,
    saved <- v16, host <- v17, ceiling <- v18, restoring <- v19, batch <- v20,
    prefer <- v21, remote <- v22, faults <- v23, unfenced <- v24, lost <- v25

ASSUME Remote!ExecutorAssumption

RemoteOn == part = "remote" /\ UNCHANGED part

RemoteInit ==
    /\ part = "remote" /\ Remote!Init

RemoteNext == RemoteOn /\ Remote!Next

-----------------------------------------------------------------------------
(* ReplicaPool: two workers, one caller, an executor whose waker may       *)
(* panic, and an owner who closes the pool.                                *)

Shutdown == INSTANCE ReplicaPool WITH
    Caller <- {"c1"}, Workers <- 2, Capacity <- 1, Panicky <- {"c1"}, thread
    <- v1, queue <- v2, outstanding <- v3, quarantined <- v4, stopping <- v5,
    open <- v6, caller <- v7, cell <- v8, cancelled <- v9, ran <- v10, pool <-
    v11

ShutdownOn == part = "shutdown" /\ UNCHANGED <<part, v12, v13, v14, v15, v16, v17, v18, v19, v20, v21, v22, v23, v24, v25>>

ShutdownInit ==
    /\ part = "shutdown" /\ Shutdown!Init
    /\ v12 = Off /\ v13 = Off /\ v14 = Off /\ v15 = Off /\ v16 = Off /\ v17 = Off
    /\ v18 = Off /\ v19 = Off /\ v20 = Off /\ v21 = Off /\ v22 = Off /\ v23 = Off
    /\ v24 = Off /\ v25 = Off

ShutdownNext == ShutdownOn /\ Shutdown!Next

-----------------------------------------------------------------------------
(* TieredPrefixCache: one process whose host and disk tiers overflow.      *)

\* A serialised prefix takes a byte per token, and two more when its last
\* token is 2.
TokenBytes(k) == Len(k) + (IF Last(k) = 2 THEN 2 ELSE 0)

Tiers == INSTANCE TieredPrefixCache WITH
    Process <- {1}, Prompts <- {<<1, 1>>, <<3>>, <<4, 2>>}, HostBytes <- 1,
    BlockTokens <- 1, DeviceEntries <- 0, DiskBytes <- 2, PayloadBytes <-
    TokenBytes, MaxTick <- 5, MaxFaults <- 2, mem <- v1, files <- v2, faults
    <- v3

ASSUME Tiers!ConfigAssumption

TiersOn ==
    part = "tiers" /\ UNCHANGED <<part, v4, v5, v6, v7, v8, v9, v10, v11, v12,
        v13, v14, v15, v16, v17, v18, v19, v20, v21, v22, v23, v24, v25>>

TiersInit ==
    /\ part = "tiers" /\ Tiers!Init
    /\ v4 = Off /\ v5 = Off /\ v6 = Off /\ v7 = Off /\ v8 = Off /\ v9 = Off
    /\ v10 = Off /\ v11 = Off /\ v12 = Off /\ v13 = Off /\ v14 = Off /\ v15 = Off
    /\ v16 = Off /\ v17 = Off /\ v18 = Off /\ v19 = Off /\ v20 = Off /\ v21 = Off
    /\ v22 = Off /\ v23 = Off /\ v24 = Off /\ v25 = Off

TiersNext == TiersOn /\ Tiers!Next

-----------------------------------------------------------------------------
(* TieredPrefixCache: two processes on one directory.                      *)

Shared == INSTANCE TieredPrefixCache WITH
    Process <- {1, 2}, Prompts <- {<<1, 1>>, <<1, 2>>}, HostBytes <- 0,
    BlockTokens <- 1, DeviceEntries <- 0, DiskBytes <- 2, PayloadBytes <-
    TokenBytes, MaxTick <- 3, MaxFaults <- 1, mem <- v1, files <- v2, faults
    <- v3

ASSUME Shared!ConfigAssumption

SharedOn ==
    part = "shared" /\ UNCHANGED <<part, v4, v5, v6, v7, v8, v9, v10, v11, v12,
        v13, v14, v15, v16, v17, v18, v19, v20, v21, v22, v23, v24, v25>>

SharedInit ==
    /\ part = "shared" /\ Shared!Init
    /\ v4 = Off /\ v5 = Off /\ v6 = Off /\ v7 = Off /\ v8 = Off /\ v9 = Off
    /\ v10 = Off /\ v11 = Off /\ v12 = Off /\ v13 = Off /\ v14 = Off /\ v15 = Off
    /\ v16 = Off /\ v17 = Off /\ v18 = Off /\ v19 = Off /\ v20 = Off /\ v21 = Off
    /\ v22 = Off /\ v23 = Off /\ v24 = Off /\ v25 = Off

SharedNext == SharedOn /\ Shared!Next

-----------------------------------------------------------------------------
(* PrefixTransfer: KV heads, linear key heads and the replicated logits.   *)

Transfer == INSTANCE PrefixTransfer WITH
    Global <- <<2, 4, 0>>, Worlds <- 1..4, Positions <- {1, 2}, Geometries <-
    {1, 2}, tensors <- v1, position <- v2, exported <- v3, merged <- v4

ASSUME Transfer!TransferAssumption

TransferOn ==
    part = "transfer" /\ UNCHANGED <<part, v5, v6, v7, v8, v9, v10, v11, v12,
        v13, v14, v15, v16, v17, v18, v19, v20, v21, v22, v23, v24, v25>>

TransferInit ==
    /\ part = "transfer" /\ Transfer!Init
    /\ v5 = Off /\ v6 = Off /\ v7 = Off /\ v8 = Off /\ v9 = Off /\ v10 = Off
    /\ v11 = Off /\ v12 = Off /\ v13 = Off /\ v14 = Off /\ v15 = Off /\ v16 = Off
    /\ v17 = Off /\ v18 = Off /\ v19 = Off /\ v20 = Off /\ v21 = Off /\ v22 = Off
    /\ v23 = Off /\ v24 = Off /\ v25 = Off

TransferNext == TransferOn /\ Transfer!Next

-----------------------------------------------------------------------------
(* RemotePrefill: the second prompt is a prefix of the others, the third   *)
(* needs more pages than the service has.                                  *)

Prefill == INSTANCE RemotePrefill WITH
    Prompt <- << <<1, 2, 3, 4>>, <<1, 2>>, <<1, 2, 4, 5, 6>> >>, Capacity <- 1,
    Chunk <- 3, Block <- 2, NumPages <- 2, StoreLimit <- 2, Faults <- 1, requests <- v1,
    aborted <- v2, task <- v3, result <- v4, channel <- v5, conn <- v6,
    accepts <- v7, service <- v8, work <- v9, answer <- v10, store <- v11,
    polled <- v12, faults <- v13

ASSUME Prefill!RemoteAssumption

PrefillOn ==
    part = "prefill" /\ UNCHANGED <<part, v14, v15, v16, v17, v18, v19, v20,
        v21, v22, v23, v24, v25>>

PrefillInit ==
    /\ part = "prefill" /\ Prefill!Init
    /\ v14 = Off /\ v15 = Off /\ v16 = Off /\ v17 = Off /\ v18 = Off /\ v19 = Off
    /\ v20 = Off /\ v21 = Off /\ v22 = Off /\ v23 = Off /\ v24 = Off /\ v25 = Off

PrefillNext == PrefillOn /\ Prefill!Next

-----------------------------------------------------------------------------
Init ==
    \/ BudgetInit
    \/ FencedInit
    \/ SwapInit
    \/ RemoteInit
    \/ ShutdownInit
    \/ TiersInit
    \/ SharedInit
    \/ TransferInit
    \/ PrefillInit

Next ==
    \/ BudgetNext
    \/ FencedNext
    \/ SwapNext
    \/ RemoteNext
    \/ ShutdownNext
    \/ TiersNext
    \/ SharedNext
    \/ TransferNext
    \/ PrefillNext

Fairness ==
    /\ WF_vars(SwapOn /\ Swap!CallStep)
    /\ WF_vars(SwapOn /\ v1 # "idle" /\ Swap!Step)
    /\ WF_vars(SwapOn /\ \E i \in Swap!Id : Swap!RemoteAnswers(i))
    /\ WF_vars(RemoteOn /\ Remote!CallStep)
    /\ WF_vars(RemoteOn /\ v1 # "idle" /\ Remote!Step)
    /\ WF_vars(RemoteOn /\ \E i \in Remote!Id : Remote!RemoteAnswers(i))
    /\ \A p \in {1} : WF_vars(TiersOn /\ Tiers!Step(p))
    /\ \A p \in {1, 2} : WF_vars(SharedOn /\ Shared!Step(p))
    /\ WF_vars(PrefillOn /\ Prefill!Serve)
    /\ WF_vars(PrefillOn /\ Prefill!Poll)
    /\ \A i \in 1..3 : WF_vars(PrefillOn /\ Prefill!TaskStep(i))

Spec == Init /\ [][Next]_vars /\ Fairness

-----------------------------------------------------------------------------
(* Properties                                                              *)

\* Promotion never fails and nobody stalls: the budgets of the active requests
\* fit the pool, no request holds more than its own between batches, schedule
\* finds a batch whenever there is work, and the batch stays within
\* max_batch_tokens, lookahead included, with rows of one width.
BudgetsFit ==
    part = "budget" =>
        Budget!BudgetsFit /\ Budget!NeverStalls /\ Budget!BatchWithinLimit

\* Pages that a kernel or a copy may still be writing stay with their request
\* ("Reusing pages while a kernel is still writing them would be unsafe"): no
\* failed launch, fence, cancellation or swap frees, publishes or maps them
\* elsewhere, committed positions hold their request's own KV whatever was
\* written late, each request lives in one place, the host counter is the sum of
\* the suspended copies, and every prompt or fed-back token is committed once.
WritesReserved ==
    /\ part = "fenced" => /\ Fenced!FenceTracks /\ Fenced!KernelPagesHeld
                          /\ Fenced!ContextSafe
    /\ part = "swap" => /\ Swap!OnePlace /\ Swap!WritesReserved
                        /\ Swap!HostExact /\ Swap!PositionsExact
    /\ part = "remote" => Remote!OnePlace /\ Remote!WritesReserved

\* One step of the scheduler, under the fences of a device as well, is a step
\* of the generation service or leaves what callers see alone.
FencedServiceRefined ==
    [][(part = "fenced" => Fenced!ServiceStep)]_vars

\* No request is admitted to the batch before an older one that was suspended
\* to the host.
OvertakesNone ==
    [][(part = "swap" => Swap!OvertakesNone)]_vars

\* With one process on the directory, what put_disk believes is on disk is
\* what is there: the complete files never exceed disk_bytes, through crashes,
\* failed writes and restores that fail and leave their file behind.  The
\* counters that drive eviction are exact, and the clock orders entries
\* without ties.
DiskWithinBudget ==
    part = "tiers" =>
        Tiers!DiskWithinBudget /\ Tiers!CountersExact /\ Tiers!ClockOrders

\* A prefill continues from, and hands over, a state of exactly its own prompt:
\* whatever tier it came from and whatever other processes did to its file, and
\* however the remote service split, reused or stored it and whatever connection
\* broke (its pool covers every chunk, poll returns a request once and never
\* after its cancellation).  Between rank groups, a destination rank gets
\* exactly its own heads, in order, whatever ranks of whatever worlds were
\* merged, and all its tensors once one source world is complete.
StateExact ==
    /\ part = "shared" => Shared!ContinuesOwnPrompt
    /\ part = "prefill" => Prefill!StateExact /\ Prefill!PagesSuffice /\ Prefill!OnlyWanted
    /\ part = "transfer" => Transfer!ExactSlice /\ Transfer!WorldComplete

\* The i-th request, or process, of the part that runs is being served.
Waiting(i) ==
    \/ part = "swap" /\ Swap!Open(i)
    \/ part = "remote" /\ i \in 1..2 /\ Remote!Open(i)
    \/ part = "tiers" /\ i = 1 /\ v1[i].pc \notin {"idle", "down"}
    \/ part = "shared" /\ i \in 1..2 /\ v1[i].pc \notin {"idle", "down"}
    \/ part = "prefill" /\ i \in v1

\* It has its answer, or is gone.
Ended(i) ==
    \/ part = "swap" /\ (Swap!Settled(i) \/ v25)
    \/ part = "remote" /\ i \in 1..2 /\ (Remote!Settled(i) \/ v25)
    \/ part = "tiers" /\ i = 1 /\ v1[i].pc \in {"idle", "down"}
    \/ part = "shared" /\ i \in 1..2 /\ v1[i].pc \in {"idle", "down"}
    \/ part = "prefill" /\ i \notin v1

\* Every accepted request ends, by itself or by cancellation, unless a fence
\* failed that no call repeats (a failed swap fence is not one of those). Every
\* prefill gets its answer: one that started on the tiers returns or its process
\* dies, although other processes delete its files, and one submitted to the
\* remote service is returned by poll or cancelled, although connections of
\* cancelled requests stay in the service's queue. And when shutdown has
\* returned without an error every job that was sent has its true result,
\* although a waker may panic, and no thread runs.
Settles ==
    /\ [](part = "shutdown" => Shutdown!ResultTruthful /\ Shutdown!ShutdownSettles)
    /\ \A i \in 1..3 : Waiting(i) ~> Ended(i)

=============================================================================
