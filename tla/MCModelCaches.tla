---------------------------- MODULE MCModelCaches ----------------------------
(***************************************************************************)
(* The KV caches of the model families, of one generation and of a batch,  *)
(* and the rotary histories of shared pages, each on a small instance of   *)
(* its own. A behaviour runs one component, the one `part` names; the      *)
(* variables it does not use stay Off.                                     *)
(***************************************************************************)
EXTENDS Integers, Sequences

VARIABLES part,  \* the component this behaviour runs
          v1, v2, v3, v4, v5, v6, v7, v8, v9, v10, v11, v12, v13, v14, v15

vars == <<part, v1, v2, v3, v4, v5, v6, v7, v8, v9, v10, v11, v12, v13, v14,
                v15>>

Off == "off"

-----------------------------------------------------------------------------
(* DraftBatch: one request decodes long enough to draft twice, the other   *)
(* shares its batches.                                                     *)

Draft == INSTANCE DraftBatch WITH
    Request <- {1, 2}, BlockSize <- 2, Token <- {0, 1}, MaxChunk <- 2, Page <-
    1..4, MaxContext <- 5, Prompt <- << <<0>>, <<0, 1>> >>, MaxNew <- <<4,
    1>>, DraftBlock <- 2, AnchorFirst <- TRUE, DraftMaxPosition <- 5, toks <-
    v1, prompt <- v2, fed <- v3, pages <- v4, cache <- v5, out <- v6, refused
    <- v7

ASSUME Draft!DenseConstants /\ Draft!SpeculativeConstants

DraftOn == part = "draft" /\ UNCHANGED <<part, v8, v9, v10, v11, v12, v13, v14, v15>>

DraftInit ==
    /\ part = "draft" /\ Draft!Init
    /\ v8 = Off /\ v9 = Off /\ v10 = Off /\ v11 = Off /\ v12 = Off /\ v13 = Off
    /\ v14 = Off /\ v15 = Off

DraftNext == DraftOn /\ Draft!Next

-----------------------------------------------------------------------------
(* MtpBatch: two predictors, a chunked prompt.                             *)

Mtp == INSTANCE MtpBatch WITH
    Request <- {1, 2}, BlockSize <- 2, Token <- {0, 1}, MaxChunk <- 2, Page <-
    1..4, MaxContext <- 7, Prompt <- << <<0, 1, 0>>, <<0>> >>, MaxNew <- <<4,
    2>>, Predictors <- 2, toks <- v1, prompt <- v2, fed <- v3, pages <- v4,
    cache <- v5, out <- v6, refused <- v7

ASSUME Mtp!DenseConstants /\ Mtp!SpeculativeConstants

MtpOn == part = "mtp" /\ UNCHANGED <<part, v8, v9, v10, v11, v12, v13, v14, v15>>

MtpInit ==
    /\ part = "mtp" /\ Mtp!Init
    /\ v8 = Off /\ v9 = Off /\ v10 = Off /\ v11 = Off /\ v12 = Off /\ v13 = Off
    /\ v14 = Off /\ v15 = Off

MtpNext == MtpOn /\ Mtp!Next

-----------------------------------------------------------------------------
(* CausalBatch: pages in an arena or allocated one by one.                 *)

Causal == INSTANCE CausalBatch WITH
    Request <- {1, 2}, BlockSize <- 2, Token <- {0, 1}, MaxChunk <- 2, Page <-
    1..4, MaxContext <- 5, Prompt <- << <<0>>, <<0, 1>> >>, MaxNew <- <<4,
    1>>, DraftTokens <- 2, toks <- v1, prompt <- v2, fed <- v3, pages <- v4,
    cache <- v5, out <- v6, refused <- v7

ASSUME Causal!DenseConstants /\ Causal!SpeculativeConstants

CausalOn == part = "causal" /\ UNCHANGED <<part, v8, v9, v10, v11, v12, v13, v14, v15>>

CausalInit ==
    /\ part = "causal" /\ Causal!Init
    /\ v8 = Off /\ v9 = Off /\ v10 = Off /\ v11 = Off /\ v12 = Off /\ v13 = Off
    /\ v14 = Off /\ v15 = Off

CausalNext == CausalOn /\ Causal!Next

-----------------------------------------------------------------------------
(* DraftedCache: a block drafter beside one generation.                    *)

Drafted == INSTANCE DraftedCache WITH
    Token <- {1, 2}, BlockSize <- 2, AnchorFirst <- TRUE, MaxPosition <- 6,
    DraftMaxPosition <- 6, MaxFeed <- 2, fed <- v1, target <- v2, draft <- v3,
    position <- v4, pending <- v5, verified <- v6, row <- v7, saved <- v8

ASSUME Drafted!DraftedConstants

DraftedOn == part = "drafted" /\ UNCHANGED <<part, v9, v10, v11, v12, v13, v14, v15>>

DraftedInit ==
    /\ part = "drafted" /\ Drafted!Init
    /\ v9 = Off /\ v10 = Off /\ v11 = Off /\ v12 = Off /\ v13 = Off /\ v14 = Off
    /\ v15 = Off

DraftedNext == DraftedOn /\ Drafted!Next

-----------------------------------------------------------------------------
(* MtpCache: two prediction heads beside one generation.                   *)

Heads == INSTANCE MtpCache WITH
    Token <- {1, 2}, Predictors <- 2, MaxPosition <- 6, MaxFeed <- 3, fed <-
    v1, target <- v2, layers <- v3, position <- v4, tails <- v5, verified <-
    v6, row <- v7, drafted <- v8, saved <- v9

ASSUME Heads!MtpConstants

HeadsOn == part = "heads" /\ UNCHANGED <<part, v10, v11, v12, v13, v14, v15>>

HeadsInit ==
    /\ part = "heads" /\ Heads!Init
    /\ v10 = Off /\ v11 = Off /\ v12 = Off /\ v13 = Off /\ v14 = Off /\ v15 = Off

HeadsNext == HeadsOn /\ Heads!Next

-----------------------------------------------------------------------------
(* LlamaCache: a sliding window, growth past the initial capacity, and     *)
(* forks of the portable and the growable cache.                           *)

Llama == INSTANCE LlamaCache WITH
    Layers <- 2, MaxSequence <- 3, InitialCapacity <- 2, FlashMin <- 3, Window
    <- 2, MaxAppend <- 3, Paths <- {"portable", "growable", "fused"},
    ForkedPaths <- {"portable", "growable"}, store <- v1, path <- v2, cache <-
    v3, history <- v4, logits <- v5

LlamaOn == part = "llama" /\ UNCHANGED <<part, v6, v7, v8, v9, v10, v11, v12, v13, v14, v15>>

LlamaInit ==
    /\ part = "llama" /\ Llama!Init
    /\ v6 = Off /\ v7 = Off /\ v8 = Off /\ v9 = Off /\ v10 = Off /\ v11 = Off
    /\ v12 = Off /\ v13 = Off /\ v14 = Off /\ v15 = Off

LlamaNext == LlamaOn /\ Llama!Next

-----------------------------------------------------------------------------
(* ParallelBatch: two ranks; storage also holds records of another model,  *)
(* of a larger group, with exchanged ranks and with a wrong position.      *)

Part(position, model, world, rank) ==
    [position |-> position, model |-> model, world |-> world, rank |-> rank]

Foreign ==
    {[model |-> "other", position |-> 1, ranks |-> [k \in 0..1 |-> Part(1, "other", 2, k)]],
     [model |-> "m", position |-> 1, ranks |-> [k \in 0..2 |-> Part(1, "m", 3, k)]],
     [model |-> "m", position |-> 1, ranks |-> [k \in 0..1 |-> Part(1, "m", 2, 1 - k)]],
     [model |-> "m", position |-> 2, ranks |-> [k \in 0..1 |-> Part(1, "m", 2, k)]]}

Parallel == INSTANCE ParallelBatch WITH
    World <- 2, Ids <- {"a"}, MaxLength <- 2, MaxCalls <- 2, MaxFaults <- 2,
    Model <- "m", Stored <- Foreign, cache <- v1, host <- v2, working <- v3,
    expected <- v4, pc <- v5, result <- v6, calls <- v7, job <- v8, thread <-
    v9, output <- v10, busy <- v11, prefix <- v12, records <- v13, delta <-
    v14, faults <- v15

ParallelOn == part = "parallel" /\ UNCHANGED part

ParallelInit ==
    /\ part = "parallel" /\ Parallel!Init

ParallelNext == ParallelOn /\ Parallel!Next

-----------------------------------------------------------------------------
(* PagedRotary: two requests whose contexts outgrow the original length.   *)

Rotary == INSTANCE PagedRotary WITH
    Request <- {1, 2}, Page <- {1, 2}, Block <- 2, Prompt <- 3, MaxTokens <-
    3, Dynamic <- TRUE, Original <- 2, state <- v1, table <- v2, committed <-
    v3, index <- v4, keys <- v5, slots <- v6, requests <- v7, pending <- v8

ASSUME Rotary!RotaryAssumption

RotaryOn == part = "rotary" /\ UNCHANGED <<part, v9, v10, v11, v12, v13, v14, v15>>

RotaryInit ==
    /\ part = "rotary" /\ Rotary!Init
    /\ v9 = Off /\ v10 = Off /\ v11 = Off /\ v12 = Off /\ v13 = Off /\ v14 = Off
    /\ v15 = Off

RotaryNext == RotaryOn /\ Rotary!Next

-----------------------------------------------------------------------------
Init ==
    \/ DraftInit
    \/ MtpInit
    \/ CausalInit
    \/ DraftedInit
    \/ HeadsInit
    \/ LlamaInit
    \/ ParallelInit
    \/ RotaryInit

Next ==
    \/ DraftNext
    \/ MtpNext
    \/ CausalNext
    \/ DraftedNext
    \/ HeadsNext
    \/ LlamaNext
    \/ ParallelNext
    \/ RotaryNext

Fairness ==
    /\ \A k \in 0..1 : WF_vars(ParallelOn /\ Parallel!RankRun(k))
    /\ \A k \in 0..1 : WF_vars(ParallelOn /\ Parallel!RankAborted(k))
    /\ \A k \in 0..1 : WF_vars(ParallelOn /\ Parallel!RankSync(k))
    /\ WF_vars(ParallelOn /\ Parallel!Collective)
    /\ WF_vars(ParallelOn /\ Parallel!Join)

Spec == Init /\ [][Next]_vars /\ Fairness

-----------------------------------------------------------------------------
(* Properties                                                              *)

\* Each row of logits is the model's for exactly the request's own tokens,
\* whether it was computed now, earlier in a block or after a restore, and no
\* forward, capture or restore is refused, whatever was accepted, rejected or
\* dropped.  Candidates are selected from the hidden state of the request's
\* text followed by the candidates before it, in training as in generation.
LogitsExact ==
    /\ part = "draft" => Draft!LogitsExact /\ Draft!NeverRefused
    /\ part = "mtp" => Mtp!RowsExact /\ Mtp!NeverRefused /\ Mtp!ProposalsExact
    /\ part = "causal" => Causal!LogitsExact /\ Causal!NeverRefused
    /\ part = "drafted" => Drafted!RowExact
    /\ part = "heads" => Heads!RowExact /\ Heads!ProposalsAligned /\ Heads!TeacherAligned
    /\ part = "llama" => Llama!AttentionExact

\* Whatever was verified ahead, grown, forked or rolled back in between, the
\* caches of the target, the drafter and every predictor hold the fed tokens,
\* each once, in order and at the lag of its level; a request that ended has
\* left nothing, a page is held as long as a table names it, a cache at a token
\* boundary can be recorded, and no buffer is longer than its model.
CachesExact ==
    /\ part = "draft" => Draft!CachesExact /\ Draft!NothingKept
    /\ part = "mtp" => Mtp!PredictorsExact
    /\ part = "causal" => Causal!ModelsAligned /\ Causal!PagesHeld
    /\ part = "drafted" => Drafted!CachesAligned /\ Drafted!AlwaysRecordable
    /\ part = "heads" => Heads!PredictorsAligned
    /\ part = "llama" => Llama!ContentExact /\ Llama!CapacityBounded

\* Whatever ranks failed and wherever they stopped, the cache that the group
\* keeps holds on every rank exactly the tokens the scheduler counts, a prefix
\* that can be restored is the same on every rank, and when pages are freed no
\* rank's kernels still run; and every forward ends, also when ranks give up
\* before or after the collective.
RanksAgree ==
    /\ [](part = "parallel" =>
             Parallel!RanksAgree /\ Parallel!PrefixWhole /\ Parallel!PagesIdle)
    /\ (part = "parallel" /\ v5 = "forward") ~> (part = "parallel" /\ v5 # "forward")

\* The recorded context of a committed or cached slot is the one its key was
\* rotated with, in the request's own history as on the shared page, and once a
\* request has a context for a position it keeps it: recomputation after a
\* preemption rotates every key as it was rotated the first time.
ContextsStable ==
    /\ [](part = "rotary" => Rotary!SlotsMatchKeys /\ Rotary!OwnHistoryMatches)
    /\ [][(part = "rotary" => Rotary!ContextsKept)]_vars

=============================================================================
