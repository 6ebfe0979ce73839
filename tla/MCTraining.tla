----------------------------- MODULE MCTraining ------------------------------
(***************************************************************************)
(* Training, checkpoint loading and the groups of ranks, each on a small   *)
(* instance of its own. A behaviour runs one component, the one `part`     *)
(* names; the variables it does not use stay Off.                          *)
(***************************************************************************)
EXTENDS Integers, Sequences, FiniteSets

VARIABLES part,  \* the component this behaviour runs
          v1, v2, v3, v4, v5, v6, v7, v8, v9, v10, v11

vars == <<part, v1, v2, v3, v4, v5, v6, v7, v8, v9, v10, v11>>

Off == "off"

-----------------------------------------------------------------------------
(* SftTraining: a checkpoint after every step of which only the newest is  *)
(* kept; three crashes or failed file operations.                          *)

\* Three examples of lengths 3, 2 and 3: one masked label, one padded row.
Batches ==
    <<[input |-> <<1, 2, 3>>, labels |-> <<-100, 2, 3>>],
      [input |-> <<4, 5>>, labels |-> <<4, 5>>],
      [input |-> <<5, 4, 2>>, labels |-> <<-100, -100, 2>>]>>

Permuted ==
    [e \in 0..19 |-> IF e % 3 = 0 THEN <<1, 2, 3>>
                     ELSE IF e % 3 = 1 THEN <<3, 1, 2>> ELSE <<2, 3, 1>>]

Sft == INSTANCE SftTraining WITH
    Examples <- Batches, Shuffle <- Permuted, MicroBatch <- 2, LengthWindow <-
    2, Rank <- 1, World <- 2, Vocabulary <- 6, MaxNonFinite <- 1,
    RetrySave <- FALSE, Manual <- FALSE, Forgetful <- FALSE,
    TotalSteps <- 3, Accumulation <- 2, CheckpointEvery <- 1, KeepCheckpoints
    <- 1, Aux <- FALSE, MaxFaults <- 3, dirs <- v1, tmps <- v2, latest <- v3,
    pc <- v4, back <- v5, mem <- v6, loader <- v7, faults <- v8, nonFinite <-
    v9, confirmed <- v10

ASSUME Sft!LoaderAssumption /\ Sft!TrainingAssumption

SftOn == part = "sft" /\ UNCHANGED <<part, v11>>

SftInit ==
    /\ part = "sft" /\ Sft!Init
    /\ v11 = Off

SftNext == SftOn /\ Sft!Next

-----------------------------------------------------------------------------
(* SftTraining: a trainer with an auxiliary module that keeps every        *)
(* checkpoint.                                                             *)

Post == INSTANCE SftTraining WITH
    Examples <- Batches, Shuffle <- Permuted, MicroBatch <- 2, LengthWindow <-
    2, Rank <- 1, World <- 2, Vocabulary <- 6, MaxNonFinite <- 1,
    RetrySave <- FALSE, Manual <- FALSE, Forgetful <- FALSE,
    TotalSteps <- 4, Accumulation <- 1, CheckpointEvery <- 2, KeepCheckpoints
    <- 0, Aux <- TRUE, MaxFaults <- 3, dirs <- v1, tmps <- v2, latest <- v3,
    pc <- v4, back <- v5, mem <- v6, loader <- v7, faults <- v8, nonFinite <-
    v9, confirmed <- v10

ASSUME Post!LoaderAssumption /\ Post!TrainingAssumption

PostOn == part = "post" /\ UNCHANGED <<part, v11>>

PostInit ==
    /\ part = "post" /\ Post!Init
    /\ v11 = Off

PostNext == PostOn /\ Post!Next

-----------------------------------------------------------------------------
(* DataParallel: two replicas, all their collectives in every order.       *)

Replicas == INSTANCE DataParallel WITH
    Replicas <- 1..2, Objectives <- {"sft", "preference", "reward", "ppo"},
    MaxCount <- 2, MaxSum <- 1, MaxSteps <- 1, MaxBad <- 2, kind <- v1, at <- v2,
    local <- v3, reduced <- v4, trainer <- v5, bad <- v6, alone <- v7

ASSUME Replicas!ReplicasAssumption

ReplicasOn == part = "replicas" /\ UNCHANGED <<part, v8, v9, v10, v11>>

ReplicasInit ==
    /\ part = "replicas" /\ Replicas!Init
    /\ v8 = Off /\ v9 = Off /\ v10 = Off /\ v11 = Off

ReplicasNext == ReplicasOn /\ Replicas!Next

-----------------------------------------------------------------------------
(* PolicyScoring: batches of two responses.                                *)

Policy == INSTANCE PolicyScoring WITH
    Tokens <- {1, 2}, MaxPrompt <- 2, MaxCompletion <- 2, MaxBatch <- 2,
    Rewards <- {-2}, Values <- {0, 1}, Ratios <- -3..3, rope <- v1, batch <-
    v2, rewards <- v3, critic <- v4, gamma <- v5, lambda <- v6, out <- v7

PolicyOn == part = "policy" /\ UNCHANGED <<part, v8, v9, v10, v11>>

PolicyInit ==
    /\ part = "policy" /\ Policy!Init
    /\ v8 = Off /\ v9 = Off /\ v10 = Off /\ v11 = Off

PolicyNext == PolicyOn /\ Policy!Next

-----------------------------------------------------------------------------
(* Checkpoint: one E4M3 tensor; extents that overlap or leave gaps.        *)

File == INSTANCE Checkpoint WITH
    Name <- {"a", "b"}, Float8 <- {"b"}, Extent <- {<<0, 1>>, <<1, 2>>}, Size
    <- [n \in {"a", "b"} |-> 1], Payload <- {2}, MaxDim <- 2, dir <- v1, fp8
    <- v2, phase <- v3, files <- v4, at <- v5, tensors <- v6, encoded <- v7,
    cut <- v8

FileOn == part = "file" /\ UNCHANGED <<part, v9, v10, v11>>

FileInit ==
    /\ part = "file" /\ File!Init
    /\ v9 = Off /\ v10 = Off /\ v11 = Off

FileNext == FileOn /\ File!Next

-----------------------------------------------------------------------------
(* RankLoading: the model families with divisible and indivisible heads.   *)

Plain == [family |-> "llama", heads |-> 4, kv |-> 4, width |-> 2, hidden |-> 8, ff |-> 4, lk |-> 0,
          lv |-> 0, experts |-> {}, sparse |-> {}, linear |-> {}, bias |-> FALSE, tied |-> FALSE,
          stacked |-> FALSE, encoded |-> {}, block |-> 1]

Heads == {<<4, 4>>, <<4, 2>>, <<4, 1>>, <<2, 1>>, <<6, 3>>}

Configs ==
    {[Plain EXCEPT !.heads = s[1], !.kv = s[2], !.bias = b, !.tied = t] :
        s \in Heads, b, t \in BOOLEAN}
    \cup {[Plain EXCEPT !.family = "qwen3", !.heads = s[1], !.kv = s[2], !.bias = TRUE,
                        !.sparse = p, !.experts = IF p = {} THEN {} ELSE {0, 1}] :
              s \in Heads, p \in {{}, {1}, {0, 1}}}
    \cup {[Plain EXCEPT !.family = "qwen35", !.heads = s[1], !.kv = s[2], !.bias = TRUE, !.ff = f,
                        !.lk = k, !.lv = 4, !.linear = {0}, !.sparse = p,
                        !.experts = IF p = {} THEN {} ELSE {0}, !.stacked = k # 2 /\ p # {},
                        !.encoded = e, !.block = b] :
              s \in {<<4, 2>>, <<2, 1>>}, k \in {1, 2, 4}, p \in {{}, {0, 1}},
              e \in {{}, {"q", "k", "v", "o", "gate", "up", "down"}, {"gate", "up"}},
              f \in {8, 12}, b \in {2, 4}}
    \cup {[Plain EXCEPT !.family = "mla", !.bias = b, !.sparse = {1}, !.experts = 0..3] :
              b \in BOOLEAN}

Load == INSTANCE RankLoading WITH
    Configs <- Configs, DeviceLists <- {<<>>, <<1>>, <<1, 2>>, <<1, 1>>, <<1,
    2, 3>>, <<1, 2, 3, 4>>}, Stray <- {<<0, "rope", -1>>}, NextN <- {<<2,
    "mtp", -1>>}, config <- v1, devices <- v2, tensors <- v3, eosFile <- v4,
    phase <- v5, ranks <- v6, eos <- v7

LoadOn == part = "load" /\ UNCHANGED <<part, v8, v9, v10, v11>>

LoadInit ==
    /\ part = "load" /\ Load!Init
    /\ v8 = Off /\ v9 = Off /\ v10 = Off /\ v11 = Off

LoadNext == LoadOn /\ Load!Next

-----------------------------------------------------------------------------
(* RankGroup: groups of up to two ranks of every kind of layer.            *)

Layered == [llama |-> <<"full", "full">>, qwen3 |-> <<"full", "full">>,
            qwen35 |-> <<"delta", "full">>, ep |-> <<"dense", "sparse", "sparse">>]

Group == INSTANCE RankGroup WITH
    Kinds <- {"llama", "qwen3", "qwen35", "ep"}, Shape <- Layered, Models <-
    {"a"}, MaxWorld <- 2, Capacity <- 3, MaxBlock <- 2, Rows <- {1, 2},
    MaxCalls <- 3, MaxFaults <- 1, MaxRestarts <- 0, group <- v1, cache <- v2,
    phase <- v3, call <- v4, th <- v5, result <- v6, trusted <- v7, saved <-
    v8, calls <- v9, faults <- v10, restarts <- v11

GroupOn == part = "group" /\ UNCHANGED part

GroupInit ==
    /\ part = "group" /\ Group!Init

GroupNext == GroupOn /\ Group!Next

-----------------------------------------------------------------------------
(* RankGroup: a group restarted with another model or world restores a     *)
(* record.                                                                 *)

Records == INSTANCE RankGroup WITH
    Kinds <- {"qwen35", "ep"}, Shape <- Layered, Models <- {"a", "b"},
    MaxWorld <- 2, Capacity <- 2, MaxBlock <- 1, Rows <- {1}, MaxCalls <- 2,
    MaxFaults <- 0, MaxRestarts <- 1, group <- v1, cache <- v2, phase <- v3,
    call <- v4, th <- v5, result <- v6, trusted <- v7, saved <- v8, calls <-
    v9, faults <- v10, restarts <- v11

RecordsOn == part = "records" /\ UNCHANGED part

RecordsInit ==
    /\ part = "records" /\ Records!Init

RecordsNext == RecordsOn /\ Records!Next

-----------------------------------------------------------------------------
Init ==
    \/ SftInit
    \/ PostInit
    \/ ReplicasInit
    \/ PolicyInit
    \/ FileInit
    \/ LoadInit
    \/ GroupInit
    \/ RecordsInit

Next ==
    \/ SftNext
    \/ PostNext
    \/ ReplicasNext
    \/ PolicyNext
    \/ FileNext
    \/ LoadNext
    \/ GroupNext
    \/ RecordsNext

Fairness ==
    /\ \A r \in 1..2 : WF_vars(\/ GroupOn /\ r \in Group!Ranks /\ Group!RankStep(r)
                               \/ RecordsOn /\ r \in Records!Ranks /\ Records!RankStep(r))
    /\ WF_vars((GroupOn /\ Group!AllReduce) \/ (RecordsOn /\ Records!AllReduce))
    /\ WF_vars((GroupOn /\ Group!Join) \/ (RecordsOn /\ Records!Join))
    /\ []<>(part # "sft" \/ v4 \in {"done", "refused"}) \/ []<><<SftOn /\ Sft!Work>>_vars

Spec == Init /\ [][Next]_vars /\ Fairness

-----------------------------------------------------------------------------
(* Properties                                                              *)

\* The trainer in memory, and every published checkpoint, is one uninterrupted
\* run, whatever crashes, resumes and retries it went through, with the tokens
\* counted that it stepped over.  For a caller that resumes first and lets train
\* do the saving, a save that returned Ok is never lost, and `latest` names a
\* complete checkpoint unless a crash or a failure fell inside the write of the
\* pointer itself, which is not atomic (trainer.rs:719); then resume refuses, no
\* run goes on, and the checkpoint is still in the directory.
RunsExact ==
    /\ part = "sft" => /\ Sft!RunsExact /\ Sft!TokensCounted
                       /\ Sft!LatestLoadable /\ Sft!SavedSurvives /\ Sft!TornStops
    /\ part = "post" => Post!RunsExact /\ Post!SavedSurvives /\ Post!TornStops

\* Between two steps of an objective the replicas hold the same parameters,
\* auxiliary module and counters: the gradient every one applies is the global
\* sum over the global number of targets, and a step that is not finite on one is
\* skipped by all, actor and auxiliary module together.  Two exceptions, both of
\* the supervised step: each replica asks its own loss (trainer.rs:636), so that
\* replicas part when a loss, but no gradient, is not finite on one of them; and
\* the gradient is the global mean only of batches with equally many targets.
ReplicasAgree ==
    part = "replicas" => /\ Replicas!ReplicasAgree /\ Replicas!AuxTogether
                         /\ Replicas!GlobalMean /\ Replicas!NonFiniteSkipped

\* Every action is scored on exactly the prefix, and under exactly the rotary
\* contexts, the sampler had when it chose it, however responses are packed;
\* rewards, returns, advantages and the clipped loss follow from those: returns
\* are discounted sums, group advantages cancel out and leaving the clip range
\* never pays.
ScoredAsSampled ==
    part = "policy" =>
        /\ Policy!ScoredAsSampled /\ Policy!OutcomeAlone /\ Policy!ReturnsExact
        /\ Policy!OneStepExact /\ Policy!GroupCentred /\ Policy!ClipPessimistic

\* The ranks together are the whole model: what is cut out of a checkpoint file
\* is the selected block of the tensor the index names, every head, column and
\* expert is summed exactly once and attends what it attends in the whole
\* model, FP8 rows keep the scale of their block, and no tensor is ignored.
\* When a reduction completes every rank is in the same one; a call that
\* returned logits, or a record that was captured, leaves every layer of every
\* rank with exactly the text fed so far, and no rank turns back alone.
RanksExact ==
    /\ part = "file" => File!IndexObeyed /\ File!PayloadTiled /\ File!CutExact
    /\ part = "load" => /\ Load!SumExact /\ Load!PairExact /\ Load!ScaleExact
                        /\ Load!NothingIgnored /\ Load!EosAgrees
    /\ part = "group" => /\ Group!ReductionsAligned /\ Group!OkExact
                         /\ Group!RecordExact /\ Group!RefusedTogether
    /\ part = "records" => Records!OkExact /\ Records!RecordExact

\* With finitely many crashes and failures training ends, because what an
\* interrupted save leaves behind blocks no later one and no run repeats for
\* ever: with the last step, or with a refusal to resume from a pointer whose
\* write was interrupted.  Every call of a rank group returns, also when a rank
\* fails or panics in it and whatever the others wait for; that a reduction fails
\* in the ranks whose peer has left is what is assumed of ruCCL (Abort).
TrainingFinishes ==
    /\ part = "sft" ~> (part = "sft" /\ (\/ v4 = "done" /\ v6.state.step = 3
                                         \/ v4 = "refused" /\ v3 = Sft!Torn))
    /\ (part \in {"group", "records"} /\ v3 = "running") ~>
           (part \in {"group", "records"} /\ v3 = "idle")

=============================================================================
