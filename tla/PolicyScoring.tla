---------------------------- MODULE PolicyScoring ----------------------------
(***************************************************************************)
(* What post-training computes from a batch of responses: the packed       *)
(* layout (ResponseLayout), log probabilities, values and rewards through  *)
(* it or prefix by prefix, generalised advantages, group advantages and    *)
(* the clipped objectives (src/training/post_training.rs,                  *)
(* post_training/packed.rs, reward.rs).                                    *)
(*                                                                         *)
(* A forward of the model is the history it depends on: the tokens of the  *)
(* document up to the position and, when the rotary frequencies follow the *)
(* append context (Runtime RoPE), the context of each of them.             *)
(***************************************************************************)
EXTENDS Integers, FiniteSetsExt, SequencesExt

CONSTANTS
    Tokens, MaxPrompt, MaxCompletion, MaxBatch,   \* bounds of the responses
    Rewards, Values,     \* small sets of integers
    Ratios               \* likelihood ratios in units of the clip range

VARIABLES
    rope,       \* are the rotary frequencies a function of the context?
    batch,      \* Seq of responses
    rewards,    \* per response, per completion token, the KL penalty included
    critic,     \* per response: a value per state, the last one included
    gamma, lambda,   \* numerators over two
    out         \* what the trainer computed, empty before it ran

vars == <<rope, batch, rewards, critic, gamma, lambda, out>>

NoHistory == <<>>    \* a Response without recorded append contexts

Length(r) == Len(r.prompt) + Len(r.completion)

\* ResponseRecord::validate, the part about recorded contexts.
ContextsValid(r) ==
    r.contexts # NoHistory =>
        /\ Len(r.contexts) = Length(r)
        /\ \A i \in 1 .. Length(r) : r.contexts[i] \in i .. Length(r)
        /\ \A i \in 1 .. Length(r) - 1 : r.contexts[i] <= r.contexts[i + 1]

SeqUpTo(S, low, high) == UNION {[1 .. n -> S] : n \in low .. high}

\* Contexts a rollout records: chunks of the prompt, then one per token.
Histories(p, c) ==
    {h \in [1 .. p + c -> 1 .. p + c] :
        /\ \A i \in 1 .. p : h[i] \in {1, p} /\ h[i] >= i
        /\ \A i \in 1 .. p - 1 : h[i] <= h[i + 1]
        /\ \A i \in p + 1 .. p + c : h[i] = i}

Responses ==
    UNION {[prompt : [1 .. p -> Tokens], completion : [1 .. c -> Tokens],
            terminal : BOOLEAN, contexts : {NoHistory} \cup Histories(p, c)] :
           p \in 1 .. MaxPrompt, c \in 1 .. MaxCompletion}

-----------------------------------------------------------------------------
(* The packed layout.                                                      *)

Input(r, includeLast) ==
    LET all == r.prompt \o r.completion
    IN  IF includeLast THEN all ELSE Front(all)

ContextsOf(r, length) ==
    IF r.contexts # NoHistory THEN SubSeq(r.contexts, 1, length)
    ELSE [i \in 1 .. length |-> length]

Sum(s, n) ==
    LET sum[i \in 0 .. n] == IF i = 0 THEN 0 ELSE sum[i - 1] + s[i]
    IN  sum[n]

\* The position (from one) whose output predicts the first completion token.
ActionStart(offset, r) == offset + Len(r.prompt)

ResponseLayout(rs, includeLast) ==
    LET lengths == [i \in DOMAIN rs |-> Len(Input(rs[i], includeLast))]
        offsets == [i \in DOMAIN rs |-> Sum(lengths, i - 1)]
    IN  [tokens |-> FlattenSeq([i \in DOMAIN rs |-> Input(rs[i], includeLast)]),
         contexts |-> FlattenSeq([i \in DOMAIN rs |-> ContextsOf(rs[i], lengths[i])]),
         boundaries |-> [i \in DOMAIN rs |-> <<offsets[i] + 1, offsets[i] + lengths[i]>>],
         actions |-> [i \in DOMAIN rs |->
             LET start == ActionStart(offsets[i], rs[i])
             IN  <<start, start + Len(rs[i].completion) - 1 + (IF includeLast THEN 1 ELSE 0)>>]]

\* The document a packed position belongs to.
Document(layout, position) ==
    layout.boundaries[CHOOSE i \in DOMAIN layout.boundaries :
        position \in layout.boundaries[i][1] .. layout.boundaries[i][2]]

\* The packed forward: the history of one position within its document.
Packed(layout, position) ==
    LET first == Document(layout, position)[1]
    IN  [tokens |-> SubSeq(layout.tokens, first, position),
         contexts |-> IF rope THEN SubSeq(layout.contexts, first, position) ELSE <<>>]

Slice(layout, range) ==
    [k \in 1 .. range[2] - range[1] + 1 |-> Packed(layout, range[1] + k - 1)]

\* Scored alone on a prefix, as the sampler saw it.
Prefix(r, length) ==
    [tokens |-> SubSeq(r.prompt \o r.completion, 1, length),
     contexts |-> IF rope THEN ContextsOf(r, length) ELSE <<>>]

\* Mutant: the whole batch goes through the packed layout.
NeedsPrefixes_Never(rs) == FALSE

\* Prefix by prefix is needed when the contexts were not recorded.
NeedsPrefixes(rs) == rope /\ \E i \in DOMAIN rs : rs[i].contexts = NoHistory

probabilities_many(rs) ==
    IF NeedsPrefixes(rs)
    THEN [i \in DOMAIN rs |->
             [k \in 1 .. Len(rs[i].completion) |-> Prefix(rs[i], Len(rs[i].prompt) + k - 1)]]
    ELSE LET layout == ResponseLayout(rs, FALSE)
         IN  [i \in DOMAIN rs |-> Slice(layout, layout.actions[i])]

critic_many(rs) ==
    IF NeedsPrefixes(rs)
    THEN [i \in DOMAIN rs |->
             [k \in 1 .. Len(rs[i].completion) + 1 |-> Prefix(rs[i], Len(rs[i].prompt) + k - 1)]]
    ELSE LET layout == ResponseLayout(rs, TRUE)
         IN  [i \in DOMAIN rs |-> Slice(layout, layout.actions[i])]

reward_many(rs) ==
    LET layout == ResponseLayout(rs, TRUE)
    IN  [i \in DOMAIN rs |-> Packed(layout, layout.boundaries[i][2])]

-----------------------------------------------------------------------------
(* Advantages.  gamma and lambda are halves; everything is scaled by       *)
(* Scale(n) so that n multiplications by gamma * lambda stay whole.        *)

Scale(n) == 4 ^ (n + 1)

Power(b, e) == IF e = 0 THEN 1 ELSE b ^ e

NextValue(r, v, t, n) == IF t = n /\ r.terminal THEN 0 ELSE v[t + 1]

Carry(i) == 0

prepare_rollout(i) ==
    LET r == batch[i]
        v == critic[i]
        n == Len(r.completion)
        S == Scale(n)
        delta == [t \in 1 .. n |->
            rewards[i][t] * S + (gamma * NextValue(r, v, t, n) * S) \div 2 - v[t] * S]
        gae[t \in 1 .. n + 1] ==
            IF t = n + 1 THEN Carry(i)
            ELSE delta[t] + (gamma * lambda * gae[t + 1]) \div 4
    IN  [advantages |-> [t \in 1 .. n |-> gae[t]],
         returns |-> [t \in 1 .. n |-> gae[t] + v[t] * S]]

\* GRPO: the deviation from the group's mean, before the common division by
\* the standard deviation (which is positive); scaled by the group's size.
prepare_group ==
    LET total == Sum([i \in DOMAIN batch |-> rewards[i][1]], Len(batch))
    IN  [i \in DOMAIN batch |-> rewards[i][1] * Len(batch) - total]

Least(a, b) == IF a < b THEN a ELSE b

Clip(ratio) == IF ratio < -1 THEN -1 ELSE IF ratio > 1 THEN 1 ELSE ratio

\* The policy objective as a function of (ratio - 1) / clip_ratio.
Surrogate(ratio, advantage) == Least(ratio * advantage, Clip(ratio) * advantage)

\* Sparse outcome rewards: zero except on the last action.
token_rewards(r, reward) ==
    [k \in 1 .. Len(r.completion) |-> IF k = Len(r.completion) THEN reward ELSE 0]

-----------------------------------------------------------------------------

Init ==
    /\ rope \in BOOLEAN
    /\ batch \in SeqUpTo(Responses, 1, MaxBatch)
    /\ \A i, j \in DOMAIN batch : batch[i].prompt = batch[j].prompt
    /\ \A i \in DOMAIN batch : ContextsValid(batch[i])
    /\ \E reward \in Rewards :
           rewards = [i \in DOMAIN batch |->
               token_rewards(batch[i], IF i = 1 THEN reward ELSE 1)]
    /\ \E v \in Values, last \in Values :
           critic = [i \in DOMAIN batch |->
               [t \in 1 .. Len(batch[i].completion) + 1 |->
                   IF t > Len(batch[i].completion) THEN last ELSE v]]
    /\ gamma \in 0 .. 2 /\ lambda \in 0 .. 2
    /\ Len(batch) > 1 => gamma = 1 /\ lambda = 2   \* keeps the instance small
    /\ out = <<>>

Prepare ==
    /\ out = <<>>
    /\ out' = [scores |-> probabilities_many(batch), states |-> critic_many(batch),
               outcome |-> reward_many(batch),
               rollouts |-> [i \in DOMAIN batch |-> prepare_rollout(i)],
               group |-> IF Len(batch) < 2 THEN <<>> ELSE prepare_group]   \* refused
    /\ UNCHANGED <<rope, batch, rewards, critic, gamma, lambda>>

Settled == out # <<>> /\ UNCHANGED vars

Next == Prepare \/ Settled

Spec == Init /\ [][Next]_vars

-----------------------------------------------------------------------------
(* Properties.                                                             *)

\* Every action is scored on exactly the prefix, and under exactly the rotary
\* contexts, the sampler had when it chose it; every value on its own state.
\* Packing several ragged responses changes nothing.
ScoredAsSampled ==
    out # <<>> =>
        \A i \in DOMAIN batch :
            LET r == batch[i]
            IN  /\ Len(out.scores[i]) = Len(r.completion)
                /\ Len(out.states[i]) = Len(r.completion) + 1
                /\ \A k \in 1 .. Len(r.completion) :
                       out.scores[i][k] = Prefix(r, Len(r.prompt) + k - 1)
                /\ \A k \in 1 .. Len(r.completion) + 1 :
                       out.states[i][k] = Prefix(r, Len(r.prompt) + k - 1)

\* A response's reward is read at its own last token, as when scored alone.
OutcomeAlone ==
    out # <<>> =>
        \A i \in DOMAIN batch : out.outcome[i] = Prefix(batch[i], Length(batch[i]))

\* With lambda = 1 the return of an action is the discounted sum of its later
\* rewards, plus the discounted value of the state where a response was cut
\* off by its length, and of nothing when it ended.
ReturnsExact ==
    out # <<>> /\ lambda = 2 =>
        \A i \in DOMAIN batch :
            LET r == batch[i]
                n == Len(r.completion)
                Discounted(t) ==
                    MapThenSumSet(LAMBDA k :
                        (rewards[i][k] * Power(gamma, k - t) * Scale(n)) \div Power(2, k - t), t .. n)
                Bootstrap(t) ==
                    IF r.terminal THEN 0
                    ELSE (critic[i][n + 1] * Power(gamma, n + 1 - t) * Scale(n))
                             \div Power(2, n + 1 - t)
            IN  \A t \in 1 .. n :
                    out.rollouts[i].returns[t] = Discounted(t) + Bootstrap(t)

\* With lambda = 0 an advantage is the one-step temporal difference.
OneStepExact ==
    out # <<>> /\ lambda = 0 =>
        \A i \in DOMAIN batch :
            LET n == Len(batch[i].completion)
                S == Scale(n)
            IN  \A t \in 1 .. n :
                    out.rollouts[i].advantages[t] =
                        rewards[i][t] * S - critic[i][t] * S
                        + (IF t = n /\ batch[i].terminal THEN 0
                           ELSE (gamma * critic[i][t + 1] * S) \div 2)

\* The advantages of a group cancel out, so that a group of equal rewards
\* teaches nothing, and a better response never gets the smaller one.
GroupCentred ==
    out # <<>> /\ Len(batch) > 1 =>
        /\ Sum(out.group, Len(batch)) = 0
        /\ \A i, j \in DOMAIN batch :
               rewards[i][1] < rewards[j][1] <=> out.group[i] < out.group[j]

\* Moving a likelihood ratio further in the direction its advantage favours
\* never pays once it has left the clip range, and moving it back always does
\* until it is inside again.
ClipPessimistic ==
    out # <<>> =>
        \A i \in DOMAIN out.group, x \in Ratios :
            LET a == out.group[i]
                toward == IF a > 0 THEN 1 ELSE -1
            IN  a # 0 =>
                    /\ x * toward >= 1 => Surrogate(x + toward, a) = Surrogate(x, a)
                    /\ x * toward < -1 => Surrogate(x + toward, a) > Surrogate(x, a)
                    /\ Surrogate(x, a) <= x * a

==============================================================================
