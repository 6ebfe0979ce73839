----------------------------- MODULE DataParallel -----------------------------
(***************************************************************************)
(* One optimizer step of data-parallel replicas: supervised steps          *)
(* (SftTrainer::step), preference and group objectives (objective_step),   *)
(* a reward model with its head (objective_step_with_aux) and PPO with its *)
(* critic.  A replica stops at every collective until all have arrived     *)
(* (ruCCL's mean all-reduce, external); what it does between two of them   *)
(* is its own.  A gradient is a sum over the replica's targets divided by  *)
(* the normalizer; a mean of fractions is kept as numerator and divisor.   *)
(* A supervised step reduces its gradients only: its loss and its number   *)
(* of targets stay the replica's own.                                      *)
(***************************************************************************)
EXTENDS Integers, FiniteSets, FiniteSetsExt, SequencesExt

CONSTANTS
    Replicas,
    Objectives,   \* which kinds of step the run takes
    MaxCount,     \* bound: targets of a replica's local batch
    MaxSum,       \* bound: magnitude of a local gradient sum
    MaxSteps,     \* bound: optimizer steps
    MaxBad        \* bound: non-finite values over the whole run

\* What a configuration must satisfy.
ReplicasAssumption == IsFiniteSet(Replicas) /\ Replicas # {}

VARIABLES
    kind,     \* the objective being stepped, "idle" between two steps
    at,       \* replica -> index of the collective it has arrived at (0: none)
    local,    \* replica -> its batch and what its own arithmetic gave
    reduced,  \* collective -> result, for the step under way
    trainer,  \* replica -> its parameters and counters
    alone,    \* replica -> supervised steps it skipped for its own loss (history)
    bad

vars == <<kind, at, local, reduced, trainer, alone, bad>>

N == Cardinality(Replicas)

\* The collectives of a step, in program order.
Collectives(k) ==
    CASE k = "sft" -> <<"grads">>
      [] k = "preference" -> <<"normalizer", "grads", "loss", "allowed">>
      [] k = "reward" -> <<"normalizer", "grads", "auxGrads", "loss", "allowed">>
      [] k = "ppo" -> <<"normalizer", "auxGrads", "auxLoss", "grads", "loss", "allowed">>
      [] OTHER -> <<>>

HasAux(k) == k \in {"reward", "ppo"}

NewTrainer == [weights |-> <<>>, aux |-> <<>>, step |-> 0, skipped |-> 0]

NoBatch == [count |-> 1, sum |-> 0, grads |-> TRUE, loss |-> TRUE,
            auxGrads |-> TRUE, auxLoss |-> TRUE]

Init ==
    /\ kind = "idle"
    /\ at = [r \in Replicas |-> 0]
    /\ local = [r \in Replicas |-> NoBatch]
    /\ reduced = <<>>
    /\ trainer = [r \in Replicas |-> NewTrainer]
    /\ alone = [r \in Replicas |-> {}]
    /\ bad = 0

\* Every replica has its own batch; any of its values may come out non-finite.
Begin(k) ==
    /\ kind = "idle"
    /\ \A r \in Replicas : trainer[r].step < MaxSteps
    /\ \E flags \in [Replicas -> SUBSET {"grads", "loss", "auxGrads", "auxLoss"}],
          counts \in [Replicas -> 1 .. MaxCount],
          sums \in [Replicas -> -MaxSum .. MaxSum] :
        /\ \A r \in Replicas :
               flags[r] \subseteq {"grads", "loss"} \cup
                   (IF HasAux(k) THEN {"auxGrads"} ELSE {}) \cup
                   (IF k = "ppo" THEN {"auxLoss"} ELSE {})
        /\ bad' = bad + Cardinality({p \in Replicas \X
                      {"grads", "loss", "auxGrads", "auxLoss"} : p[2] \in flags[p[1]]})
        /\ bad' <= MaxBad
        /\ local' = [r \in Replicas |->
                [count |-> counts[r], sum |-> sums[r],
                 grads |-> "grads" \notin flags[r], loss |-> "loss" \notin flags[r],
                 auxGrads |-> "auxGrads" \notin flags[r],
                 auxLoss |-> "auxLoss" \notin flags[r]]]
    /\ kind' = k /\ reduced' = <<>>
    /\ UNCHANGED <<at, trainer, alone>>

\* A replica computes up to its next collective and waits there.
Arrive(r) ==
    /\ kind # "idle"
    /\ at[r] = Len(reduced) /\ at[r] < Len(Collectives(kind))
    /\ at' = [at EXCEPT ![r] = @ + 1]
    /\ UNCHANGED <<kind, local, reduced, trainer, alone, bad>>

\* What PPO passes on: whether the critic's update is finite, after reduction.
Allowed(results) ==
    \A i \in DOMAIN results :
        results[i].name \in {"auxGrads", "auxLoss"} => results[i].finite

TotalCount == MapThenSumSet(LAMBDA r : local[r].count, Replicas)

TotalSum == MapThenSumSet(LAMBDA r : local[r].sum, Replicas)

\* The mean over the replicas of what each contributes to a collective.
Mean(name) ==
    CASE name = "normalizer" ->
             [name |-> name, finite |-> TRUE, num |-> TotalCount, den |-> N]
      [] name = "allowed" ->
             [name |-> name, finite |-> IF kind = "ppo" THEN Allowed(reduced) ELSE TRUE,
              num |-> N, den |-> N]
      [] OTHER ->
             [name |-> name, finite |-> \A r \in Replicas : local[r][name],
              num |-> TotalSum, den |-> N]

Reduce ==
    /\ kind # "idle"
    /\ Len(reduced) < Len(Collectives(kind))
    /\ \A r \in Replicas : at[r] = Len(reduced) + 1
    /\ reduced' = Append(reduced, Mean(Collectives(kind)[Len(reduced) + 1]))
    /\ UNCHANGED <<kind, at, local, trainer, alone, bad>>

Finite(name) ==
    \A i \in DOMAIN reduced : reduced[i].name = name => reduced[i].finite

\* Mutant: the objective decides with its own loss, as the supervised step does.
Applied_Local(r) ==
    /\ Finite("grads") /\ Finite("auxGrads") /\ Finite("allowed")
    /\ local[r].loss

\* Whether a replica applies the update it has computed.
Applied(r) ==
    IF kind = "sft" THEN Finite("grads") /\ local[r].loss
    ELSE Finite("grads") /\ Finite("auxGrads") /\ Finite("loss") /\ Finite("allowed")

\* The reduced gradient.  An objective divides the local sums by the mean count,
\* so that the mean over the replicas is the global sum over the global count; a
\* supervised step divides by its own count, and the result is a mean of means.
Gradient ==
    LET Others(r) == FoldSet(LAMBDA s, product : local[s].count * product, 1, Replicas \ {r})
    IN  IF kind = "sft"
        THEN [num |-> MapThenSumSet(LAMBDA r : local[r].sum * Others(r), Replicas),
              den |-> MapThenSumSet(LAMBDA r : local[r].count * Others(r), Replicas)]
        ELSE [num |-> TotalSum, den |-> TotalCount]

AuxApplied(r) == Applied(r)

Update(r) ==
    /\ kind # "idle" /\ Len(reduced) = Len(Collectives(kind))
    /\ at[r] = Len(reduced)
    /\ LET t == trainer[r]
           change == [step |-> t.step, kind |-> kind]
       IN  trainer' = [trainer EXCEPT ![r] =
               [weights |-> IF Applied(r) THEN Append(t.weights, change) ELSE t.weights,
                aux |-> IF HasAux(kind) /\ AuxApplied(r) THEN Append(t.aux, change)
                        ELSE t.aux,
                step |-> t.step + 1,
                skipped |-> t.skipped + (IF Applied(r) THEN 0 ELSE 1)]]
    /\ alone' = [alone EXCEPT ![r] =
           IF kind = "sft" /\ Finite("grads") /\ ~local[r].loss
           THEN @ \cup {trainer[r].step} ELSE @]
    /\ at' = [at EXCEPT ![r] = @ + 1]
    /\ UNCHANGED <<kind, local, reduced, bad>>

Done ==
    /\ kind # "idle"
    /\ \A r \in Replicas : at[r] = Len(Collectives(kind)) + 1
    /\ kind' = "idle" /\ at' = [r \in Replicas |-> 0]
    /\ local' = [r \in Replicas |-> NoBatch] /\ reduced' = <<>>
    /\ UNCHANGED <<trainer, alone, bad>>

\* Training is over: no replica is left waiting at a collective.
Settled ==
    /\ kind = "idle" /\ \A r \in Replicas : trainer[r].step = MaxSteps
    /\ UNCHANGED vars

Next ==
    \/ \E k \in Objectives : Begin(k)
    \/ \E r \in Replicas : Arrive(r) \/ Update(r)
    \/ Reduce \/ Done \/ Settled

Spec == Init /\ [][Next]_vars

-----------------------------------------------------------------------------
(* Properties.                                                             *)

Stepping == kind # "idle" /\ reduced # <<>>

\* Between two steps the replicas hold the same parameters, the same auxiliary
\* module and the same counters, whatever was finite on which of them.  The
\* exception is a supervised step: it asks its own loss, which nothing reduces, so
\* replicas that skipped different steps for that reason have parted.
ReplicasAgree ==
    kind = "idle" => \A r, s \in Replicas :
        /\ trainer[r].step = trainer[s].step
        /\ alone[r] = alone[s] => trainer[r] = trainer[s]

\* Actor and auxiliary module are updated by the same steps: neither trains on
\* a step the other skipped.
AuxTogether ==
    \A r \in Replicas :
        trainer[r].aux = SelectSeq(trainer[r].weights, LAMBDA u : HasAux(u.kind))

\* The gradient every replica applies is the global sum over the global number
\* of targets: for an objective also with batches of different sizes, for a
\* supervised step when every replica has the same number of targets.
GlobalMean ==
    (/\ Stepping
     /\ kind = "sft" => \A r, s \in Replicas : local[r].count = local[s].count) =>
        Gradient.num * TotalCount = TotalSum * Gradient.den

\* Whose loss and gradients a replica's decision to apply a step depends on.
Asked(r) ==
    {<<s, name>> \in Replicas \X {"loss", "grads", "auxLoss", "auxGrads"} :
        kind = "sft" /\ name # "grads" => s = r}

\* A step on which some replica's loss or gradient is not finite is skipped by
\* every replica; a supervised step by every replica only for a gradient, by the
\* replica itself for a loss.
NonFiniteSkipped ==
    \A r \in Replicas :
        /\ kind # "idle" /\ at[r] > Len(Collectives(kind))
        /\ \E value \in Asked(r) : ~local[value[1]][value[2]]
        => \A i \in DOMAIN trainer[r].weights :
               trainer[r].weights[i].step # trainer[r].step - 1

==============================================================================
