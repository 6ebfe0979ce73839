----------------------------- MODULE SftTraining -----------------------------
(***************************************************************************)
(* The trainer, its data loader and its checkpoint directory               *)
(* (src/training/trainer.rs, data.rs), with crashes, restarts and failing  *)
(* file operations, and the trainers that own an auxiliary module and save *)
(* it with the actor (PPO's critic, the reward head: post_training.rs,     *)
(* reward.rs).                                                             *)
(*                                                                         *)
(* Parameters are abstracted to the history of updates that produced them: *)
(* an update is the step its learning rate was taken at and the batches it *)
(* saw, so that two parameter values are equal exactly when the same       *)
(* optimizer steps were applied in the same order.                         *)
(***************************************************************************)
EXTENDS Integers, FiniteSets, Sequences, SequencesExt

(***************************************************************************)
(* Training examples and the seeded, resumable, rank-sharded micro-batch   *)
(* loader (src/training/data.rs).  An example is what tokenisation leaves  *)
(* of a record: the token ids and the labels aligned with them.  The       *)
(* SplitMix64 shuffle of an epoch is the constant Shuffle: it is a         *)
(* function of the seed and the epoch alone, which is what the code's      *)
(* resumption rests on.                                                    *)
(***************************************************************************)
CONSTANTS
    Examples,       \* Seq of [input |-> Seq(Nat), labels |-> Seq(Int)]
    Shuffle,        \* Shuffle[epoch]: the permutation of 1..Len(Examples)
    MicroBatch,     \* examples per micro-batch
    LengthWindow,   \* permuted examples sorted by length together
    Rank, World     \* the shard of this loader

IGNORE_INDEX == -100

Pad == 0

Count == Len(Examples)

\* What a configuration must satisfy.
LoaderAssumption ==
    /\ Count > 0 /\ MicroBatch > 0 /\ LengthWindow > 0
    /\ World > 0 /\ Rank \in 0 .. World - 1
    /\ \A e \in DOMAIN Shuffle : IsInjective(Shuffle[e]) /\ Len(Shuffle[e]) = Count

target_count(example) ==
    Len(SelectSeq(Tail(example.labels), LAMBDA label : label >= 0))

Stretch(s, length, filler) == s \o [i \in 1 .. length - Len(s) |-> filler]

\* One padded micro-batch: inputs without their last token, labels without
\* their first, so that position i is trained on token i + 1.
collate(indices) ==
    LET chosen == [i \in DOMAIN indices |-> Examples[indices[i]]]
        longest == CHOOSE n \in {Len(chosen[i].input) : i \in DOMAIN chosen} :
                       \A i \in DOMAIN chosen : Len(chosen[i].input) <= n
        length == IF longest - 1 > 1 THEN longest - 1 ELSE 1
        tokens == [i \in DOMAIN chosen |->
                      Stretch(Front(chosen[i].input), length, Pad)]
        targets == [i \in DOMAIN chosen |->
                      Stretch(Tail(chosen[i].labels), length, IGNORE_INDEX)]
    IN  [examples |-> indices, tokens |-> tokens, targets |-> targets,
         target_count |-> Cardinality({at \in (DOMAIN targets) \X (1 .. length) :
                                            targets[at[1]][at[2]] >= 0})]

LoaderStart == [epoch |-> 0, cursor |-> 0]

\* The order of an epoch: every window of the permutation sorted by length,
\* ties in permutation order (sort_by_key is stable).
reorder(epoch) ==
    LET order == Shuffle[epoch]
        Window(i) == (i - 1) \div LengthWindow
        Before(i, j) ==
            LET a == Len(Examples[order[i]].input)
                b == Len(Examples[order[j]].input)
            IN  \/ Window(i) < Window(j)
                \/ Window(i) = Window(j) /\ (a < b \/ (a = b /\ i < j))
        place == [i \in 1 .. Count |-> Cardinality({j \in 1 .. Count : Before(j, i)}) + 1]
    IN  [k \in 1 .. Count |-> order[CHOOSE i \in 1 .. Count : place[i] = k]]

next_global(l) ==
    LET turned == l.cursor >= Count
        at == IF turned THEN [epoch |-> l.epoch + 1, cursor |-> 0] ELSE l
        end == IF at.cursor + MicroBatch < Count THEN at.cursor + MicroBatch
               ELSE Count
    IN  [state |-> [at EXCEPT !.cursor = end],
         batch |-> SubSeq(reorder(at.epoch), at.cursor + 1, end)]

\* The next n global micro-batches and the position behind them.
globals(l, n) ==
    LET behind[k \in 0 .. n] ==
            IF k = 0 THEN l ELSE next_global(behind[k - 1]).state
    IN  [state |-> behind[n],
         batches |-> [k \in 1 .. n |-> next_global(behind[k - 1]).batch]]

\* n micro-batches of this rank: of every World global ones it keeps one.
next_batches(l, n) ==
    LET g == globals(l, n * World)
    IN  [state |-> g.state,
         batches |-> [i \in 1 .. n |-> g.batches[(i - 1) * World + Rank + 1]]]

-----------------------------------------------------------------------------
CONSTANTS
    TotalSteps, Accumulation, CheckpointEvery, KeepCheckpoints,
    Vocabulary,
    Aux,          \* TRUE: PPO / reward trainer with an auxiliary module
    MaxFaults,    \* bound: crashes and failed operations
    MaxNonFinite, \* bound: steps whose loss or gradient is not finite
    RetrySave,    \* may the caller call train again after a failed save?
    Manual,       \* may the caller save between two calls of train?
    Forgetful     \* may the caller train without calling resume first?

\* What a configuration must satisfy.
TrainingAssumption ==
    /\ TotalSteps \in Nat /\ Accumulation \in Nat \ {0}
    /\ CheckpointEvery \in Nat /\ KeepCheckpoints \in Nat
    /\ {Aux, RetrySave, Manual, Forgetful} \subseteq BOOLEAN

Missing == {}                     \* a file absent or only partly written

Written(value) == {value}

Read(file) == CHOOSE value \in file : TRUE

NoPosition == [epoch |-> -1, cursor |-> 0]

NoStep == -1

\* `latest` exists but its content is not a whole name: empty or cut short, so
\* that it names no checkpoint.
Torn == -2

VARIABLES
    dirs,       \* step -> files of the directory step-N
    tmps,       \* step -> files of the directory .step-N.tmp
    latest,     \* contents of `latest`: a step, Torn, or NoStep for no file
    pc,         \* where the process is
    back,       \* where a caller's own save returns to
    mem,        \* the trainer
    loader,     \* the loader's position
    faults, nonFinite,
    confirmed   \* newest step whose save returned Ok (history variable)

disk == <<dirs, tmps, latest>>
vars == <<dirs, tmps, latest, pc, back, mem, loader, faults, nonFinite, confirmed>>

NewTrainer ==
    [trainable |-> <<>>, optimizer |-> <<>>,
     state |-> [step |-> 0, tokens |-> 0, skipped |-> 0, loader |-> NoPosition],
     extra |-> [aux |-> <<>>, optimizer |-> <<>>, cursor |-> LoaderStart]]

Files == {"trainable", "optimizer", "state", "extra"}

Empty == [file \in Files |-> Missing]

\* A trainer without an auxiliary module writes no extra file and needs none.
Complete(content) ==
    \A file \in Files \ (IF Aux THEN {} ELSE {"extra"}) : content[file] # Missing

Put(dir, step, content) ==
    [s \in DOMAIN dir \cup {step} |-> IF s = step THEN content ELSE dir[s]]

Drop(dir, steps) == [s \in DOMAIN dir \ steps |-> dir[s]]

Init ==
    /\ dirs = <<>> /\ tmps = <<>> /\ latest = NoStep
    /\ pc = "start" /\ back = "begin"
    /\ mem = NewTrainer /\ loader = LoaderStart
    /\ faults = 0 /\ nonFinite = 0 /\ confirmed = NoStep

-----------------------------------------------------------------------------
(* Resumption.                                                             *)

resume_missing ==
    /\ pc = "start"
    /\ latest = NoStep \/ Forgetful
    /\ pc' = "begin"
    /\ UNCHANGED <<disk, back, mem, loader, faults, nonFinite, confirmed>>

\* What load_checkpoint leaves in the trainer: metadata and auxiliary module
\* are read first and assigned last.
Loaded(content) ==
    [trainable |-> Read(content.trainable), optimizer |-> Read(content.optimizer),
     state |-> Read(content.state),
     extra |-> IF Aux THEN Read(content.extra) ELSE NewTrainer.extra]

\* resume() and load_checkpoint(): `latest` that names no complete checkpoint
\* is an error, and stays one.
resume ==
    /\ pc = "start"
    /\ latest # NoStep
    /\ LET readable == IF latest \in DOMAIN dirs THEN Complete(dirs[latest])
                       ELSE FALSE
       IN  /\ mem' = IF readable THEN Loaded(dirs[latest]) ELSE mem
           /\ pc' = IF readable THEN "begin" ELSE "refused"
    /\ UNCHANGED <<disk, back, loader, faults, nonFinite, confirmed>>

-----------------------------------------------------------------------------
(* The training loop.                                                      *)

\* train() restores the position the trainer state holds, if it holds one.
StartPosition(position) == IF position = NoPosition THEN loader ELSE position

train ==
    /\ pc = "begin"
    /\ loader' = StartPosition(IF Aux THEN mem.extra.cursor ELSE mem.state.loader)
    /\ pc' = "train"
    /\ UNCHANGED <<disk, back, mem, faults, nonFinite, confirmed>>

validate(batch) ==
    /\ \A i \in DOMAIN batch.tokens : \A j \in DOMAIN batch.tokens[i] :
           batch.tokens[i][j] \in 0 .. Vocabulary - 1
    /\ \A i \in DOMAIN batch.targets : \A j \in DOMAIN batch.targets[i] :
           batch.targets[i][j] < Vocabulary

Total(s) ==
    LET sum[i \in 0 .. Len(s)] == IF i = 0 THEN 0 ELSE sum[i - 1] + s[i]
    IN  sum[Len(s)]

\* What one optimizer step draws at a position: its micro-batches, their
\* targets, whether they validate, and the position behind them.
Draw(l) ==
    LET micro == next_batches(l, Accumulation)
        padded == [i \in DOMAIN micro.batches |-> collate(micro.batches[i])]
    IN  [state |-> micro.state, batches |-> micro.batches,
         normalizer |-> Total([i \in DOMAIN padded |-> padded[i].target_count]),
         valid |-> \A i \in DOMAIN padded : validate(padded[i])]

\* One optimizer step: actor, and auxiliary module exactly when the actor is.
Updated(m, update, applied) ==
    [trainable |-> IF applied THEN Append(m.trainable, update) ELSE m.trainable,
     optimizer |-> IF applied THEN Append(m.optimizer, update) ELSE m.optimizer,
     aux |-> IF applied /\ Aux THEN Append(m.extra.aux, update) ELSE m.extra.aux]

\* step() counts the step and its tokens, then train() stores the position.
NextState(m, micro, applied) ==
    [step |-> m.state.step + 1,
     tokens |-> m.state.tokens + micro.normalizer,
     skipped |-> m.state.skipped + (IF applied THEN 0 ELSE 1),
     loader |-> IF Aux THEN NoPosition ELSE micro.state]

checkpoint_due(step) ==
    \/ CheckpointEvery > 0 /\ step % CheckpointEvery = 0
    \/ step = TotalSteps

Stepped(micro, applied) ==
    LET update == [step |-> mem.state.step, batches |-> micro.batches]
        new == Updated(mem, update, applied)
    IN  /\ micro.valid
        /\ mem' = [trainable |-> new.trainable, optimizer |-> new.optimizer,
                   state |-> NextState(mem, micro, applied),
                   extra |-> [aux |-> new.aux, optimizer |-> new.aux,
                              cursor |-> IF Aux THEN micro.state
                                         ELSE LoaderStart]]
        /\ loader' = micro.state
        /\ pc' = IF checkpoint_due(mem'.state.step) THEN "clear" ELSE "train"
        /\ back' = "train"
        /\ UNCHANGED <<disk, faults, confirmed>>

step_applied ==
    /\ pc = "train" /\ mem.state.step < TotalSteps
    /\ Stepped(Draw(loader), TRUE)
    /\ UNCHANGED nonFinite

\* A loss or gradient norm that is not finite skips the update.
step_skipped ==
    /\ pc = "train" /\ mem.state.step < TotalSteps
    /\ nonFinite < MaxNonFinite /\ nonFinite' = nonFinite + 1
    /\ Stepped(Draw(loader), FALSE)

\* The device fails: train returns the error, the batches are already drawn.
step_failed ==
    /\ pc = "train" /\ mem.state.step < TotalSteps
    /\ faults < MaxFaults /\ faults' = faults + 1
    /\ loader' = Draw(loader).state
    /\ pc' = "failed"
    /\ UNCHANGED <<disk, back, mem, nonFinite, confirmed>>

finished ==
    /\ pc = "train" /\ mem.state.step = TotalSteps
    /\ pc' = "done"
    /\ UNCHANGED <<disk, back, mem, loader, faults, nonFinite, confirmed>>

-----------------------------------------------------------------------------
(* save_checkpoint_with, one action per change of the directory.           *)

Saving(at, next) ==
    /\ pc = at /\ pc' = next
    /\ UNCHANGED <<back, mem, loader, faults, nonFinite>>

\* Mutant: a temporary directory of an earlier attempt is not removed.
save_clear_Keep ==
    /\ Saving("clear", "create")
    /\ UNCHANGED <<disk, confirmed>>

save_clear ==
    /\ Saving("clear", "create")
    /\ tmps' = Drop(tmps, {mem.state.step})
    /\ UNCHANGED <<dirs, latest, confirmed>>

\* create_dir on an existing directory is an error.
save_create ==
    /\ Saving("create", IF mem.state.step \in DOMAIN tmps THEN "unsaved"
                        ELSE "trainable")
    /\ tmps' = IF mem.state.step \in DOMAIN tmps THEN tmps
               ELSE Put(tmps, mem.state.step, Empty)
    /\ UNCHANGED <<dirs, latest, confirmed>>

Order == <<"trainable", "optimizer", "state", "extra", "replace">>

save_file(i) ==
    /\ Saving(Order[i], Order[i + 1])
    /\ tmps' = [tmps EXCEPT ![mem.state.step][Order[i]] =
                               Written(mem[Order[i]])]
    /\ UNCHANGED <<dirs, latest, confirmed>>

save_replace ==
    /\ Saving("replace", "rename")
    /\ dirs' = Drop(dirs, {mem.state.step})
    /\ UNCHANGED <<tmps, latest, confirmed>>

save_rename ==
    /\ Saving("rename", "latest")
    /\ dirs' = Put(dirs, mem.state.step, tmps[mem.state.step])
    /\ tmps' = Drop(tmps, {mem.state.step})
    /\ UNCHANGED <<latest, confirmed>>

\* The write of the pointer that nothing interrupts; see Interrupted.
save_latest ==
    /\ Saving("latest", "prune")
    /\ latest' = mem.state.step
    /\ UNCHANGED <<dirs, tmps, confirmed>>

\* Mutant: the checkpoints are taken in reverse order.
Excess_Newest(steps) ==
    {s \in steps : Cardinality({t \in steps : t < s}) >=
                       (IF KeepCheckpoints > 1 THEN KeepCheckpoints ELSE 1)}

\* The oldest checkpoints beyond the number to keep, by name.
Excess(steps) ==
    {s \in steps : Cardinality({t \in steps : t > s}) >=
                       (IF KeepCheckpoints > 1 THEN KeepCheckpoints ELSE 1)}

save_prune ==
    /\ pc = "prune" /\ pc' = back
    /\ dirs' = Drop(dirs, Excess(DOMAIN dirs))
    /\ confirmed' = mem.state.step
    /\ UNCHANGED <<tmps, latest, back, mem, loader, faults, nonFinite>>

\* The caller saves outside train (save_checkpoint is public).
save_manual ==
    /\ Manual /\ pc \in {"begin", "failed", "unsaved", "done"}
    /\ back' = pc /\ pc' = "clear"
    /\ UNCHANGED <<disk, mem, loader, faults, nonFinite, confirmed>>

-----------------------------------------------------------------------------
(* Failures.                                                               *)

InSave == {"clear", "create", "trainable", "optimizer", "state", "extra",
           "replace", "rename", "latest", "prune"}

\* fs::write truncates `latest` before it writes it: what stops it, a failure or
\* a crash, may leave the old name, or the file torn.
Interrupted == IF pc = "latest" THEN {latest, Torn} ELSE {latest}

\* A file operation fails: the save returns the error and changes nothing more.
io_failed ==
    /\ pc \in InSave
    /\ faults < MaxFaults /\ faults' = faults + 1
    /\ latest' \in Interrupted
    /\ pc' = "unsaved"
    /\ UNCHANGED <<dirs, tmps, back, mem, loader, nonFinite, confirmed>>

\* After an error of train the caller may call train again ...
retry ==
    /\ pc \in {"failed"} \cup (IF RetrySave THEN {"unsaved"} ELSE {})
    /\ pc' = "begin"
    /\ UNCHANGED <<disk, back, mem, loader, faults, nonFinite, confirmed>>

\* ... or the process ends.
exit ==
    /\ pc \in {"failed", "unsaved"} /\ pc' = "down"
    /\ UNCHANGED <<disk, back, mem, loader, faults, nonFinite, confirmed>>

\* The process dies between any two operations, or inside the write of `latest`.
crash ==
    /\ pc \notin {"down", "done", "refused"}
    /\ faults < MaxFaults /\ faults' = faults + 1
    /\ latest' \in Interrupted
    /\ pc' = "down"
    /\ UNCHANGED <<dirs, tmps, back, mem, loader, nonFinite, confirmed>>

\* remove_dir_all is many operations: it may die having removed one file.
crash_removing ==
    /\ pc \in {"replace", "prune"}
    /\ faults < MaxFaults /\ faults' = faults + 1
    /\ \E s \in DOMAIN dirs \cap
               (IF pc = "replace" THEN {mem.state.step} ELSE Excess(DOMAIN dirs)) :
           dirs' = [dirs EXCEPT ![s].state = Missing]
    /\ pc' = "down"
    /\ UNCHANGED <<tmps, latest, back, mem, loader, nonFinite, confirmed>>

restart ==
    /\ pc = "down" /\ pc' = "start"
    /\ mem' = NewTrainer /\ loader' = LoaderStart
    /\ UNCHANGED <<disk, back, faults, nonFinite, confirmed>>

Settled ==
    /\ pc \in {"done", "refused"}
    /\ UNCHANGED vars

Work ==
    \/ resume_missing \/ resume
    \/ train \/ step_applied \/ finished
    \/ save_clear \/ save_create
    \/ \E i \in 1 .. 4 : save_file(i)
    \/ save_replace \/ save_rename \/ save_latest \/ save_prune
    \/ exit \/ restart

Next ==
    \/ Work \/ step_skipped \/ step_failed \/ save_manual
    \/ io_failed \/ retry \/ crash \/ crash_removing
    \/ Settled

\* Weak fairness of Work with ENABLED written out: the trainer can always go on
\* until it is done or has refused what it found.
Fairness == []<>(pc \in {"done", "refused"}) \/ []<><<Work>>_vars

Spec == Init /\ [][Next]_vars /\ Fairness

-----------------------------------------------------------------------------
(* Properties.                                                             *)

\* What an uninterrupted run sees, counted instead of stepped: the micro-batches
\* of the epochs one behind the other, of which optimizer step s of this rank
\* takes Accumulation, World apart.
PerEpoch == (Count + MicroBatch - 1) \div MicroBatch

Smaller(a, b) == IF a < b THEN a ELSE b

Micro(g) ==
    LET from == (g % PerEpoch) * MicroBatch
    IN  SubSeq(reorder(g \div PerEpoch), from + 1, Smaller(from + MicroBatch, Count))

Batches(step) ==
    [i \in 1 .. Accumulation |-> Micro((step * Accumulation + i - 1) * World + Rank)]

After(steps) ==
    LET last == steps * Accumulation * World - 1
    IN  IF steps = 0 THEN LoaderStart
        ELSE [epoch |-> last \div PerEpoch,
              cursor |-> Smaller(((last % PerEpoch) + 1) * MicroBatch, Count)]

\* A trainer's parameters, optimizer moments, auxiliary module, counters and
\* data position describe one and the same run: every step saw the batches
\* that follow those of the step before, none twice and none left out, and
\* was scheduled by its own number.  Batches drawn by a first step that failed
\* are the one thing train() does not give back.
OneRun(trainer, shift) ==
    LET position == IF Aux THEN trainer.extra.cursor ELSE trainer.state.loader
        step == trainer.state.step
    IN  /\ trainer.optimizer = trainer.trainable
        /\ Aux => /\ trainer.extra.aux = trainer.trainable
                  /\ trainer.extra.optimizer = trainer.trainable
        /\ Len(trainer.trainable) + trainer.state.skipped = step
        /\ position # NoPosition => position = After(step + shift)
        /\ \A i \in DOMAIN trainer.trainable :
               trainer.trainable[i].batches =
                   Batches(trainer.trainable[i].step + shift)
        /\ \A i, j \in DOMAIN trainer.trainable :
               i < j => trainer.trainable[i].step < trainer.trainable[j].step

\* The trainer in memory is one uninterrupted run, whatever crashes, resumes
\* and retries it went through, and so is every published checkpoint.
RunsExact ==
    /\ pc # "down" => \E shift \in 0 .. MaxFaults : OneRun(mem, shift)
    /\ \A s \in DOMAIN dirs :
           Complete(dirs[s]) =>
               /\ Read(dirs[s].state).step = s
               /\ \E shift \in 0 .. MaxFaults : OneRun(Loaded(dirs[s]), shift)

\* The tokens a trainer has counted are the labelled targets of the batches
\* it stepped over, computed from the examples and not from padded batches.
TokensCounted ==
    LET Labelled(batch) == Total([i \in DOMAIN batch |-> target_count(Examples[batch[i]])])
        Targets(step) == Total([i \in 1 .. Accumulation |-> Labelled(Batches(step)[i])])
    IN  pc # "down" =>
            \E shift \in 0 .. MaxFaults :
                /\ OneRun(mem, shift)
                /\ mem.state.tokens =
                       Total([k \in 1 .. mem.state.step |-> Targets(k - 1 + shift)])

\* Once a checkpoint has been published, `latest` names a complete one at
\* every moment but one: the write of `latest` itself is not atomic, and a crash
\* or a failure inside it may leave the pointer torn.
LatestLoadable ==
    latest \notin {NoStep, Torn} =>
        IF latest \in DOMAIN dirs THEN Complete(dirs[latest]) ELSE FALSE

\* A save that returned Ok is never lost, although later saves fail, crash or
\* remove directories: resume finds that step or a later one.  With a torn
\* pointer resume finds nothing, but the step or a later one is still there.
SavedSurvives ==
    confirmed # NoStep =>
        \E s \in DOMAIN dirs :
            /\ s >= confirmed /\ Complete(dirs[s])
            /\ latest \in {s, Torn}

\* A run with a torn pointer goes no further: it neither starts again from
\* nothing nor trains on, so nothing is overwritten before somebody looks.
TornStops ==
    latest = Torn => pc \in {"unsaved", "down", "start", "refused"}

\* With finitely many crashes and failures training ends: what an interrupted
\* save leaves behind blocks no later one, and no run repeats for ever.  It ends
\* with the last step, or where a torn pointer makes resume refuse.
TrainingFinishes ==
    <>(\/ pc = "done" /\ mem.state.step = TotalSteps
       \/ pc = "refused" /\ latest = Torn)

==============================================================================
