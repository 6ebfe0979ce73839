--------------------------- MODULE FencedScheduler ---------------------------
(***************************************************************************)
(* The completion gate around the scheduler (src/continuous_batch/         *)
(* fenced.rs): a batch is launched asynchronously, its kernels write KV at *)
(* any time until they end, and it may be committed or rolled back only    *)
(* once its fence has completed.  When nobody can tell whether device work *)
(* has stopped, the gate is quarantined for good.                          *)
(*                                                                         *)
(* The scheduler's state and operators are those of BatchScheduler.  The   *)
(* adapter keeps its contract: Ready(Ok) means the kernels have ended, and *)
(* it completes a batch only with the logits of kernels that succeeded     *)
(* (checked_argmax refuses the others).  Dropping the gate is not          *)
(* modelled: nothing happens after it.                                     *)
(***************************************************************************)
EXTENDS BatchScheduler

VARIABLES fence,        \* none, or whether the tracked fence has completed
          quarantined,
          kernel        \* the device work of the last launch

gate == <<fence, quarantined>>
fvars == <<vars, gate, kernel>>

\* kernel.state is idle, running, ok or failed; batch is what the kernels were
\* given: rows, reservations and block tables.
NoKernel == [state |-> "idle", batch |-> <<>>]

Launched(s) ==
    [state |-> "running",
     batch |-> [inFlight |-> s.inFlight,
                kv |-> [resv |-> s.kv.resv,
                        seqs |-> Restrict(s.kv.seqs, RequestsOf(s.inFlight.rows))]]]

FencedInit ==
    /\ Init
    /\ fence = "none" /\ quarantined = FALSE
    /\ kernel = NoKernel

-----------------------------------------------------------------------------
(* launch                                                                  *)

Launchable == ~quarantined /\ ~InFlight(sched) /\ HasWork

\* schedule finds nothing, but has promoted and preempted
LaunchNothing ==
    /\ Launchable /\ ~InFlight(Schedule(sched))
    /\ sched' = Schedule(sched)
    /\ UNCHANGED <<mem, closed, gate, kernel>>

LaunchBatch ==
    /\ Launchable /\ InFlight(Schedule(sched))
    /\ sched' = Schedule(sched)
    /\ fence' = "pending"
    /\ kernel' = Launched(sched')
    /\ UNCHANGED <<mem, closed, quarantined>>

\* A failed launch may be rolled back.
Recoverable(work, intact, fatal) == work # "Unknown" /\ intact /\ ~fatal

\* What a failed launch leaves in memory: anything in the batch's own slots if
\* its work was submitted, anything anywhere if the cache is not intact.
Damaged(s, work, intact) ==
    IF ~intact THEN NewMemory
    ELSE IF work = "NotSubmitted" THEN mem ELSE Written(s, FALSE)

\* submit returns a BatchLaunchFailure, or panics (which counts as Unknown)
LaunchFails(work, intact, fatal) ==
    LET s == Schedule(sched)
    IN  /\ Launchable /\ InFlight(s)
        /\ mem' = Damaged(s, work, intact)
        /\ kernel' = IF work = "Unknown" THEN Launched(s) ELSE NoKernel
        /\ IF Recoverable(work, intact, fatal)
           THEN sched' = FailBatch(s) /\ UNCHANGED quarantined
           ELSE sched' = s /\ quarantined' = TRUE
        /\ UNCHANGED <<closed, fence>>

-----------------------------------------------------------------------------
(* The device, external to the gate                                        *)

\* Running kernels may leave anything in the slots of their batch.
KernelWrites ==
    /\ kernel.state = "running"
    /\ mem' = Written(kernel.batch, FALSE)
    /\ UNCHANGED <<sched, closed, gate, kernel>>

KernelEnds(ok) ==
    /\ kernel.state = "running"
    /\ mem' = Written(kernel.batch, ok)
    /\ kernel' = [kernel EXCEPT !.state = IF ok THEN "ok" ELSE "failed"]
    /\ UNCHANGED <<sched, closed, gate>>

-----------------------------------------------------------------------------
(* poll_fence, try_complete_logits, try_rollback                           *)

\* Mutant: a fence that is still pending counts as completed.
FenceReady_Timeout == fence # "none"

\* poll_fence returns Ready, now or by an earlier poll
FenceReady == fence = "completed" \/ (fence = "pending" /\ kernel.state # "running")

\* A poll completes the fence, and the logits are refused.
RefuseLogits ==
    /\ ~quarantined /\ fence = "pending" /\ FenceReady
    /\ fence' = "completed"
    /\ UNCHANGED <<vars, quarantined, kernel>>

\* A poll returns an error or panics: no evidence that the device stopped.
FenceFails ==
    /\ ~quarantined /\ fence = "pending"
    /\ quarantined' = TRUE
    /\ UNCHANGED <<vars, fence, kernel>>

\* Mutant: the fence is not polled.
TryCompleteLogits_Unfenced ==
    /\ ~quarantined /\ fence # "none"
    /\ sched' = CompleteBatch(sched)
    /\ fence' = "none"
    /\ UNCHANGED <<mem, closed, quarantined, kernel>>

TryCompleteLogits ==
    /\ ~quarantined /\ FenceReady /\ kernel.state = "ok"
    /\ sched' = CompleteBatch(sched)
    /\ fence' = "none" /\ kernel' = NoKernel
    /\ UNCHANGED <<mem, closed, quarantined>>

\* A rollback stops no kernel.
TryRollback ==
    /\ ~quarantined /\ FenceReady
    /\ sched' = FailBatch(sched)
    /\ fence' = "none"
    /\ kernel' = IF kernel.state = "running" THEN kernel ELSE NoKernel
    /\ UNCHANGED <<mem, closed, quarantined>>

-----------------------------------------------------------------------------

\* The scheduler's own operations, refused under quarantine except pop_finished.
Delegated ==
    /\ ~quarantined
    /\ \/ \E job \in Job : SubmitJob(job)
       \/ Cancel
       \/ \E limit \in TokenLimits : SetBatchTokenLimit(limit)
    /\ UNCHANGED <<gate, kernel>>

FencedPop == PopFinished /\ UNCHANGED <<gate, kernel>>

WorkState == {"NotSubmitted", "Quiescent", "Unknown"}

FencedNext ==
    \/ Delegated \/ FencedPop
    \/ LaunchNothing \/ LaunchBatch
    \/ \E work \in WorkState, intact, fatal \in BOOLEAN : LaunchFails(work, intact, fatal)
    \/ KernelWrites
    \/ \E ok \in BOOLEAN : KernelEnds(ok)
    \/ RefuseLogits \/ FenceFails \/ TryCompleteLogits \/ TryRollback

FencedSpec == FencedInit /\ [][FencedNext]_fvars

-----------------------------------------------------------------------------
(* Properties                                                              *)

\* While the gate is healthy its fence tracks the batch in flight, so the
\* `expect` of try_complete_logits never fires and schedule is never blocked by
\* a batch that nobody can complete.
FenceTracks == ~quarantined => (InFlight(sched) <=> fence # "none")

\* Pages the running kernels may write.
KernelPages ==
    {PageOf(kernel.batch.kv.seqs[row.request].pages, i) :
        <<row, i>> \in {x \in Range(kernel.batch.inFlight.rows) \X (1..MaxSequenceLength) :
                           /\ x[2] > x[1].start
                           /\ x[2] <= x[1].start + kernel.batch.kv.resv[x[1].reservation].count}}

\* Pages that kernels may still be writing are never free, evictable, published
\* or mapped by a second request ("Reusing pages while a kernel is still writing
\* them would be unsafe").
KernelPagesHeld ==
    kernel.state = "running" =>
        \A p \in KernelPages :
            /\ p \notin Available(sched.kv)
            /\ sched.kv.block[p] = NoBlock
            /\ Cardinality(Owners(sched.kv, p)) = 1

\* While the gate is healthy, committed positions hold their request's own KV
\* whatever launches failed and whatever kernels wrote late.
ContextSafe == ~quarantined => ContextIntact

==============================================================================
