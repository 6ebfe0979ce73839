---------------------------- MODULE ReplicaPool ----------------------------
(***************************************************************************)
(* Replica workers and their pool (src/runtime/worker.rs): threads that    *)
(* each own one model replica, a bounded queue of jobs per thread, permits *)
(* that bound the jobs outstanding, and handles that callers wait on.      *)
(*                                                                         *)
(* One step is one access to shared state: an atomic load, store or        *)
(* update, a queue operation, or a critical section of a result cell.      *)
(*                                                                         *)
(* Data abstractions: a caller has one job, named after it; a result is    *)
(* its kind (ok, recoverable, fatal, panicked, refused).  try_submit sorts *)
(* the workers by counters that other threads change during the sort, so   *)
(* any order may result.                                                   *)
(***************************************************************************)
EXTENDS Integers, Sequences, FiniteSets, SequencesExt

CONSTANTS Caller,       \* threads or tasks that submit a job each
          Workers,      \* the number of workers of the pool
          Capacity,     \* max_outstanding of each worker
          Panicky       \* callers whose executor's Waker::wake may panic

None == "none"

ASSUME PoolAssumption ==
    /\ IsFiniteSet(Caller) /\ None \notin Caller
    /\ Workers \in Nat \ {0} /\ Capacity \in Nat \ {0}
    /\ Panicky \subseteq Caller

Worker == 1..Workers

VARIABLES
    thread,       \* worker threads: pc, the job in hand, what is done with it,
                  \* `failed`, and the replica
    queue,        \* the jobs sent to each worker
    outstanding,  \* permits taken
    quarantined, stopping, open, \* flags; open: the pool still has the sender
    caller,       \* callers: pc and the workers still to try
    cell,         \* result cells: value and registered waker
    cancelled,    \* cancellation flags
    ran,          \* how each job's operation ended, and on which worker
    pool          \* the owner of the pool: pc, the worker it is at, its result

shared == <<queue, outstanding, quarantined, stopping, open>>
vars == <<thread, shared, caller, cell, cancelled, ran, pool>>

Init ==
    /\ thread = [w \in Worker |-> [pc |-> "init", job |-> None, doing |-> None,
                                   result |-> None, failed |-> FALSE, replica |-> None]]
    /\ queue = [w \in Worker |-> <<>>]
    /\ outstanding = [w \in Worker |-> 0]
    /\ quarantined = [w \in Worker |-> FALSE]
    /\ stopping = [w \in Worker |-> FALSE]
    /\ open = [w \in Worker |-> TRUE]
    /\ caller = [c \in Caller |-> [pc |-> "idle", left |-> <<>>]]
    /\ cell = [c \in Caller |-> [value |-> None, waker |-> FALSE]]
    /\ cancelled = [c \in Caller |-> FALSE]
    /\ ran = [c \in Caller |-> [result |-> None, at |-> 0]]
    /\ pool = [pc |-> "open", at |-> 0, joins |-> FALSE, error |-> FALSE]

-----------------------------------------------------------------------------
(* Submitting: try_submit, reserve_slot, submit_reserved                   *)

Orders == SetToSeqs(Worker) \cup {<<w>> : w \in Worker}

\* pool.try_submit, or try_submit of one worker (worker_for); the pool is
\* borrowed, so it is not being shut down
Submit(c) ==
    /\ caller[c].pc = "idle" /\ pool.pc \in {"open", "closed"}
    /\ \E order \in Orders : caller' = [caller EXCEPT ![c] = [pc |-> "check", left |-> order]]
    /\ UNCHANGED <<thread, shared, cell, cancelled, ran, pool>>

\* The worker refuses: try the next, or return the last error.
Refused(c) ==
    LET rest == Tail(caller[c].left)
    IN  caller' = [caller EXCEPT ![c] = [pc |-> IF rest = <<>> THEN "idle" ELSE "check",
                                         left |-> rest]]

CheckQuarantine(c) ==
    /\ caller[c].pc = "check"
    /\ IF quarantined[Head(caller[c].left)]
       THEN Refused(c)
       ELSE caller' = [caller EXCEPT ![c].pc = "reserve"]
    /\ UNCHANGED <<thread, shared, cell, cancelled, ran, pool>>

\* Mutant: one permit too many.
Reservable_OffByOne(w) == ~stopping[w] /\ open[w] /\ outstanding[w] <= Capacity

Reservable(w) == ~stopping[w] /\ open[w] /\ outstanding[w] < Capacity

\* The rest of reserve_slot: the counter goes up unless it is at the capacity.
Reserve(c) ==
    LET w == Head(caller[c].left)
    IN  /\ caller[c].pc = "reserve"
        /\ IF Reservable(w)
           THEN /\ outstanding' = [outstanding EXCEPT ![w] = @ + 1]
                /\ caller' = [caller EXCEPT ![c].pc = "send"]
           ELSE Refused(c) /\ UNCHANGED outstanding
        /\ UNCHANGED <<thread, queue, quarantined, stopping, open, cell, cancelled, ran, pool>>

\* try_send: a dead thread has dropped its receiver, and the unsent job
\* releases its permit
Send(c) ==
    LET w == Head(caller[c].left)
    IN  /\ caller[c].pc = "send"
        /\ IF thread[w].pc = "crashed"
           THEN /\ caller' = [caller EXCEPT ![c] = [pc |-> "idle", left |-> <<>>]]
                /\ outstanding' = [outstanding EXCEPT ![w] = @ - 1]
                /\ UNCHANGED queue
           ELSE /\ caller' = [caller EXCEPT ![c].pc = "ready"]
                /\ queue' = [queue EXCEPT ![w] = Append(@, c)]
                /\ UNCHANGED outstanding
        /\ UNCHANGED <<thread, quarantined, stopping, open, cell, cancelled, ran, pool>>

-----------------------------------------------------------------------------
(* Handles: wait, poll, cancel, drop                                       *)

\* A poll takes the value or registers the waker.
PollHandle(c) ==
    /\ caller[c].pc \in {"ready", "parked"}
    /\ IF cell[c].value # None
       THEN caller' = [caller EXCEPT ![c].pc = "done"] /\ UNCHANGED cell
       ELSE /\ caller' = [caller EXCEPT ![c].pc = "parked"]
            /\ cell' = [cell EXCEPT ![c].waker = TRUE]
    /\ UNCHANGED <<thread, shared, cancelled, ran, pool>>

\* wait takes the value or blocks on the condition variable.
WaitHandle(c) ==
    /\ caller[c].pc \in {"ready", "waiting"}
    /\ caller' = [caller EXCEPT ![c].pc = IF cell[c].value # None THEN "done" ELSE "blocked"]
    /\ UNCHANGED <<thread, shared, cell, cancelled, ran, pool>>

\* A CancellationFlag can be used while its handle is being waited on.
CancelJob(c) ==
    /\ caller[c].pc \in {"ready", "parked", "blocked", "waiting"} /\ ~cancelled[c]
    /\ cancelled' = [cancelled EXCEPT ![c] = TRUE]
    /\ UNCHANGED <<thread, shared, caller, cell, ran, pool>>

DropHandle(c) ==
    /\ caller[c].pc \in {"ready", "parked"}
    /\ caller' = [caller EXCEPT ![c].pc = "gone"]
    /\ cancelled' = [cancelled EXCEPT ![c] = TRUE]
    /\ UNCHANGED <<thread, shared, cell, ran, pool>>

-----------------------------------------------------------------------------
(* The worker thread                                                       *)

Fatal == {"fatal", "panicked"}

Goes(w, pc) == [thread EXCEPT ![w].pc = pc]

\* The initializer returns a replica, or fails.
Initialize(w, ok) ==
    /\ thread[w].pc = "init"
    /\ thread' = [thread EXCEPT ![w].pc = IF ok THEN "recv" ELSE "mark",
                                ![w].replica = IF ok THEN "live" ELSE None,
                                ![w].failed = ~ok, ![w].doing = "init"]
    /\ UNCHANGED <<shared, caller, cell, cancelled, ran, pool>>

Receive(w) ==
    /\ thread[w].pc = "recv" /\ queue[w] # <<>>
    /\ thread' = [thread EXCEPT ![w].pc = "check", ![w].job = Head(queue[w])]
    /\ queue' = [queue EXCEPT ![w] = Tail(@)]
    /\ UNCHANGED <<outstanding, quarantined, stopping, open, caller, cell, cancelled, ran, pool>>

\* Mutant: an earlier failure is not looked at.
Refuses_IgnoresFailure(w) == stopping[w] \/ cancelled[thread[w].job]

\* A failed or stopping worker, and a cancelled job, do not run.
Refuses(w) == thread[w].failed \/ stopping[w] \/ cancelled[thread[w].job]

Check(w) ==
    /\ thread[w].pc = "check"
    /\ thread' = IF Refuses(w)
                 THEN [thread EXCEPT ![w].pc = "publish", ![w].doing = "refuse",
                                     ![w].result = "refused"]
                 ELSE Goes(w, "run")
    /\ UNCHANGED <<shared, caller, cell, cancelled, ran, pool>>

\* The operation returns a result, which it publishes itself, or panics.
Run(w, result) ==
    /\ thread[w].pc = "run"
    /\ ran' = [ran EXCEPT ![thread[w].job] = [result |-> result, at |-> w]]
    /\ thread' = [thread EXCEPT
                    ![w].pc = IF result = "panicked" THEN "mark" ELSE "publish",
                    ![w].doing = IF result = "panicked" THEN "panic" ELSE "operation",
                    ![w].result = result]
    /\ UNCHANGED <<shared, caller, cell, cancelled, pool>>

\* thread after the result of its job is settled
Settled(w) ==
    IF thread[w].doing = "operation" /\ thread[w].result \in Fatal
    THEN Goes(w, "mark")
    ELSE [thread EXCEPT ![w].pc = "release", ![w].failed = @ \/ thread[w].doing = "panic"]

Completes(c) == cell[c].value = None

\* Mutant: a cancellation that came while the operation ran is believed.
Publish_LateCancel(w) ==
    LET c == thread[w].job
    IN  /\ thread[w].pc = "publish"
        /\ IF Completes(c)
           THEN /\ cell' = [cell EXCEPT ![c].value =
                                IF cancelled[c] THEN "refused" ELSE thread[w].result]
                /\ thread' = Goes(w, "wake")
           ELSE thread' = Settled(w) /\ UNCHANGED cell
        /\ UNCHANGED <<shared, caller, cancelled, ran, pool>>

\* ResultCell::complete up to the unlock: the first value stays
Publish(w) ==
    LET c == thread[w].job
    IN  /\ thread[w].pc = "publish"
        /\ IF Completes(c)
           THEN /\ cell' = [cell EXCEPT ![c].value = thread[w].result]
                /\ thread' = Goes(w, "wake")
           ELSE thread' = Settled(w) /\ UNCHANGED cell
        /\ UNCHANGED <<shared, caller, cancelled, ran, pool>>

\* Mutant: only the condition variable is signalled.
Woken_WaitersOnly(pc) == IF pc = "blocked" THEN "waiting" ELSE pc

\* notify_all, and the waker if one was registered
Woken(pc) == CASE pc = "blocked" -> "waiting" [] pc = "parked" -> "ready" [] OTHER -> pc

Wake(w) ==
    LET c == thread[w].job
    IN  /\ thread[w].pc = "wake"
        /\ caller' = [caller EXCEPT ![c].pc = Woken(@)]
        /\ cell' = [cell EXCEPT ![c].waker = FALSE]
        /\ thread' = Settled(w)
        /\ UNCHANGED <<shared, cancelled, ran, pool>>

\* wake panics.  Inside the operation the panic is caught; outside it kills
\* the thread, which drops the receiver, the queued jobs and the replica.
WakePanics(w) ==
    LET c == thread[w].job
        woken == IF caller[c].pc = "blocked" THEN "waiting" ELSE caller[c].pc
    IN  /\ c \in Panicky
        /\ thread[w].pc = "wake" /\ cell[c].waker
        /\ caller' = [caller EXCEPT ![c].pc = woken]
        /\ cell' = [cell EXCEPT ![c].waker = FALSE]
        /\ IF thread[w].doing = "operation"
           THEN /\ thread' = [thread EXCEPT ![w].pc = "mark", ![w].doing = "panic",
                                            ![w].result = "panicked"]
                /\ UNCHANGED <<queue, outstanding>>
           ELSE /\ thread' = [thread EXCEPT ![w].pc = "crashed", ![w].job = None,
                                ![w].replica = IF @ = "live" THEN "dropped" ELSE @]
                /\ queue' = [queue EXCEPT ![w] = <<>>]
                /\ outstanding' = [outstanding EXCEPT ![w] = @ - 1 - Len(queue[w])]
        /\ UNCHANGED <<quarantined, stopping, open, cancelled, ran, pool>>

\* The quarantine flag is stored.
Mark(w) ==
    /\ thread[w].pc = "mark"
    /\ quarantined' = [quarantined EXCEPT ![w] = TRUE]
    /\ thread' = CASE thread[w].doing = "init" -> Goes(w, "recv")
                   [] thread[w].doing = "panic" -> Goes(w, "publish")
                   [] OTHER -> [thread EXCEPT ![w].pc = "release", ![w].failed = TRUE]
    /\ UNCHANGED <<queue, outstanding, stopping, open, caller, cell, cancelled, ran, pool>>

\* The job is dropped, and with it the permit.
Release(w) ==
    /\ thread[w].pc = "release"
    /\ outstanding' = [outstanding EXCEPT ![w] = @ - 1]
    /\ thread' = [thread EXCEPT ![w].pc = "recv", ![w].job = None,
                                ![w].doing = None, ![w].result = None]
    /\ UNCHANGED <<queue, quarantined, stopping, open, caller, cell, cancelled, ran, pool>>

\* Mutant: the replica is dropped whatever happened to it.
Retained_Never(w) == FALSE

\* A failed replica is leaked, a healthy one dropped.
Retained(w) == thread[w].failed

\* The sender is gone and the queue drained.
Exit(w) ==
    /\ thread[w].pc = "recv" /\ queue[w] = <<>> /\ ~open[w]
    /\ thread' = [thread EXCEPT ![w].pc = "exited",
                    ![w].replica = IF @ # "live" THEN @
                                   ELSE IF Retained(w) THEN "leaked" ELSE "dropped"]
    /\ UNCHANGED <<shared, caller, cell, cancelled, ran, pool>>

-----------------------------------------------------------------------------
(* The owner: shutdown and drop                                            *)

Submitting == {c \in Caller : caller[c].pc \in {"check", "reserve", "send"}}

\* shutdown needs the pool exclusively (&mut self); dropping it does not join
Close(joins) ==
    /\ pool.pc = "open" /\ Submitting = {}
    /\ pool' = [pool EXCEPT !.pc = "stop", !.at = 1, !.joins = joins]
    /\ UNCHANGED <<thread, shared, caller, cell, cancelled, ran>>

StopWorker ==
    /\ pool.pc = "stop"
    /\ stopping' = [stopping EXCEPT ![pool.at] = TRUE]
    /\ pool' = [pool EXCEPT !.pc = "take"]
    /\ UNCHANGED <<thread, queue, outstanding, quarantined, open, caller, cell, cancelled, ran>>

\* The owner is finished with the worker it is at.
Advanced(error) ==
    [pool EXCEPT !.at = IF @ = Workers THEN @ ELSE @ + 1,
                 !.error = error,
                 !.pc = CASE pool.at < Workers -> "stop"
                          [] pool.joins -> "closed"
                          [] OTHER -> "dropped"]

TakeSender ==
    /\ pool.pc = "take"
    /\ open' = [open EXCEPT ![pool.at] = FALSE]
    /\ pool' = IF pool.joins THEN [pool EXCEPT !.pc = "join"] ELSE Advanced(FALSE)
    /\ UNCHANGED <<thread, queue, outstanding, quarantined, stopping, caller, cell, cancelled, ran>>

Ended(w) == thread[w].pc \in {"exited", "crashed"}

JoinThread ==
    /\ pool.pc = "join" /\ Ended(pool.at)
    /\ pool' = Advanced(pool.error \/ thread[pool.at].pc = "crashed")
    /\ UNCHANGED <<thread, shared, caller, cell, cancelled, ran>>

-----------------------------------------------------------------------------

Submission(c) == Submit(c) \/ CheckQuarantine(c) \/ Reserve(c) \/ Send(c)

ThreadStep(w) ==
    \/ \E ok \in BOOLEAN : Initialize(w, ok)
    \/ Receive(w) \/ Check(w)
    \/ \E result \in {"ok", "recoverable"} \cup Fatal : Run(w, result)
    \/ Publish(w) \/ Wake(w) \/ WakePanics(w) \/ Mark(w) \/ Release(w) \/ Exit(w)

OwnerStep == StopWorker \/ TakeSender \/ JoinThread

Next ==
    \/ \E c \in Caller : \/ Submission(c) \/ PollHandle(c) \/ WaitHandle(c)
                         \/ CancelJob(c) \/ DropHandle(c)
    \/ \E w \in Worker : ThreadStep(w)
    \/ \E joins \in BOOLEAN : Close(joins)
    \/ OwnerStep

Spec == Init /\ [][Next]_vars

\* Threads run and operations return; a task that was woken polls again; an
\* owner that began to shut down goes on.
FairSpec ==
    /\ Spec
    /\ \A w \in Worker : WF_vars(ThreadStep(w))
    /\ \A c \in Caller :
          /\ WF_vars(caller[c].pc = "ready" /\ PollHandle(c))
          /\ WF_vars(caller[c].pc = "waiting" /\ WaitHandle(c))
    /\ WF_vars(OwnerStep)

-----------------------------------------------------------------------------
(* Properties                                                              *)

\* Counters stay natural numbers and jobs, replicas and results of their kinds.
TypeOK ==
    /\ \A w \in Worker :
          /\ thread[w].job \in Caller \cup {None}
          /\ thread[w].replica \in {None, "live", "dropped", "leaked"}
          /\ queue[w] \in Seq(Caller)
    /\ outstanding \in [Worker -> Nat]
    /\ \A c \in Caller : cell[c].value \in {None, "ok", "recoverable", "refused"} \cup Fatal

\* Callers whose permit of worker w is taken and not yet released.
Permits(w) ==
    {c \in Caller : \/ caller[c].pc = "send" /\ Head(caller[c].left) = w
                    \/ c \in Range(queue[w])
                    \/ thread[w].job = c}

\* The counter is the number of permits held, never above the capacity, and so
\* the channel has room for every job that holds one: submit_reserved never
\* meets a full queue, and no permit is lost or returned twice (SlotPermit).
PermitsExact ==
    \A w \in Worker :
        /\ outstanding[w] = Cardinality(Permits(w))
        /\ outstanding[w] <= Capacity
        /\ \A c \in Caller :
              caller[c].pc = "send" /\ Head(caller[c].left) = w => Len(queue[w]) < Capacity

\* A published result is what really happened: the operation's own result or
\* panic if it ran, a refusal only if it never ran (ResultCell::complete).
ResultTruthful ==
    \A c \in Caller :
        cell[c].value # None =>
            cell[c].value = IF ran[c].result = None THEN "refused" ELSE ran[c].result

\* "The worker then refuses every later job": no operation starts on a replica
\* that an operation left in a fatal state, or that was never initialized.
NoRunAfterFailure ==
    \A w \in Worker :
        thread[w].pc = "run" =>
            /\ thread[w].replica = "live"
            /\ \A c \in Caller : ran[c].at = w => ran[c].result \notin Fatal

\* "Failed/quarantined state is deliberately retained (leaked) on thread
\* exit": a replica on which an operation failed fatally is never dropped, but
\* by a panic outside the operation, which unwinds the thread.
FailedStateRetained ==
    \A w \in Worker :
        thread[w].pc # "crashed" /\ (\E c \in Caller : ran[c].at = w /\ ran[c].result \in Fatal)
            => thread[w].replica # "dropped"

\* "Cancels queued work and waits for the current cooperative job to finish":
\* once shutdown has returned without an error no thread runs, every permit is
\* back and every job that was sent has its result.
ShutdownSettles ==
    pool.pc = "closed" /\ ~pool.error =>
        /\ \A w \in Worker : thread[w].pc = "exited" /\ outstanding[w] = 0
        /\ \A c \in Caller :
              caller[c].pc \in {"ready", "parked", "blocked", "waiting", "done", "gone"}
                  => cell[c].value # None

\* Every handle that is waited on or polled gets its result, through shutdown,
\* drop, cancellation and failures of the replica, unless its own waker panicked
\* or another's has killed a thread; and a shutdown that has begun returns.
EveryHandleResolves ==
    /\ \A c \in Caller :
          caller[c].pc \in {"parked", "blocked"}
              ~> \/ caller[c].pc \in {"done", "gone"}
                 \/ c \in Panicky /\ caller[c].pc = "parked" /\ ~cell[c].waker
                 \/ \E w \in Worker : thread[w].pc = "crashed"
    /\ pool.pc = "stop" ~> pool.pc \in {"closed", "dropped"}

=============================================================================
