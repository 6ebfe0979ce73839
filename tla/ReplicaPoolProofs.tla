-------------------------- MODULE ReplicaPoolProofs --------------------------
(***************************************************************************)
(* The safety of the replica workers for every number of callers and       *)
(* workers and every capacity: an inductive invariant in named parts, each *)
(* preserved by every shared access, and the theorems it gives.            *)
(***************************************************************************)
EXTENDS ReplicaPool, FiniteSetTheorems, SequenceTheorems, TLAPS

-----------------------------------------------------------------------------
(* The invariant                                                           *)

ThreadPc == {"init", "recv", "check", "run", "publish", "wake", "mark",
             "release", "exited", "crashed"}
Unsent   == {"idle", "check", "reserve", "send"}
Sent     == {"ready", "parked", "waiting", "blocked", "done", "gone"}
Doing    == {None, "init", "refuse", "operation", "panic"}
Result   == {None, "ok", "recoverable", "refused"} \cup Fatal
Replica  == {None, "live", "dropped", "leaked"}

Thread == [pc : ThreadPc, job : Caller \cup {None}, doing : Doing,
           result : Result, failed : BOOLEAN, replica : Replica]

Submitter == [pc : Unsent \cup Sent, left : Seq(Worker)]
Cell   == [value : Result, waker : BOOLEAN]
Record == [result : Result, at : Worker \cup {0}]
Owner  == [pc : {"open", "stop", "take", "join", "closed", "dropped"},
           at : Worker \cup {0}, joins : BOOLEAN, error : BOOLEAN]

\* What each shared variable holds.
Types ==
    /\ thread \in [Worker -> Thread]
    /\ queue \in [Worker -> Seq(Caller)]
    /\ outstanding \in [Worker -> Int]
    /\ quarantined \in [Worker -> BOOLEAN]
    /\ stopping \in [Worker -> BOOLEAN]
    /\ open \in [Worker -> BOOLEAN]
    /\ caller \in [Caller -> Submitter]
    /\ cell \in [Caller -> Cell]
    /\ cancelled \in [Caller -> BOOLEAN]
    /\ ran \in [Caller -> Record]
    /\ pool \in Owner

\* A caller that is submitting is at a worker.
CallerPhase(pc, left) == pc \in {"check", "reserve", "send"} => left # <<>>

\* A thread has a job in hand, or none, as its program counter says.
ThreadPhase(pc, job, doing) ==
    /\ pc \in {"check", "run", "publish", "wake", "release"} => job # None
    /\ pc \in {"init", "recv", "exited", "crashed"} => job = None
    /\ pc = "mark" => \/ doing = "init" /\ job = None
                      \/ doing \in {"operation", "panic"} /\ job # None
    /\ pc \in {"publish", "wake"} => doing \in {"refuse", "operation", "panic"}

\* What a caller that is submitting, a thread and the owner have in hand.
Phases ==
    /\ \A c \in Caller : CallerPhase(caller[c].pc, caller[c].left)
    /\ \A w \in Worker : ThreadPhase(thread[w].pc, thread[w].job, thread[w].doing)
    /\ pool.pc \in {"stop", "take", "join"} => pool.at \in Worker

\* The jobs a worker has received and not yet released.
Held(w) == {c \in Caller : c \in Range(queue[w]) \/ thread[w].job = c}

\* A job that was sent is in one place, and one that was not in none.
Places ==
    /\ \A w \in Worker : IsInjective(queue[w]) /\ thread[w].job \notin Range(queue[w])
    /\ \A w, v \in Worker : w # v => Held(w) \cap Held(v) = {}
    /\ \A c \in Caller : caller[c].pc \in Unsent => \A w \in Worker : c \notin Held(w)

\* Every permit is held by one job.
Counted ==
    \A w \in Worker : /\ outstanding[w] = Cardinality(Permits(w))
                      /\ outstanding[w] <= Capacity

\* The result the job's operation had, or the refusal of one that never ran.
Outcome(c) == IF ran[c].result = None THEN "refused" ELSE ran[c].result

\* The job of caller c has not run and has no result.
Fresh(c) == ran[c].result = None /\ cell[c].value = None

\* The job in hand has not been run before the thread decides to, and what the
\* thread is going to publish is what happened, unless a first answer stands.
InHand(w) ==
    LET c == thread[w].job
    IN  /\ thread[w].pc \in {"check", "run"} => Fresh(c)
        /\ thread[w].pc = "publish" \/ (thread[w].pc = "mark" /\ thread[w].doing = "panic")
              => cell[c].value # None \/ thread[w].result = Outcome(c)
        /\ thread[w].pc \in {"publish", "mark"}
              => thread[w].result # None \/ thread[w].doing = "init"
        /\ thread[w].pc = "wake" => cell[c].value # None

\* Only the thread that has a job in hand runs it and answers it.
Truthful ==
    /\ \A c \in Caller : caller[c].pc \in Unsent => Fresh(c)
    /\ \A w \in Worker : InHand(w) /\ \A c \in Range(queue[w]) : Fresh(c)
    /\ ResultTruthful

\* An operation on worker w has failed fatally.
Broken(w) == \E c \in Caller : ran[c].at = w /\ ran[c].result \in Fatal

\* The thread is on its way to recording a fatal failure.
Recording(w) ==
    /\ thread[w].pc \in {"publish", "wake", "mark"}
    /\ \/ thread[w].doing = "panic"
       \/ thread[w].doing = "operation" /\ thread[w].result \in Fatal

\* A fatal failure is recorded before the next job is looked at, and a thread
\* that has recorded none has a live replica until it ends.
Failures ==
    \A w \in Worker :
        /\ thread[w].pc = "run" => ~thread[w].failed
        /\ Broken(w) /\ thread[w].pc # "crashed" => thread[w].failed \/ Recording(w)
        /\ thread[w].pc \notin {"init", "exited", "crashed"} /\ ~thread[w].failed
              => thread[w].replica = "live"
        /\ thread[w].pc = "init" => ~Broken(w) /\ thread[w].replica = None
        /\ thread[w].pc = "mark" => thread[w].failed \/ Recording(w)
        /\ thread[w].pc \notin {"exited", "crashed"} => thread[w].replica # "dropped"
        /\ thread[w].pc = "exited" /\ thread[w].failed => thread[w].replica # "dropped"
        /\ thread[w].pc = "crashed" => Panicky # {}

IInv ==
    /\ Types
    /\ Phases
    /\ Places
    /\ Counted
    /\ Truthful
    /\ Failures

-----------------------------------------------------------------------------
(* What each step does, field by field                                     *)

\* After the step, thread w is in this state and the others as before.
ThreadIs(w, pc, job, doing, result, failed, replica) ==
    /\ thread' \in [Worker -> Thread]
    /\ thread'[w].pc = pc /\ thread'[w].job = job
    /\ thread'[w].doing = doing /\ thread'[w].result = result
    /\ thread'[w].failed = failed /\ thread'[w].replica = replica
    /\ \A v \in Worker \ {w} : thread'[v] = thread[v]

\* A thread that is given a new state.
LEMMA ThreadBecomes ==
    ASSUME Types, NEW w \in Worker, NEW t \in Thread, thread' = [thread EXCEPT ![w] = t]
    PROVE  ThreadIs(w, t.pc, t.job, t.doing, t.result, t.failed, t.replica)
  BY DEF Types, ThreadIs

\* The types of one thread's fields.
LEMMA ThreadTypes ==
    ASSUME Types, NEW w \in Worker
    PROVE  /\ thread[w] \in Thread
           /\ thread[w].pc \in ThreadPc /\ thread[w].job \in Caller \cup {None}
           /\ thread[w].doing \in Doing /\ thread[w].result \in Result
           /\ thread[w].failed \in BOOLEAN /\ thread[w].replica \in Replica
  BY DEF Types, Thread

\* The workers are tried in some order, and at least one is.
LEMMA OrdersType ==
    \A order \in Orders : order \in Seq(Worker) /\ order # <<>>
  <1>1. IsFiniteSet(Worker) /\ Cardinality(Worker) = Workers
    BY FS_Interval, PoolAssumption DEF Worker
  <1>2. ASSUME NEW order \in SetToSeqs(Worker) PROVE order \in Seq(Worker) /\ order # <<>>
    <2>1. order \in [1 .. Workers -> Worker]
      BY <1>1 DEF SetToSeqs
    <2>2. order \in Seq(Worker) /\ Len(order) = Workers
      BY <2>1, PoolAssumption
    <2> QED
      BY <2>2, PoolAssumption
  <1>3. ASSUME NEW w \in Worker PROVE <<w>> \in Seq(Worker) /\ <<w>> # <<>>
    OBVIOUS
  <1> QED
    BY <1>2, <1>3 DEF Orders

\* After the step, caller c is in this state and the others as before.
CallerIs(c, pc, left) ==
    /\ caller' \in [Caller -> Submitter]
    /\ caller'[c].pc = pc /\ caller'[c].left = left
    /\ \A d \in Caller \ {c} : caller'[d] = caller[d]

\* A caller that is given a new state.
LEMMA CallerBecomes ==
    ASSUME Types, NEW c \in Caller, NEW t \in Submitter, caller' = [caller EXCEPT ![c] = t]
    PROVE  CallerIs(c, t.pc, t.left)
  BY DEF Types, CallerIs

\* The types of one caller's fields.
LEMMA CallerTypes ==
    ASSUME Types, NEW c \in Caller
    PROVE  /\ caller[c] \in Submitter
           /\ caller[c].pc \in Unsent \cup Sent /\ caller[c].left \in Seq(Worker)
  BY DEF Types, Submitter

\* The worker that a submitting caller is at.
LEMMA HeadOfLeft ==
    ASSUME Types, Phases, NEW c \in Caller, caller[c].pc \in {"check", "reserve", "send"}
    PROVE  /\ Head(caller[c].left) \in Worker
           /\ Tail(caller[c].left) \in Seq(Worker)
  <1>1. caller[c].left \in Seq(Worker) /\ caller[c].left # <<>>
    BY CallerTypes DEF Phases, CallerPhase
  <1> QED
    BY <1>1

\* A refused caller goes on to the next worker or gives up.
LEMMA RefusedEffect ==
    ASSUME Types, Phases, NEW c \in Caller, caller[c].pc \in {"check", "reserve"}, Refused(c)
    PROVE  CallerIs(c, IF Tail(caller[c].left) = <<>> THEN "idle" ELSE "check", Tail(caller[c].left))
  <1> DEFINE t == [pc |-> IF Tail(caller[c].left) = <<>> THEN "idle" ELSE "check",
                   left |-> Tail(caller[c].left)]
  <1>1. t \in Submitter
    BY CallerTypes, HeadOfLeft DEF Submitter, Unsent, Sent
  <1>2. caller' = [caller EXCEPT ![c] = t]
    BY DEF Refused
  <1>3. CallerIs(c, t.pc, t.left)
    BY <1>1, <1>2, CallerBecomes
  <1> QED
    BY <1>3, CallerTypes DEF Submitter

\* A caller that only goes on to another place.
LEMMA MovesEffect ==
    ASSUME Types, NEW c \in Caller, NEW pc \in Unsent \cup Sent, caller' = [caller EXCEPT ![c].pc = pc]
    PROVE  CallerIs(c, pc, caller[c].left)
  <1> DEFINE t == [caller[c] EXCEPT !.pc = pc]
  <1>1. t \in Submitter
    BY CallerTypes DEF Submitter, Unsent, Sent
  <1>2. caller' = [caller EXCEPT ![c] = t]
    BY DEF Types
  <1>3. CallerIs(c, t.pc, t.left)
    BY <1>1, <1>2, CallerBecomes
  <1> QED
    BY <1>3, CallerTypes DEF Submitter

\* The order that Submit chose is not empty.
LEMMA SubmitEffect ==
    ASSUME Types, NEW c \in Caller, Submit(c)
    PROVE  \E order \in Seq(Worker) : order # <<>> /\ CallerIs(c, "check", order)
  <1>1. PICK order \in Orders : caller' = [caller EXCEPT ![c] = [pc |-> "check", left |-> order]]
    BY DEF Submit
  <1>2. order \in Seq(Worker) /\ order # <<>>
    BY OrdersType
  <1> DEFINE t == [pc |-> "check", left |-> order]
  <1>3. t \in Submitter
    BY <1>2 DEF Submitter, Unsent
  <1>4. CallerIs(c, t.pc, t.left)
    BY <1>1, <1>3, CallerBecomes
  <1> QED
    BY <1>2, <1>4

\* A send that met a dead thread.
LEMMA SendFailsEffect ==
    ASSUME Types, NEW c \in Caller, caller' = [caller EXCEPT ![c] = [pc |-> "idle", left |-> <<>>]]
    PROVE  CallerIs(c, "idle", <<>>)
  <1> DEFINE t == [pc |-> "idle", left |-> <<>>]
  <1>1. t \in Submitter
    BY DEF Submitter, Unsent
  <1>2. CallerIs(c, t.pc, t.left)
    BY <1>1, CallerBecomes
  <1> QED
    BY <1>2

\* A thread between receive and release holds a job.
LEMMA JobInHand ==
    ASSUME Types, Phases, NEW w \in Worker,
           thread[w].pc \in {"check", "run", "publish", "wake", "release"}
    PROVE  thread[w].job \in Caller
  BY ThreadTypes DEF Phases, ThreadPhase

\* Initialize
LEMMA InitializeEffect ==
    ASSUME Types, NEW w \in Worker, NEW ok \in BOOLEAN, Initialize(w, ok)
    PROVE  /\ thread[w].pc = "init"
           /\ UNCHANGED <<queue, outstanding, quarantined, stopping, open, caller,
                         cell, cancelled, ran, pool>>
           /\ ok =>
                 ThreadIs(w, "recv", thread[w].job, "init", thread[w].result, FALSE, "live")
           /\ ~ok =>
                 ThreadIs(w, "mark", thread[w].job, "init", thread[w].result, TRUE, None)
  <1>1. thread[w].pc = "init" /\ UNCHANGED <<queue, outstanding, quarantined, stopping, open, caller,
              cell, cancelled, ran, pool>>
    BY DEF Initialize, shared
  <1>2. ASSUME ok
        PROVE  ThreadIs(w, "recv", thread[w].job, "init", thread[w].result, FALSE, "live")
    <2> DEFINE t == [thread[w] EXCEPT !.pc = "recv",
                                  !.doing = "init",
                                  !.failed = FALSE,
                                  !.replica = "live"]
    <2>1. t \in Thread
      BY ThreadTypes DEF Thread, ThreadPc, Doing, Result, Replica, Fatal
    <2>2. thread' = [thread EXCEPT ![w] = t]
      BY <1>2 DEF Initialize
    <2>3. ThreadIs(w, t.pc, t.job, t.doing, t.result, t.failed, t.replica)
      BY <2>1, <2>2, ThreadBecomes
    <2> QED
      BY <2>3, ThreadTypes DEF Thread
  <1>3. ASSUME ~ok
        PROVE  ThreadIs(w, "mark", thread[w].job, "init", thread[w].result, TRUE, None)
    <2> DEFINE t == [thread[w] EXCEPT !.pc = "mark",
                                  !.doing = "init",
                                  !.failed = TRUE,
                                  !.replica = None]
    <2>1. t \in Thread
      BY ThreadTypes DEF Thread, ThreadPc, Doing, Result, Replica, Fatal
    <2>2. thread' = [thread EXCEPT ![w] = t]
      BY <1>3 DEF Initialize
    <2>3. ThreadIs(w, t.pc, t.job, t.doing, t.result, t.failed, t.replica)
      BY <2>1, <2>2, ThreadBecomes
    <2> QED
      BY <2>3, ThreadTypes DEF Thread
  <1> QED
    BY <1>1, <1>2, <1>3

\* Receiving takes the oldest job.
LEMMA ReceiveQueue ==
    ASSUME Types, NEW w \in Worker, Receive(w)
    PROVE  Head(queue[w]) \in Caller /\ Tail(queue[w]) \in Seq(Caller)
  <1>1. queue[w] \in Seq(Caller) /\ queue[w] # <<>>
    BY DEF Types, Receive
  <1> QED
    BY <1>1

\* Receive
LEMMA ReceiveEffect ==
    ASSUME Types, NEW w \in Worker, Receive(w)
    PROVE  /\ thread[w].pc = "recv"
           /\ UNCHANGED <<outstanding, quarantined, stopping, open, caller, cell,
                         cancelled, ran, pool>>
           /\ ThreadIs(w, "check", Head(queue[w]), thread[w].doing, thread[w].result,
                       thread[w].failed, thread[w].replica)
  <1>1. thread[w].pc = "recv" /\ UNCHANGED <<outstanding, quarantined, stopping, open, caller, cell,
              cancelled, ran, pool>>
    BY DEF Receive, shared
  <1>2. ThreadIs(w, "check", Head(queue[w]), thread[w].doing, thread[w].result,
                 thread[w].failed, thread[w].replica)
    <2> DEFINE t == [thread[w] EXCEPT !.pc = "check", !.job = Head(queue[w])]
    <2>1. t \in Thread
      BY ThreadTypes, ReceiveQueue DEF Thread, ThreadPc, Doing, Result, Replica, Fatal
    <2>2. thread' = [thread EXCEPT ![w] = t]
      BY DEF Receive
    <2>3. ThreadIs(w, t.pc, t.job, t.doing, t.result, t.failed, t.replica)
      BY <2>1, <2>2, ThreadBecomes
    <2> QED
      BY <2>3, ThreadTypes DEF Thread
  <1> QED
    BY <1>1, <1>2

\* Check
LEMMA CheckEffect ==
    ASSUME Types, NEW w \in Worker, Check(w)
    PROVE  /\ thread[w].pc = "check"
           /\ UNCHANGED <<queue, outstanding, quarantined, stopping, open, caller,
                         cell, cancelled, ran, pool>>
           /\ Refuses(w) =>
                 ThreadIs(w, "publish", thread[w].job, "refuse", "refused",
                          thread[w].failed, thread[w].replica)
           /\ ~Refuses(w) =>
                 ThreadIs(w, "run", thread[w].job, thread[w].doing, thread[w].result,
                          thread[w].failed, thread[w].replica)
  <1>1. thread[w].pc = "check" /\ UNCHANGED <<queue, outstanding, quarantined, stopping, open, caller,
              cell, cancelled, ran, pool>>
    BY DEF Check, shared
  <1>2. ASSUME Refuses(w)
        PROVE  ThreadIs(w, "publish", thread[w].job, "refuse", "refused", thread[w].failed,
                        thread[w].replica)
    <2> DEFINE t == [thread[w] EXCEPT !.pc = "publish",
                                  !.doing = "refuse",
                                  !.result = "refused"]
    <2>1. t \in Thread
      BY ThreadTypes DEF Thread, ThreadPc, Doing, Result, Replica, Fatal
    <2>2. thread' = [thread EXCEPT ![w] = t]
      BY <1>2 DEF Check, Goes
    <2>3. ThreadIs(w, t.pc, t.job, t.doing, t.result, t.failed, t.replica)
      BY <2>1, <2>2, ThreadBecomes
    <2> QED
      BY <2>3, ThreadTypes DEF Thread
  <1>3. ASSUME ~Refuses(w)
        PROVE  ThreadIs(w, "run", thread[w].job, thread[w].doing, thread[w].result,
                        thread[w].failed, thread[w].replica)
    <2> DEFINE t == [thread[w] EXCEPT !.pc = "run"]
    <2>1. t \in Thread
      BY ThreadTypes DEF Thread, ThreadPc, Doing, Result, Replica, Fatal
    <2>2. thread' = [thread EXCEPT ![w] = t]
      BY <1>3 DEF Check, Goes
    <2>3. ThreadIs(w, t.pc, t.job, t.doing, t.result, t.failed, t.replica)
      BY <2>1, <2>2, ThreadBecomes
    <2> QED
      BY <2>3, ThreadTypes DEF Thread
  <1> QED
    BY <1>1, <1>2, <1>3

\* Run
LEMMA RunEffect ==
    ASSUME Types, NEW w \in Worker, NEW result \in {"ok", "recoverable"} \cup Fatal, Run(w, result)
    PROVE  /\ thread[w].pc = "run"
           /\ UNCHANGED <<queue, outstanding, quarantined, stopping, open, caller,
                         cell, cancelled, pool>>
           /\ result = "panicked" =>
                 ThreadIs(w, "mark", thread[w].job, "panic", "panicked", thread[w].failed,
                          thread[w].replica)
           /\ result # "panicked" =>
                 ThreadIs(w, "publish", thread[w].job, "operation", result,
                          thread[w].failed, thread[w].replica)
  <1>1. thread[w].pc = "run" /\ UNCHANGED <<queue, outstanding, quarantined, stopping, open, caller,
              cell, cancelled, pool>>
    BY DEF Run, shared
  <1>2. ASSUME result = "panicked"
        PROVE  ThreadIs(w, "mark", thread[w].job, "panic", "panicked", thread[w].failed,
                        thread[w].replica)
    <2> DEFINE t == [thread[w] EXCEPT !.pc = "mark", !.doing = "panic", !.result = "panicked"]
    <2>1. t \in Thread
      BY ThreadTypes DEF Thread, ThreadPc, Doing, Result, Replica, Fatal
    <2>2. thread' = [thread EXCEPT ![w] = t]
      BY <1>2 DEF Run
    <2>3. ThreadIs(w, t.pc, t.job, t.doing, t.result, t.failed, t.replica)
      BY <2>1, <2>2, ThreadBecomes
    <2> QED
      BY <2>3, ThreadTypes DEF Thread
  <1>3. ASSUME result # "panicked"
        PROVE  ThreadIs(w, "publish", thread[w].job, "operation", result, thread[w].failed,
                        thread[w].replica)
    <2> DEFINE t == [thread[w] EXCEPT !.pc = "publish",
                                  !.doing = "operation",
                                  !.result = result]
    <2>1. t \in Thread
      BY ThreadTypes DEF Thread, ThreadPc, Doing, Result, Replica, Fatal
    <2>2. thread' = [thread EXCEPT ![w] = t]
      BY <1>3 DEF Run
    <2>3. ThreadIs(w, t.pc, t.job, t.doing, t.result, t.failed, t.replica)
      BY <2>1, <2>2, ThreadBecomes
    <2> QED
      BY <2>3, ThreadTypes DEF Thread
  <1> QED
    BY <1>1, <1>2, <1>3

\* The job of thread w is settled.
LEMMA SettledEffect ==
    ASSUME Types, NEW w \in Worker, thread' = Settled(w)
    PROVE  /\ (thread[w].doing = "operation" /\ thread[w].result \in Fatal) =>
                 ThreadIs(w, "mark", thread[w].job, thread[w].doing, thread[w].result,
                          thread[w].failed, thread[w].replica)
           /\ ~(thread[w].doing = "operation" /\ thread[w].result \in Fatal) =>
                 ThreadIs(w, "release", thread[w].job, thread[w].doing, thread[w].result,
                          thread[w].failed \/ thread[w].doing = "panic",
                          thread[w].replica)
  <1>1. ASSUME (thread[w].doing = "operation" /\ thread[w].result \in Fatal)
        PROVE  ThreadIs(w, "mark", thread[w].job, thread[w].doing, thread[w].result,
                        thread[w].failed, thread[w].replica)
    <2> DEFINE t == [thread[w] EXCEPT !.pc = "mark"]
    <2>1. t \in Thread
      BY ThreadTypes DEF Thread, ThreadPc, Doing, Result, Replica, Fatal
    <2>2. thread' = [thread EXCEPT ![w] = t]
      BY <1>1 DEF Settled, Goes
    <2>3. ThreadIs(w, t.pc, t.job, t.doing, t.result, t.failed, t.replica)
      BY <2>1, <2>2, ThreadBecomes
    <2> QED
      BY <2>3, ThreadTypes DEF Thread
  <1>2. ASSUME ~(thread[w].doing = "operation" /\ thread[w].result \in Fatal)
        PROVE  ThreadIs(w, "release", thread[w].job, thread[w].doing, thread[w].result,
                        thread[w].failed \/ thread[w].doing = "panic",
                        thread[w].replica)
    <2> DEFINE t == [thread[w] EXCEPT !.pc = "release",
                                  !.failed = thread[w].failed \/ thread[w].doing = "panic"]
    <2>1. t \in Thread
      BY ThreadTypes DEF Thread, ThreadPc, Doing, Result, Replica, Fatal
    <2>2. thread' = [thread EXCEPT ![w] = t]
      BY <1>2 DEF Settled, Goes
    <2>3. ThreadIs(w, t.pc, t.job, t.doing, t.result, t.failed, t.replica)
      BY <2>1, <2>2, ThreadBecomes
    <2> QED
      BY <2>3, ThreadTypes DEF Thread
  <1> QED
    BY <1>1, <1>2

\* Publish, of a first result
LEMMA PublishEffect ==
    ASSUME Types, NEW w \in Worker, Publish(w), Completes(thread[w].job)
    PROVE  /\ thread[w].pc = "publish"
           /\ UNCHANGED <<queue, outstanding, quarantined, stopping, open, caller,
                         cancelled, ran, pool>>
           /\ ThreadIs(w, "wake", thread[w].job, thread[w].doing, thread[w].result,
                       thread[w].failed, thread[w].replica)
  <1>1. thread[w].pc = "publish" /\ UNCHANGED <<queue, outstanding, quarantined, stopping, open, caller,
              cancelled, ran, pool>>
    BY DEF Publish, shared
  <1>2. ThreadIs(w, "wake", thread[w].job, thread[w].doing, thread[w].result,
                 thread[w].failed, thread[w].replica)
    <2> DEFINE t == [thread[w] EXCEPT !.pc = "wake"]
    <2>1. t \in Thread
      BY ThreadTypes DEF Thread, ThreadPc, Doing, Result, Replica, Fatal
    <2>2. thread' = [thread EXCEPT ![w] = t]
      BY DEF Publish, Goes
    <2>3. ThreadIs(w, t.pc, t.job, t.doing, t.result, t.failed, t.replica)
      BY <2>1, <2>2, ThreadBecomes
    <2> QED
      BY <2>3, ThreadTypes DEF Thread
  <1> QED
    BY <1>1, <1>2

\* WakePanics
LEMMA WakePanicsEffect ==
    ASSUME Types, NEW w \in Worker, WakePanics(w)
    PROVE  /\ thread[w].pc = "wake"
           /\ UNCHANGED <<quarantined, stopping, open, cancelled, ran, pool>>
           /\ thread[w].doing = "operation" =>
                 ThreadIs(w, "mark", thread[w].job, "panic", "panicked", thread[w].failed,
                          thread[w].replica)
           /\ thread[w].doing # "operation" =>
                 ThreadIs(w, "crashed", None, thread[w].doing, thread[w].result,
                          thread[w].failed,
                          IF thread[w].replica = "live" THEN "dropped" ELSE thread[w].replica)
  <1>1. thread[w].pc = "wake" /\ UNCHANGED <<quarantined, stopping, open, cancelled, ran, pool>>
    BY DEF WakePanics, shared
  <1>2. ASSUME thread[w].doing = "operation"
        PROVE  ThreadIs(w, "mark", thread[w].job, "panic", "panicked", thread[w].failed,
                        thread[w].replica)
    <2> DEFINE t == [thread[w] EXCEPT !.pc = "mark", !.doing = "panic", !.result = "panicked"]
    <2>1. t \in Thread
      BY ThreadTypes DEF Thread, ThreadPc, Doing, Result, Replica, Fatal
    <2>2. thread' = [thread EXCEPT ![w] = t]
      BY <1>2 DEF WakePanics
    <2>3. ThreadIs(w, t.pc, t.job, t.doing, t.result, t.failed, t.replica)
      BY <2>1, <2>2, ThreadBecomes
    <2> QED
      BY <2>3, ThreadTypes DEF Thread
  <1>3. ASSUME thread[w].doing # "operation"
        PROVE  ThreadIs(w, "crashed", None, thread[w].doing, thread[w].result,
                        thread[w].failed,
                        IF thread[w].replica = "live" THEN "dropped" ELSE thread[w].replica)
    <2> DEFINE t == [thread[w] EXCEPT !.pc = "crashed",
                                  !.job = None,
                                  !.replica = IF thread[w].replica = "live" THEN "dropped" ELSE thread[w].replica]
    <2>1. t \in Thread
      BY ThreadTypes DEF Thread, ThreadPc, Doing, Result, Replica, Fatal
    <2>2. thread' = [thread EXCEPT ![w] = t]
      BY <1>3 DEF WakePanics
    <2>3. ThreadIs(w, t.pc, t.job, t.doing, t.result, t.failed, t.replica)
      BY <2>1, <2>2, ThreadBecomes
    <2> QED
      BY <2>3, ThreadTypes DEF Thread
  <1> QED
    BY <1>1, <1>2, <1>3

\* Mark
LEMMA MarkEffect ==
    ASSUME Types, NEW w \in Worker, Mark(w)
    PROVE  /\ thread[w].pc = "mark"
           /\ UNCHANGED <<queue, outstanding, stopping, open, caller, cell,
                         cancelled, ran, pool>>
           /\ thread[w].doing = "init" =>
                 ThreadIs(w, "recv", thread[w].job, thread[w].doing, thread[w].result,
                          thread[w].failed, thread[w].replica)
           /\ thread[w].doing = "panic" =>
                 ThreadIs(w, "publish", thread[w].job, thread[w].doing, thread[w].result,
                          thread[w].failed, thread[w].replica)
           /\ thread[w].doing \notin {"init", "panic"} =>
                 ThreadIs(w, "release", thread[w].job, thread[w].doing, thread[w].result,
                          TRUE, thread[w].replica)
  <1>1. thread[w].pc = "mark" /\ UNCHANGED <<queue, outstanding, stopping, open, caller, cell,
              cancelled, ran, pool>>
    BY DEF Mark, shared
  <1>2. ASSUME thread[w].doing = "init"
        PROVE  ThreadIs(w, "recv", thread[w].job, thread[w].doing, thread[w].result,
                        thread[w].failed, thread[w].replica)
    <2> DEFINE t == [thread[w] EXCEPT !.pc = "recv"]
    <2>1. t \in Thread
      BY ThreadTypes DEF Thread, ThreadPc, Doing, Result, Replica, Fatal
    <2>2. thread' = [thread EXCEPT ![w] = t]
      BY <1>2 DEF Mark, Goes
    <2>3. ThreadIs(w, t.pc, t.job, t.doing, t.result, t.failed, t.replica)
      BY <2>1, <2>2, ThreadBecomes
    <2> QED
      BY <2>3, ThreadTypes DEF Thread
  <1>3. ASSUME thread[w].doing = "panic"
        PROVE  ThreadIs(w, "publish", thread[w].job, thread[w].doing, thread[w].result,
                        thread[w].failed, thread[w].replica)
    <2> DEFINE t == [thread[w] EXCEPT !.pc = "publish"]
    <2>1. t \in Thread
      BY ThreadTypes DEF Thread, ThreadPc, Doing, Result, Replica, Fatal
    <2>2. thread' = [thread EXCEPT ![w] = t]
      BY <1>3 DEF Mark, Goes
    <2>3. ThreadIs(w, t.pc, t.job, t.doing, t.result, t.failed, t.replica)
      BY <2>1, <2>2, ThreadBecomes
    <2> QED
      BY <2>3, ThreadTypes DEF Thread
  <1>4. ASSUME thread[w].doing \notin {"init", "panic"}
        PROVE  ThreadIs(w, "release", thread[w].job, thread[w].doing, thread[w].result,
                        TRUE, thread[w].replica)
    <2> DEFINE t == [thread[w] EXCEPT !.pc = "release", !.failed = TRUE]
    <2>1. t \in Thread
      BY ThreadTypes DEF Thread, ThreadPc, Doing, Result, Replica, Fatal
    <2>2. thread' = [thread EXCEPT ![w] = t]
      BY <1>4 DEF Mark, Goes
    <2>3. ThreadIs(w, t.pc, t.job, t.doing, t.result, t.failed, t.replica)
      BY <2>1, <2>2, ThreadBecomes
    <2> QED
      BY <2>3, ThreadTypes DEF Thread
  <1> QED
    BY <1>1, <1>2, <1>3, <1>4

\* Release
LEMMA ReleaseEffect ==
    ASSUME Types, NEW w \in Worker, Release(w)
    PROVE  /\ thread[w].pc = "release"
           /\ UNCHANGED <<queue, quarantined, stopping, open, caller, cell,
                         cancelled, ran, pool>>
           /\ ThreadIs(w, "recv", None, None, None, thread[w].failed, thread[w].replica)
  <1>1. thread[w].pc = "release" /\ UNCHANGED <<queue, quarantined, stopping, open, caller, cell,
              cancelled, ran, pool>>
    BY DEF Release, shared
  <1>2. ThreadIs(w, "recv", None, None, None, thread[w].failed, thread[w].replica)
    <2> DEFINE t == [thread[w] EXCEPT !.pc = "recv",
                                  !.job = None,
                                  !.doing = None,
                                  !.result = None]
    <2>1. t \in Thread
      BY ThreadTypes DEF Thread, ThreadPc, Doing, Result, Replica, Fatal
    <2>2. thread' = [thread EXCEPT ![w] = t]
      BY DEF Release
    <2>3. ThreadIs(w, t.pc, t.job, t.doing, t.result, t.failed, t.replica)
      BY <2>1, <2>2, ThreadBecomes
    <2> QED
      BY <2>3, ThreadTypes DEF Thread
  <1> QED
    BY <1>1, <1>2

\* Exit
LEMMA ExitEffect ==
    ASSUME Types, NEW w \in Worker, Exit(w)
    PROVE  /\ thread[w].pc = "recv"
           /\ UNCHANGED <<queue, outstanding, quarantined, stopping, open, caller,
                         cell, cancelled, ran, pool>>
           /\ ThreadIs(w, "exited", thread[w].job, thread[w].doing, thread[w].result,
                       thread[w].failed,
                       IF thread[w].replica # "live" THEN thread[w].replica ELSE IF Retained(w) THEN "leaked" ELSE "dropped")
  <1>1. thread[w].pc = "recv" /\ UNCHANGED <<queue, outstanding, quarantined, stopping, open, caller,
              cell, cancelled, ran, pool>>
    BY DEF Exit, shared
  <1>2. ThreadIs(w, "exited", thread[w].job, thread[w].doing, thread[w].result,
                 thread[w].failed,
                 IF thread[w].replica # "live" THEN thread[w].replica ELSE IF Retained(w) THEN "leaked" ELSE "dropped")
    <2> DEFINE t == [thread[w] EXCEPT !.pc = "exited",
                                  !.replica = IF thread[w].replica # "live" THEN thread[w].replica ELSE IF Retained(w) THEN "leaked" ELSE "dropped"]
    <2>1. t \in Thread
      BY ThreadTypes DEF Thread, ThreadPc, Doing, Result, Replica, Fatal
    <2>2. thread' = [thread EXCEPT ![w] = t]
      BY DEF Exit
    <2>3. ThreadIs(w, t.pc, t.job, t.doing, t.result, t.failed, t.replica)
      BY <2>1, <2>2, ThreadBecomes
    <2> QED
      BY <2>3, ThreadTypes DEF Thread
  <1> QED
    BY <1>1, <1>2

\* The owner's record.
LEMMA OwnerTypes ==
    ASSUME Types
    PROVE  /\ pool \in Owner /\ pool.at \in Worker \cup {0}
           /\ pool.joins \in BOOLEAN /\ pool.error \in BOOLEAN
           /\ 1 \in Worker /\ Worker \subseteq Nat
  BY PoolAssumption DEF Types, Owner, Worker

\* The owner goes on to the next worker.
LEMMA AdvancedType ==
    ASSUME Types, pool.at \in Worker, NEW error \in BOOLEAN
    PROVE  Advanced(error) \in Owner
  <1> DEFINE at == IF pool.at = Workers THEN pool.at ELSE pool.at + 1
             pc == CASE pool.at < Workers -> "stop" [] pool.joins -> "closed" [] OTHER -> "dropped"
  <1>1. at \in Worker
    BY PoolAssumption DEF Worker
  <1>2. pc \in {"stop", "closed", "dropped"}
    OBVIOUS
  <1>3. Advanced(error) = [pool EXCEPT !.at = at, !.error = error, !.pc = pc]
    BY DEF Advanced
  <1> HIDE DEF at, pc
  <1> QED
    BY <1>1, <1>2, <1>3, OwnerTypes DEF Owner

\* The counters stay integers.
LEMMA CountUp ==
    ASSUME Types, NEW w \in Worker
    PROVE  /\ [outstanding EXCEPT ![w] = @ + 1] \in [Worker -> Int]
           /\ [outstanding EXCEPT ![w] = @ - 1] \in [Worker -> Int]
  BY DEF Types

\* Every shared access keeps the types.
LEMMA TypesKept ==
    ASSUME Types, Phases, [Next]_vars
    PROVE  Types'
  <1>1. ASSUME NEW c \in Caller, Submit(c) PROVE Types'
    BY <1>1, SubmitEffect DEF Submit, Types, CallerIs, shared
  <1>2. ASSUME NEW c \in Caller, CheckQuarantine(c) PROVE Types'
    <2>1. CASE quarantined[Head(caller[c].left)]
      BY <1>2, <2>1, RefusedEffect DEF CheckQuarantine, Types, CallerIs, shared
    <2>2. CASE ~quarantined[Head(caller[c].left)]
      BY <1>2, <2>2, MovesEffect DEF CheckQuarantine, Types, CallerIs, Unsent, shared
    <2> QED
      BY <2>1, <2>2
  <1>3. ASSUME NEW c \in Caller, Reserve(c) PROVE Types'
    <2>1. Head(caller[c].left) \in Worker
      BY <1>3, HeadOfLeft DEF Reserve
    <2>2. CASE Reservable(Head(caller[c].left))
      <3>1. caller' \in [Caller -> Submitter]
        BY <1>3, <2>2, MovesEffect DEF Reserve, CallerIs, Unsent
      <3>2. outstanding' \in [Worker -> Int]
        BY <1>3, <2>1, <2>2, CountUp DEF Reserve
      <3> QED
        BY <1>3, <3>1, <3>2 DEF Reserve, Types
    <2>3. CASE ~Reservable(Head(caller[c].left))
      BY <1>3, <2>3, RefusedEffect DEF Reserve, Types, CallerIs
    <2> QED
      BY <2>2, <2>3
  <1>4. ASSUME NEW c \in Caller, Send(c) PROVE Types'
    <2>1. Head(caller[c].left) \in Worker
      BY <1>4, HeadOfLeft DEF Send
    <2>2. CASE thread[Head(caller[c].left)].pc = "crashed"
      <3>1. caller' \in [Caller -> Submitter]
        BY <1>4, <2>2, SendFailsEffect DEF Send, CallerIs
      <3>2. outstanding' \in [Worker -> Int]
        BY <1>4, <2>1, <2>2, CountUp DEF Send
      <3> QED
        BY <1>4, <2>2, <3>1, <3>2 DEF Send, Types
    <2>3. CASE thread[Head(caller[c].left)].pc # "crashed"
      <3>1. queue' \in [Worker -> Seq(Caller)]
        <4>1. Append(queue[Head(caller[c].left)], c) \in Seq(Caller)
          BY <2>1 DEF Types
        <4> QED
          BY <1>4, <2>1, <2>3, <4>1 DEF Send, Types
      <3> QED
        BY <1>4, <2>3, <3>1, MovesEffect DEF Send, Types, CallerIs, Sent
    <2> QED
      BY <2>2, <2>3
  <1>5. ASSUME NEW c \in Caller, PollHandle(c) PROVE Types'
    <2>1. cell' \in [Caller -> Cell]
      <3>1. [cell[c] EXCEPT !.waker = TRUE] \in Cell
        BY DEF Types, Cell
      <3> QED
        BY <1>5, <3>1 DEF PollHandle, Types
    <2>2. caller' \in [Caller -> Submitter]
      BY <1>5, MovesEffect DEF PollHandle, CallerIs, Sent
    <2> QED
      BY <1>5, <2>1, <2>2 DEF PollHandle, Types, shared
  <1>6. ASSUME NEW c \in Caller, WaitHandle(c) PROVE Types'
    BY <1>6, MovesEffect DEF WaitHandle, Sent, Types, CallerIs, shared
  <1>7. ASSUME NEW c \in Caller, CancelJob(c) PROVE Types'
    BY <1>7 DEF CancelJob, Types, shared
  <1>8. ASSUME NEW c \in Caller, DropHandle(c) PROVE Types'
    BY <1>8, MovesEffect DEF DropHandle, Sent, Types, CallerIs, shared
  <1>9. ASSUME NEW w \in Worker, NEW ok \in BOOLEAN, Initialize(w, ok) PROVE Types'
    BY <1>9, InitializeEffect DEF Initialize, Types, ThreadIs, shared
  <1>10. ASSUME NEW w \in Worker, Receive(w) PROVE Types'
    BY <1>10, ReceiveEffect, ReceiveQueue DEF Receive, Types, ThreadIs
  <1>11. ASSUME NEW w \in Worker, Check(w) PROVE Types'
    BY <1>11, CheckEffect DEF Check, Types, ThreadIs, shared
  <1>12. ASSUME NEW w \in Worker, 
                NEW result \in {"ok", "recoverable"} \cup Fatal, Run(w, result) PROVE Types'
    <2>1. thread[w].job \in Caller
      BY <1>12, JobInHand DEF Run
    <2>2. ran' \in [Caller -> Record]
      <3>1. [result |-> result, at |-> w] \in Record
        BY DEF Record, Result
      <3> QED
        BY <1>12, <2>1, <3>1 DEF Run, Types
    <2>3. thread' \in [Worker -> Thread]
      BY <1>12, RunEffect DEF ThreadIs
    <2> QED
      BY <1>12, <2>2, <2>3 DEF Run, Types, shared
  <1>13. ASSUME NEW w \in Worker, Publish(w) PROVE Types'
    <2>1. thread[w].job \in Caller
      BY <1>13, JobInHand DEF Publish
    <2>2. CASE Completes(thread[w].job)
      <3>1. cell' \in [Caller -> Cell]
        <4>1. [cell[thread[w].job] EXCEPT !.value = thread[w].result] \in Cell
          BY <2>1, ThreadTypes DEF Types, Cell
        <4> QED
          BY <1>13, <2>1, <2>2, <4>1 DEF Publish, Types
      <3>2. thread' \in [Worker -> Thread]
        BY <1>13, <2>2, PublishEffect DEF ThreadIs
      <3> QED
        BY <1>13, <3>1, <3>2 DEF Publish, Types, shared
    <2>3. CASE ~Completes(thread[w].job)
      BY <1>13, <2>3, SettledEffect DEF Publish, Types, ThreadIs, shared
    <2> QED
      BY <2>2, <2>3
  <1>14. ASSUME NEW w \in Worker, Wake(w) PROVE Types'
    <2>1. thread[w].job \in Caller
      BY <1>14, JobInHand DEF Wake
    <2>2. cell' \in [Caller -> Cell]
      <3>1. [cell[thread[w].job] EXCEPT !.waker = FALSE] \in Cell
        BY <2>1 DEF Types, Cell
      <3> QED
        BY <1>14, <2>1, <3>1 DEF Wake, Types
    <2>3. caller' \in [Caller -> Submitter]
      <3>1. Woken(caller[thread[w].job].pc) \in Unsent \cup Sent
        BY <2>1, CallerTypes DEF Woken, Sent
      <3> QED
        BY <1>14, <2>1, <3>1, MovesEffect DEF Wake, CallerIs
    <2>4. thread' \in [Worker -> Thread]
      BY <1>14, SettledEffect DEF Wake, ThreadIs
    <2> QED
      BY <1>14, <2>2, <2>3, <2>4 DEF Wake, Types, shared
  <1>15. ASSUME NEW w \in Worker, WakePanics(w) PROVE Types'
    <2>1. thread[w].job \in Caller
      BY <1>15, JobInHand DEF WakePanics
    <2>2. cell' \in [Caller -> Cell]
      <3>1. [cell[thread[w].job] EXCEPT !.waker = FALSE] \in Cell
        BY <2>1 DEF Types, Cell
      <3> QED
        BY <1>15, <2>1, <3>1 DEF WakePanics, Types
    <2>3. caller' \in [Caller -> Submitter]
      <3> DEFINE pc == IF caller[thread[w].job].pc = "blocked" THEN "waiting"
                       ELSE caller[thread[w].job].pc
      <3>1. pc \in Unsent \cup Sent
        BY <2>1, CallerTypes DEF Sent
      <3>2. caller' = [caller EXCEPT ![thread[w].job].pc = pc]
        BY <1>15 DEF WakePanics
      <3> HIDE DEF pc
      <3> QED
        BY <2>1, <3>1, <3>2, MovesEffect DEF CallerIs
    <2>4. thread' \in [Worker -> Thread]
      BY <1>15, WakePanicsEffect DEF ThreadIs
    <2>5. queue' \in [Worker -> Seq(Caller)] /\ outstanding' \in [Worker -> Int]
      <3>1. queue[w] \in Seq(Caller) /\ Len(queue[w]) \in Nat
        BY DEF Types
      <3>2. [queue EXCEPT ![w] = <<>>] \in [Worker -> Seq(Caller)]
        BY DEF Types
      <3>3. [outstanding EXCEPT ![w] = @ - 1 - Len(queue[w])] \in [Worker -> Int]
        BY <3>1 DEF Types
      <3> QED
        BY <1>15, <3>2, <3>3 DEF WakePanics, Types
    <2> QED
      BY <1>15, <2>2, <2>3, <2>4, <2>5 DEF WakePanics, Types
  <1>16. ASSUME NEW w \in Worker, Mark(w) PROVE Types'
    <2>1. thread' \in [Worker -> Thread]
      BY <1>16, MarkEffect DEF ThreadIs
    <2>2. quarantined' \in [Worker -> BOOLEAN]
      BY <1>16 DEF Mark, Types
    <2>3. UNCHANGED <<queue, outstanding, stopping, open, caller, cell, cancelled, ran, pool>>
      BY <1>16 DEF Mark
    <2> QED
      BY <2>1, <2>2, <2>3 DEF Types
  <1>17. ASSUME NEW w \in Worker, Release(w) PROVE Types'
    <2>1. thread' \in [Worker -> Thread]
      BY <1>17, ReleaseEffect DEF ThreadIs
    <2>2. outstanding' \in [Worker -> Int]
      BY <1>17, CountUp DEF Release
    <2> QED
      BY <1>17, <2>1, <2>2 DEF Release, Types
  <1>18. ASSUME NEW w \in Worker, Exit(w) PROVE Types'
    BY <1>18, ExitEffect DEF Exit, Types, ThreadIs, shared
  <1>19. ASSUME NEW joins \in BOOLEAN, Close(joins) PROVE Types'
    BY <1>19, OwnerTypes DEF Close, Types, Owner, shared
  <1>20. ASSUME StopWorker PROVE Types'
    BY <1>20, OwnerTypes DEF StopWorker, Types, Owner
  <1>21. ASSUME TakeSender PROVE Types'
    <2>1. [pool EXCEPT !.pc = "join"] \in Owner
      BY OwnerTypes DEF Owner
    <2>2. Advanced(FALSE) \in Owner
      BY <1>21, AdvancedType DEF TakeSender, Phases
    <2> QED
      BY <1>21, <2>1, <2>2 DEF TakeSender, Types
  <1>22. ASSUME JoinThread PROVE Types'
    <2>1. Advanced(pool.error \/ thread[pool.at].pc = "crashed") \in Owner
      BY <1>22, AdvancedType DEF JoinThread, Phases
    <2> QED
      BY <1>22, <2>1 DEF JoinThread, Types, shared
  <1>23. CASE UNCHANGED vars
    BY <1>23 DEF vars, shared, Types
  <1> QED
    BY <1>1, <1>2, <1>3, <1>4, <1>5, <1>6, <1>7, <1>8, <1>9, <1>10, <1>11, <1>12, <1>13, <1>14, <1>15, <1>16, <1>17, <1>18, <1>19, <1>20, <1>21, <1>22, <1>23
    DEF Next, Submission, ThreadStep, OwnerStep

-----------------------------------------------------------------------------
(* Which steps change what                                                 *)

\* Only these steps move a thread.
LEMMA ThreadSteps ==
    ASSUME [Next]_vars
    PROVE  \/ UNCHANGED thread
           \/ \E w \in Worker : ThreadStep(w)
  <1>1. ASSUME NEW c \in Caller, Submission(c) PROVE UNCHANGED thread
    BY <1>1 DEF Submission, Submit, CheckQuarantine, Reserve, Send
  <1>2. ASSUME NEW c \in Caller, PollHandle(c) \/ WaitHandle(c) \/ CancelJob(c) \/ DropHandle(c)
        PROVE  UNCHANGED thread
    BY <1>2 DEF PollHandle, WaitHandle, CancelJob, DropHandle
  <1>3. ASSUME NEW joins \in BOOLEAN, Close(joins) PROVE UNCHANGED thread
    BY <1>3 DEF Close
  <1>4. ASSUME OwnerStep PROVE UNCHANGED thread
    BY <1>4 DEF OwnerStep, StopWorker, TakeSender, JoinThread
  <1>5. CASE UNCHANGED vars
    BY <1>5 DEF vars
  <1> QED
    BY <1>1, <1>2, <1>3, <1>4, <1>5 DEF Next

\* Only these steps move a caller.
LEMMA CallerSteps ==
    ASSUME [Next]_vars
    PROVE  \/ UNCHANGED caller
           \/ \E c \in Caller : Submission(c) \/ PollHandle(c) \/ WaitHandle(c) \/ DropHandle(c)
           \/ \E w \in Worker : Wake(w) \/ WakePanics(w)
  <1>1. ASSUME NEW c \in Caller, CancelJob(c) PROVE UNCHANGED caller
    BY <1>1 DEF CancelJob
  <1>2. ASSUME NEW w \in Worker, ThreadStep(w), ~Wake(w), ~WakePanics(w) PROVE UNCHANGED caller
    <2>1. ASSUME NEW ok \in BOOLEAN, Initialize(w, ok) PROVE UNCHANGED caller
      BY <2>1 DEF Initialize
    <2>2. ASSUME NEW result \in {"ok", "recoverable"} \cup Fatal, Run(w, result)
          PROVE  UNCHANGED caller
      BY <2>2 DEF Run
    <2>3. ASSUME Receive(w) \/ Check(w) \/ Publish(w) \/ Mark(w) \/ Release(w) \/ Exit(w)
          PROVE  UNCHANGED caller
      BY <2>3 DEF Receive, Check, Publish, Mark, Release, Exit
    <2> QED
      BY <1>2, <2>1, <2>2, <2>3 DEF ThreadStep
  <1>3. ASSUME NEW joins \in BOOLEAN, Close(joins) PROVE UNCHANGED caller
    BY <1>3 DEF Close
  <1>4. ASSUME OwnerStep PROVE UNCHANGED caller
    BY <1>4 DEF OwnerStep, StopWorker, TakeSender, JoinThread
  <1>5. CASE UNCHANGED vars
    BY <1>5 DEF vars
  <1> QED
    BY <1>1, <1>2, <1>3, <1>4, <1>5 DEF Next

\* Only these steps move the owner.
LEMMA OwnerSteps ==
    ASSUME [Next]_vars
    PROVE  UNCHANGED pool \/ (\E joins \in BOOLEAN : Close(joins)) \/ OwnerStep
  <1>1. ASSUME NEW c \in Caller, Submission(c) PROVE UNCHANGED pool
    BY <1>1 DEF Submission, Submit, CheckQuarantine, Reserve, Send
  <1>2. ASSUME NEW c \in Caller, PollHandle(c) \/ WaitHandle(c) \/ CancelJob(c) \/ DropHandle(c)
        PROVE  UNCHANGED pool
    BY <1>2 DEF PollHandle, WaitHandle, CancelJob, DropHandle
  <1>3. ASSUME NEW w \in Worker, ThreadStep(w) PROVE UNCHANGED pool
    <2>1. ASSUME NEW ok \in BOOLEAN, Initialize(w, ok) PROVE UNCHANGED pool
      BY <2>1 DEF Initialize
    <2>2. ASSUME NEW result \in {"ok", "recoverable"} \cup Fatal, Run(w, result)
          PROVE  UNCHANGED pool
      BY <2>2 DEF Run
    <2>3. ASSUME Receive(w) \/ Check(w) \/ Publish(w) \/ Wake(w) \/ WakePanics(w)
                 \/ Mark(w) \/ Release(w) \/ Exit(w)
          PROVE  UNCHANGED pool
      BY <2>3 DEF Receive, Check, Publish, Wake, WakePanics, Mark, Release, Exit
    <2> QED
      BY <1>3, <2>1, <2>2, <2>3 DEF ThreadStep
  <1>4. CASE UNCHANGED vars
    BY <1>4 DEF vars
  <1> QED
    BY <1>1, <1>2, <1>3, <1>4 DEF Next

\* How the step of a woken caller looks.
LEMMA WakeEffect ==
    ASSUME Types, Phases, NEW w \in Worker, Wake(w) \/ WakePanics(w)
    PROVE  /\ thread[w].job \in Caller
           /\ \E pc \in Unsent \cup Sent :
                 /\ CallerIs(thread[w].job, pc, caller[thread[w].job].left)
                 /\ \/ pc = caller[thread[w].job].pc
                    \/ pc \in Sent /\ caller[thread[w].job].pc \in Sent
  <1> DEFINE c == thread[w].job
             pc == IF Wake(w) THEN Woken(caller[c].pc)
                   ELSE IF caller[c].pc = "blocked" THEN "waiting" ELSE caller[c].pc
  <1>1. c \in Caller
    BY JobInHand DEF Wake, WakePanics
  <1>2. pc \in Unsent \cup Sent /\ (pc = caller[c].pc \/ (pc \in Sent /\ caller[c].pc \in Sent))
    BY <1>1, CallerTypes DEF Woken, Sent, Unsent
  <1>3. caller' = [caller EXCEPT ![c].pc = pc]
    <2>1. CASE Wake(w)
      BY <1>1, <2>1 DEF Wake, Types
    <2>2. CASE ~Wake(w)
      BY <2>2 DEF WakePanics
    <2> QED
      BY <2>1, <2>2
  <1> HIDE DEF pc
  <1>4. CallerIs(c, pc, caller[c].left)
    BY <1>1, <1>2, <1>3, MovesEffect
  <1> QED
    BY <1>1, <1>2, <1>4

-----------------------------------------------------------------------------
(* Phases                                                                  *)

\* Phases, for the callers.
LEMMA CallerPhasesKept ==
    ASSUME Types, Phases, [Next]_vars
    PROVE  \A c \in Caller : CallerPhase(caller'[c].pc, caller'[c].left)
  <1>0. \A c \in Caller : CallerPhase(caller[c].pc, caller[c].left)
    BY DEF Phases
  <1>a. ASSUME NEW c \in Caller, NEW pc, NEW left, CallerIs(c, pc, left), CallerPhase(pc, left)
        PROVE  \A d \in Caller : CallerPhase(caller'[d].pc, caller'[d].left)
    BY <1>0, <1>a DEF CallerIs
  <1>b. ASSUME NEW c \in Caller, NEW pc \in Unsent \cup Sent, CallerIs(c, pc, caller[c].left),
               pc \in {"reserve", "send"} => caller[c].pc \in {"check", "reserve"}, pc # "check"
        PROVE  \A d \in Caller : CallerPhase(caller'[d].pc, caller'[d].left)
    <2>1. CallerPhase(pc, caller[c].left)
      BY <1>0, <1>b DEF CallerPhase
    <2> QED
      BY <1>a, <1>b, <2>1
  <1>1. ASSUME NEW c \in Caller, Submit(c)
        PROVE  \A d \in Caller : CallerPhase(caller'[d].pc, caller'[d].left)
    BY <1>1, <1>a, SubmitEffect DEF CallerPhase
  <1>2. ASSUME NEW c \in Caller, caller[c].pc \in {"check", "reserve"}, Refused(c)
        PROVE  \A d \in Caller : CallerPhase(caller'[d].pc, caller'[d].left)
    BY <1>2, <1>a, RefusedEffect DEF CallerPhase
  <1>3. ASSUME NEW c \in Caller, CheckQuarantine(c)
        PROVE  \A d \in Caller : CallerPhase(caller'[d].pc, caller'[d].left)
    <2>1. CASE quarantined[Head(caller[c].left)]
      BY <1>2, <1>3, <2>1 DEF CheckQuarantine
    <2>2. CASE ~quarantined[Head(caller[c].left)]
      <3>1. CallerIs(c, "reserve", caller[c].left) /\ caller[c].pc = "check"
        BY <1>3, <2>2, MovesEffect DEF CheckQuarantine, Unsent
      <3> QED
        BY <1>b, <3>1 DEF Unsent
    <2> QED
      BY <2>1, <2>2
  <1>4. ASSUME NEW c \in Caller, Reserve(c)
        PROVE  \A d \in Caller : CallerPhase(caller'[d].pc, caller'[d].left)
    <2>1. CASE Reservable(Head(caller[c].left))
      <3>1. CallerIs(c, "send", caller[c].left) /\ caller[c].pc = "reserve"
        BY <1>4, <2>1, MovesEffect DEF Reserve, Unsent
      <3> QED
        BY <1>b, <3>1 DEF Unsent
    <2>2. CASE ~Reservable(Head(caller[c].left))
      BY <1>2, <1>4, <2>2 DEF Reserve
    <2> QED
      BY <2>1, <2>2
  <1>5. ASSUME NEW c \in Caller, Send(c)
        PROVE  \A d \in Caller : CallerPhase(caller'[d].pc, caller'[d].left)
    <2>1. CASE thread[Head(caller[c].left)].pc = "crashed"
      <3>1. CallerIs(c, "idle", <<>>)
        BY <1>5, <2>1, SendFailsEffect DEF Send
      <3> QED
        BY <1>a, <3>1 DEF CallerPhase
    <2>2. CASE thread[Head(caller[c].left)].pc # "crashed"
      <3>1. CallerIs(c, "ready", caller[c].left)
        BY <1>5, <2>2, MovesEffect DEF Send, Sent
      <3> QED
        BY <1>b, <3>1 DEF Sent
    <2> QED
      BY <2>1, <2>2
  <1>6. ASSUME NEW c \in Caller, PollHandle(c) \/ WaitHandle(c) \/ DropHandle(c)
        PROVE  \A d \in Caller : CallerPhase(caller'[d].pc, caller'[d].left)
    <2>1. PICK pc \in Sent : CallerIs(c, pc, caller[c].left)
      BY <1>6, MovesEffect DEF PollHandle, WaitHandle, DropHandle, Sent
    <2> QED
      BY <1>b, <2>1 DEF Sent
  <1>7. ASSUME NEW w \in Worker, Wake(w) \/ WakePanics(w)
        PROVE  \A d \in Caller : CallerPhase(caller'[d].pc, caller'[d].left)
    <2>1. PICK pc \in Unsent \cup Sent :
             /\ CallerIs(thread[w].job, pc, caller[thread[w].job].left)
             /\ \/ pc = caller[thread[w].job].pc
                \/ pc \in Sent /\ caller[thread[w].job].pc \in Sent
      BY <1>7, WakeEffect
    <2>2. thread[w].job \in Caller
      BY <1>7, WakeEffect
    <2>3. CallerPhase(pc, caller[thread[w].job].left)
      BY <1>0, <2>1, <2>2 DEF CallerPhase, Sent
    <2> QED
      BY <1>a, <2>1, <2>2, <2>3
  <1>8. CASE UNCHANGED caller
    BY <1>0, <1>8
  <1> QED
    BY <1>1, <1>3, <1>4, <1>5, <1>6, <1>7, <1>8, CallerSteps DEF Submission

\* Phases, for the threads.
LEMMA ThreadPhasesKept ==
    ASSUME Types, Phases, [Next]_vars
    PROVE  \A w \in Worker : ThreadPhase(thread'[w].pc, thread'[w].job, thread'[w].doing)
  <1>0. \A w \in Worker : ThreadPhase(thread[w].pc, thread[w].job, thread[w].doing)
    BY DEF Phases
  <1> DEFINE Goal == \A w \in Worker : ThreadPhase(thread'[w].pc, thread'[w].job, thread'[w].doing)
  <1>a. ASSUME NEW w \in Worker, NEW pc, NEW job, NEW doing, NEW result, NEW failed, NEW replica,
               ThreadIs(w, pc, job, doing, result, failed, replica), ThreadPhase(pc, job, doing)
        PROVE  Goal
    BY <1>0, <1>a DEF ThreadIs
  <1>s. ASSUME NEW w \in Worker, thread[w].pc \in {"publish", "wake"}, thread' = Settled(w)
        PROVE  Goal
    BY <1>0, <1>a, <1>s, SettledEffect DEF ThreadPhase
  <1> HIDE DEF Goal
  <1>1. ASSUME NEW w \in Worker, NEW ok \in BOOLEAN, Initialize(w, ok) PROVE Goal
    BY <1>0, <1>1, <1>a, InitializeEffect DEF ThreadPhase
  <1>2. ASSUME NEW w \in Worker, Receive(w) PROVE Goal
    BY <1>0, <1>2, <1>a, ReceiveEffect, ReceiveQueue, PoolAssumption DEF ThreadPhase
  <1>3. ASSUME NEW w \in Worker, Check(w) PROVE Goal
    BY <1>0, <1>3, <1>a, CheckEffect DEF ThreadPhase
  <1>4. ASSUME NEW w \in Worker, NEW result \in {"ok", "recoverable"} \cup Fatal, Run(w, result)
        PROVE  Goal
    BY <1>0, <1>4, <1>a, RunEffect DEF ThreadPhase
  <1>5. ASSUME NEW w \in Worker, Publish(w) PROVE Goal
    <2>1. CASE Completes(thread[w].job)
      BY <1>0, <1>5, <1>a, <2>1, PublishEffect DEF ThreadPhase
    <2>2. CASE ~Completes(thread[w].job)
      BY <1>5, <1>s, <2>2 DEF Publish
    <2> QED
      BY <2>1, <2>2
  <1>6. ASSUME NEW w \in Worker, Wake(w) PROVE Goal
    BY <1>6, <1>s DEF Wake
  <1>7. ASSUME NEW w \in Worker, WakePanics(w) PROVE Goal
    BY <1>0, <1>7, <1>a, WakePanicsEffect DEF ThreadPhase
  <1>8. ASSUME NEW w \in Worker, Mark(w) PROVE Goal
    BY <1>0, <1>8, <1>a, MarkEffect DEF ThreadPhase
  <1>9. ASSUME NEW w \in Worker, Release(w) PROVE Goal
    BY <1>0, <1>9, <1>a, ReleaseEffect DEF ThreadPhase
  <1>10. ASSUME NEW w \in Worker, Exit(w) PROVE Goal
    BY <1>0, <1>10, <1>a, ExitEffect DEF ThreadPhase
  <1>11. ASSUME UNCHANGED thread PROVE Goal
    BY <1>0, <1>11 DEF Goal
  <1>12. ASSUME NEW w \in Worker, ThreadStep(w) PROVE Goal
    BY <1>12, <1>1, <1>2, <1>3, <1>4, <1>5, <1>6, <1>7, <1>8, <1>9, <1>10 DEF ThreadStep
  <1>13. Goal
    BY <1>11, <1>12, ThreadSteps
  <1> QED
    BY <1>13 DEF Goal

\* Phases, for the owner.
LEMMA OwnerPhaseKept ==
    ASSUME Types, Phases, [Next]_vars
    PROVE  pool'.pc \in {"stop", "take", "join"} => pool'.at \in Worker
  <1>1. ASSUME NEW joins \in BOOLEAN, Close(joins) PROVE pool'.at \in Worker
    BY <1>1, OwnerTypes DEF Close, Owner
  <1>2. ASSUME StopWorker PROVE pool'.at \in Worker
    BY <1>2, OwnerTypes DEF StopWorker, Owner, Phases
  <1>a. ASSUME pool.at \in Worker, NEW error \in BOOLEAN, pool' = Advanced(error)
        PROVE  pool'.at \in Worker
    <2>1. pool'.at = IF pool.at = Workers THEN pool.at ELSE pool.at + 1
      BY <1>a, OwnerTypes DEF Advanced, Owner
    <2> QED
      BY <1>a, <2>1, PoolAssumption DEF Worker
  <1>3. ASSUME TakeSender PROVE pool'.at \in Worker
    <2>1. pool.at \in Worker
      BY <1>3 DEF TakeSender, Phases
    <2>2. CASE pool.joins
      BY <1>3, <2>1, <2>2, OwnerTypes DEF TakeSender, Owner
    <2>3. CASE ~pool.joins
      BY <1>3, <1>a, <2>1, <2>3 DEF TakeSender
    <2> QED
      BY <2>2, <2>3
  <1>4. ASSUME JoinThread PROVE pool'.at \in Worker
    <2>1. pool.at \in Worker /\ (pool.error \/ thread[pool.at].pc = "crashed") \in BOOLEAN
      BY <1>4, OwnerTypes DEF JoinThread, Phases
    <2> QED
      BY <1>4, <1>a, <2>1 DEF JoinThread
  <1>5. CASE UNCHANGED pool
    BY <1>5 DEF Phases
  <1> QED
    BY <1>1, <1>2, <1>3, <1>4, <1>5, OwnerSteps DEF OwnerStep

\* Every step preserves Phases.
LEMMA PhasesKept ==
    ASSUME Types, Phases, [Next]_vars
    PROVE  Phases'
  BY CallerPhasesKept, ThreadPhasesKept, OwnerPhaseKept DEF Phases

-----------------------------------------------------------------------------
(* Queues without repetition                                               *)

\* An empty queue holds nothing.
LEMMA EmptyQueue ==
    IsInjective(<<>>) /\ Range(<<>>) = {}
  BY DEF IsInjective, Range

\* Receiving takes one job out of the queue.
LEMMA TailQueue ==
    ASSUME NEW q \in Seq(Caller), q # <<>>, IsInjective(q)
    PROVE  /\ IsInjective(Tail(q))
           /\ Head(q) \in Caller /\ Head(q) \notin Range(Tail(q))
           /\ \A c : c \in Range(q) <=> c = Head(q) \/ c \in Range(Tail(q))
  <1>1. /\ Len(q) \in Nat \ {0} /\ DOMAIN q = 1..Len(q)
        /\ Tail(q) \in Seq(Caller) /\ DOMAIN Tail(q) = 1..(Len(q) - 1)
        /\ Head(q) = q[1] /\ q[1] \in Caller
        /\ \A i \in 1..(Len(q) - 1) : Tail(q)[i] = q[i + 1]
    OBVIOUS
  <1>2. \A i, j \in 1..Len(q) : q[i] = q[j] => i = j
    BY <1>1 DEF IsInjective
  <1>3. IsInjective(Tail(q))
    <2>1. ASSUME NEW i \in 1..(Len(q) - 1), NEW j \in 1..(Len(q) - 1), Tail(q)[i] = Tail(q)[j]
          PROVE  i = j
      <3>1. q[i + 1] = q[j + 1] /\ i + 1 \in 1..Len(q) /\ j + 1 \in 1..Len(q)
        BY <1>1, <2>1
      <3>2. i + 1 = j + 1
        BY <1>2, <3>1
      <3> QED
        BY <3>2
    <2> QED
      BY <1>1, <2>1 DEF IsInjective
  <1>4. Head(q) \notin Range(Tail(q))
    <2>1. ASSUME NEW i \in 1..(Len(q) - 1), Tail(q)[i] = q[1] PROVE FALSE
      <3>1. q[i + 1] = q[1] /\ i + 1 \in 1..Len(q) /\ 1 \in 1..Len(q) /\ i + 1 # 1
        BY <1>1, <2>1
      <3> QED
        BY <1>2, <3>1
    <2> QED
      BY <1>1, <2>1 DEF Range
  <1>5. ASSUME NEW c PROVE c \in Range(q) <=> c = Head(q) \/ c \in Range(Tail(q))
    <2>1. ASSUME NEW i \in 1..Len(q) PROVE q[i] = Head(q) \/ q[i] \in Range(Tail(q))
      <3>1. CASE i = 1
        BY <1>1, <3>1
      <3>2. CASE i # 1
        <4>1. i - 1 \in 1..(Len(q) - 1) /\ Tail(q)[i - 1] = q[i]
          BY <1>1, <3>2
        <4> QED
          BY <1>1, <4>1 DEF Range
      <3> QED
        BY <3>1, <3>2
    <2>2. ASSUME NEW i \in 1..(Len(q) - 1) PROVE Tail(q)[i] \in Range(q)
      <3>1. i + 1 \in 1..Len(q) /\ Tail(q)[i] = q[i + 1]
        BY <1>1
      <3> QED
        BY <1>1, <3>1 DEF Range
    <2>3. Head(q) \in Range(q)
      <3>1. 1 \in 1..Len(q)
        BY <1>1
      <3> QED
        BY <1>1, <3>1 DEF Range
    <2> QED
      BY <1>1, <2>1, <2>2, <2>3 DEF Range
  <1> QED
    BY <1>1, <1>3, <1>4, <1>5

\* Sending puts one job more into the queue.
LEMMA AppendQueue ==
    ASSUME NEW q \in Seq(Caller), NEW c \in Caller, IsInjective(q), c \notin Range(q)
    PROVE  /\ IsInjective(Append(q, c))
           /\ \A d : d \in Range(Append(q, c)) <=> d = c \/ d \in Range(q)
  <1> DEFINE s == Append(q, c)
  <1>1. /\ Len(q) \in Nat /\ DOMAIN q = 1..Len(q) /\ DOMAIN s = 1..(Len(q) + 1)
        /\ s[Len(q) + 1] = c /\ \A i \in 1..Len(q) : s[i] = q[i]
    OBVIOUS
  <1>2. \A i \in 1..(Len(q) + 1) : i = Len(q) + 1 \/ i \in 1..Len(q)
    BY <1>1
  <1>3. Len(q) + 1 \in 1..(Len(q) + 1) /\ \A i \in 1..Len(q) : i \in 1..(Len(q) + 1)
    BY <1>1
  <1> HIDE DEF s
  <1>4. IsInjective(s)
    <2>1. \A i \in 1..Len(q) : q[i] # c
      BY <1>1 DEF Range
    <2>2. \A i, j \in 1..Len(q) : q[i] = q[j] => i = j
      BY <1>1 DEF IsInjective
    <2>3. ASSUME NEW i \in 1..(Len(q) + 1), NEW j \in 1..(Len(q) + 1), s[i] = s[j]
          PROVE  i = j
      BY <1>1, <1>2, <2>1, <2>2, <2>3
    <2> QED
      BY <1>1, <2>3 DEF IsInjective
  <1>5. ASSUME NEW d PROVE d \in Range(s) <=> d = c \/ d \in Range(q)
    BY <1>1, <1>2, <1>3 DEF Range
  <1> QED
    BY <1>4, <1>5 DEF s

\* There are as many jobs in a queue as it is long.
LEMMA QueueLength ==
    ASSUME NEW q \in Seq(Caller), IsInjective(q)
    PROVE  IsFiniteSet(Range(q)) /\ Cardinality(Range(q)) = Len(q)
  <1>1. Len(q) \in Nat /\ DOMAIN q = 1..Len(q)
    OBVIOUS
  <1>2. IsFiniteSet(1..Len(q)) /\ Cardinality(1..Len(q)) = Len(q)
    BY <1>1, FS_Interval
  <1>3. q \in Bijection(1..Len(q), Range(q))
    <2>1. q \in [1..Len(q) -> Range(q)]
      BY <1>1 DEF Range
    <2>2. q \in Injection(1..Len(q), Range(q))
      BY <1>1, <2>1 DEF Injection, IsInjective
    <2>3. \A d \in Range(q) : \E i \in 1..Len(q) : q[i] = d
      BY <1>1 DEF Range
    <2>4. q \in Surjection(1..Len(q), Range(q))
      BY <2>1, <2>3 DEF Surjection
    <2> QED
      BY <2>2, <2>4 DEF Bijection
  <1>4. ExistsBijection(1..Len(q), Range(q))
    BY <1>3 DEF ExistsBijection
  <1> QED
    BY <1>2, <1>4, FS_Bijection

-----------------------------------------------------------------------------
(* Places and permits                                                      *)

\* The callers whose permit is taken and whose job is not yet in the queue.
Sending(w) == {c \in Caller : caller[c].pc = "send" /\ Head(caller[c].left) = w}

\* Permits are held by callers about to send and by jobs of the worker.
LEMMA PermitsParts ==
    ASSUME NEW w
    PROVE  /\ Permits(w) = Sending(w) \cup Held(w)
           /\ Permits(w)' = Sending(w)' \cup Held(w)'
           /\ Permits(w) \subseteq Caller /\ IsFiniteSet(Permits(w))
  <1>1. Permits(w) = Sending(w) \cup Held(w) /\ Permits(w) \subseteq Caller
    BY DEF Permits, Sending, Held
  <1>2. Permits(w)' = Sending(w)' \cup Held(w)'
    BY DEF Permits, Sending, Held
  <1> QED
    BY <1>1, <1>2, FS_Subset, PoolAssumption

\* The types of one worker's queue and counter.
LEMMA QueueTypes ==
    ASSUME Types, NEW w \in Worker
    PROVE  queue[w] \in Seq(Caller) /\ outstanding[w] \in Int
  BY DEF Types

\* A step that leaves queues, counters and jobs in hand alone, sends nothing
\* back and does not change who is sending.
LEMMA QuietKept ==
    ASSUME Types, Places, Counted, UNCHANGED <<queue, outstanding>>,
           \A w \in Worker : thread'[w].job = thread[w].job,
           \A c \in Caller :
              /\ caller'[c].pc \in Unsent => caller[c].pc \in Unsent
              /\ \A w \in Worker : (caller'[c].pc = "send" /\ Head(caller'[c].left) = w)
                                   <=> (caller[c].pc = "send" /\ Head(caller[c].left) = w)
    PROVE  Places' /\ Counted'
  <1>1. ASSUME NEW w \in Worker PROVE Held(w)' = Held(w) /\ Sending(w)' = Sending(w)
    BY DEF Held, Sending
  <1>2. ASSUME NEW w \in Worker PROVE Permits(w)' = Permits(w)
    BY <1>1, PermitsParts
  <1>3. Counted'
    BY <1>2 DEF Counted
  <1>4. \A w \in Worker : IsInjective(queue'[w]) /\ thread'[w].job \notin Range(queue'[w])
    BY DEF Places
  <1>5. \A w, v \in Worker : w # v => Held(w)' \cap Held(v)' = {}
    BY <1>1 DEF Places
  <1>6. \A c \in Caller : caller'[c].pc \in Unsent => \A w \in Worker : c \notin Held(w)'
    BY <1>1 DEF Places
  <1> QED
    BY <1>3, <1>4, <1>5, <1>6 DEF Places

\* A step of one caller that is not sending, before or after it.
LEMMA CallerQuiet ==
    ASSUME Types, Places, Counted, UNCHANGED <<queue, outstanding, thread>>,
           NEW c \in Caller, NEW pc, NEW left, CallerIs(c, pc, left),
           pc \in Unsent => caller[c].pc \in Unsent, pc # "send", caller[c].pc # "send"
    PROVE  Places' /\ Counted'
  <1>1. \A d \in Caller :
           /\ caller'[d].pc \in Unsent => caller[d].pc \in Unsent
           /\ \A w \in Worker : (caller'[d].pc = "send" /\ Head(caller'[d].left) = w)
                                <=> (caller[d].pc = "send" /\ Head(caller[d].left) = w)
    BY DEF CallerIs
  <1> QED
    BY <1>1, QuietKept

\* A step of one thread that keeps its job in hand.
LEMMA ThreadQuiet ==
    ASSUME Types, Places, Counted, UNCHANGED <<queue, outstanding, caller>>,
           NEW w \in Worker, NEW pc, NEW doing, NEW result, NEW failed, NEW replica,
           ThreadIs(w, pc, thread[w].job, doing, result, failed, replica)
    PROVE  Places' /\ Counted'
  <1>1. \A v \in Worker : thread'[v].job = thread[v].job
    BY DEF ThreadIs
  <1> QED
    BY <1>1, QuietKept

\* A permit is taken.
LEMMA ReserveKept ==
    ASSUME Types, Phases, Places, Counted, NEW c \in Caller, Reserve(c),
           Reservable(Head(caller[c].left))
    PROVE  Places' /\ Counted'
  <1>1. PICK w \in Worker : w = Head(caller[c].left)
    BY HeadOfLeft DEF Reserve
  <1>2. CallerIs(c, "send", caller[c].left) /\ caller[c].pc = "reserve"
    BY MovesEffect DEF Reserve, Unsent
  <1>3. UNCHANGED <<thread, queue>> /\ outstanding' = [outstanding EXCEPT ![w] = @ + 1]
    BY <1>1 DEF Reserve
  <1>4. outstanding[w] < Capacity
    BY <1>1 DEF Reservable
  <1>5. \A v \in Worker : Held(v)' = Held(v)
    BY <1>3 DEF Held
  <1>6. c \notin Permits(w)
    BY <1>2, PermitsParts DEF Places, Sending, Unsent
  <1>7. Sending(w)' = Sending(w) \cup {c} /\ \A v \in Worker \ {w} : Sending(v)' = Sending(v)
    BY <1>1, <1>2 DEF Sending, CallerIs
  <1>8. Permits(w)' = Permits(w) \cup {c}
    BY <1>1, <1>5, <1>7, PermitsParts
  <1>v. ASSUME NEW v \in Worker \ {w} PROVE Permits(v)' = Permits(v)
    BY <1>5, <1>7, PermitsParts
  <1>9. Cardinality(Permits(w)') = Cardinality(Permits(w)) + 1
    BY <1>6, <1>8, PermitsParts, FS_AddElement
  <1>10. Counted'
    <2>1. outstanding'[w] = outstanding[w] + 1 /\ \A v \in Worker \ {w} : outstanding'[v] = outstanding[v]
      BY <1>1, <1>3 DEF Types
    <2>2. outstanding'[w] = Cardinality(Permits(w)') /\ outstanding'[w] <= Capacity
      BY <1>1, <1>4, <1>9, <2>1, QueueTypes, PoolAssumption DEF Counted
    <2>3. ASSUME NEW v \in Worker \ {w}
          PROVE  outstanding'[v] = Cardinality(Permits(v)') /\ outstanding'[v] <= Capacity
      BY <1>v, <2>1, <2>3 DEF Counted
    <2> QED
      BY <2>2, <2>3 DEF Counted
  <1>11. \A d \in Caller : caller'[d].pc \in Unsent => caller[d].pc \in Unsent
    BY <1>2 DEF CallerIs, Unsent
  <1> QED
    BY <1>3, <1>5, <1>10, <1>11 DEF Places

\* Only the permits and the counter of worker w change.
LEMMA CountedAt ==
    ASSUME Types, Counted, NEW w \in Worker, NEW n \in Int,
           outstanding' = [outstanding EXCEPT ![w] = n],
           n = Cardinality(Permits(w)'), n <= Capacity,
           \A v \in Worker \ {w} : Permits(v)' = Permits(v)
    PROVE  Counted'
  <1>1. outstanding'[w] = n /\ \A v \in Worker \ {w} : outstanding'[v] = outstanding[v]
    BY DEF Types
  <1>2. ASSUME NEW v \in Worker \ {w}
        PROVE  outstanding'[v] = Cardinality(Permits(v)') /\ outstanding'[v] <= Capacity
    BY <1>1, <1>2 DEF Counted
  <1> QED
    BY <1>1, <1>2 DEF Counted

\* A job is sent: its permit goes with it into the queue.
LEMMA SendKept ==
    ASSUME Types, Phases, Places, Counted, NEW c \in Caller, Send(c),
           thread[Head(caller[c].left)].pc # "crashed"
    PROVE  Places' /\ Counted'
  <1>1. PICK w \in Worker : w = Head(caller[c].left)
    BY HeadOfLeft DEF Send
  <1>2. CallerIs(c, "ready", caller[c].left) /\ caller[c].pc = "send"
    BY MovesEffect DEF Send, Sent
  <1>3. UNCHANGED <<thread, outstanding>> /\ queue' = [queue EXCEPT ![w] = Append(@, c)]
    BY <1>1 DEF Send
  <1>4. queue'[w] = Append(queue[w], c) /\ \A v \in Worker \ {w} : queue'[v] = queue[v]
    BY <1>3 DEF Types
  <1>5. \A v \in Worker : c \notin Held(v)
    BY <1>2 DEF Places, Unsent
  <1>6. c \notin Range(queue[w]) /\ thread[w].job # c /\ IsInjective(queue[w])
    BY <1>5 DEF Held, Places
  <1>7. /\ IsInjective(queue'[w])
        /\ \A d : d \in Range(queue'[w]) <=> d = c \/ d \in Range(queue[w])
    BY <1>4, <1>6, AppendQueue, QueueTypes
  <1>8. Held(w)' = Held(w) \cup {c}
    BY <1>3, <1>7 DEF Held
  <1>9. ASSUME NEW v \in Worker \ {w} PROVE Held(v)' = Held(v) /\ Sending(v)' = Sending(v)
    BY <1>1, <1>2, <1>3, <1>4 DEF Held, Sending, CallerIs
  <1>10. Sending(w)' = Sending(w) \ {c} /\ c \in Sending(w)
    BY <1>1, <1>2 DEF Sending, CallerIs
  <1>11. ASSUME NEW v \in Worker PROVE Permits(v)' = Permits(v)
    <2>1. CASE v = w
      BY <1>8, <1>10, <2>1, PermitsParts
    <2>2. CASE v # w
      BY <1>9, <2>2, PermitsParts
    <2> QED
      BY <2>1, <2>2
  <1>12. Counted'
    BY <1>3, <1>11 DEF Counted
  <1>13. \A v \in Worker : IsInjective(queue'[v]) /\ thread'[v].job \notin Range(queue'[v])
    <2>1. thread'[w].job \notin Range(queue'[w])
      BY <1>3, <1>6, <1>7 DEF Places
    <2> QED
      BY <1>3, <1>4, <1>7, <2>1 DEF Places
  <1>14. ASSUME NEW u \in Worker, NEW v \in Worker, u # v PROVE Held(u)' \cap Held(v)' = {}
    <2>1. Held(u) \cap Held(v) = {} /\ c \notin Held(u) /\ c \notin Held(v)
      BY <1>5, <1>14 DEF Places
    <2>2. CASE u = w
      BY <1>8, <1>9, <1>14, <2>1, <2>2
    <2>3. CASE v = w
      BY <1>8, <1>9, <1>14, <2>1, <2>3
    <2>4. CASE u # w /\ v # w
      BY <1>9, <2>1, <2>4
    <2> QED
      BY <2>2, <2>3, <2>4
  <1>15. ASSUME NEW d \in Caller, caller'[d].pc \in Unsent, NEW v \in Worker
         PROVE  d \notin Held(v)'
    <2>1. d # c /\ caller[d].pc \in Unsent
      BY <1>2, <1>15 DEF CallerIs, Unsent
    <2>2. d \notin Held(v)
      BY <2>1 DEF Places
    <2> QED
      BY <1>8, <1>9, <2>1, <2>2
  <1> QED
    BY <1>12, <1>13, <1>14, <1>15 DEF Places

\* The thread is dead: the job is not sent and gives its permit back.
LEMMA SendFailsKept ==
    ASSUME Types, Phases, Places, Counted, NEW c \in Caller, Send(c),
           thread[Head(caller[c].left)].pc = "crashed"
    PROVE  Places' /\ Counted'
  <1>1. PICK w \in Worker : w = Head(caller[c].left)
    BY HeadOfLeft DEF Send
  <1>2. CallerIs(c, "idle", <<>>) /\ caller[c].pc = "send"
    BY SendFailsEffect DEF Send
  <1>3. UNCHANGED <<thread, queue>> /\ outstanding' = [outstanding EXCEPT ![w] = @ - 1]
    BY <1>1 DEF Send
  <1>4. \A v \in Worker : c \notin Held(v)
    BY <1>2 DEF Places, Unsent
  <1>5. ASSUME NEW v \in Worker PROVE Held(v)' = Held(v)
    BY <1>3 DEF Held
  <1>6. ASSUME NEW v \in Worker \ {w} PROVE Permits(v)' = Permits(v)
    <2>1. Sending(v)' = Sending(v)
      BY <1>1, <1>2 DEF Sending, CallerIs
    <2> QED
      BY <1>5, <2>1, PermitsParts
  <1>7. Permits(w)' = Permits(w) \ {c} /\ c \in Permits(w)
    <2>1. Sending(w)' = Sending(w) \ {c} /\ c \in Sending(w)
      BY <1>1, <1>2 DEF Sending, CallerIs
    <2> QED
      BY <1>4, <1>5, <2>1, PermitsParts
  <1>8. Cardinality(Permits(w)') = Cardinality(Permits(w)) - 1
    BY <1>7, PermitsParts, FS_RemoveElement
  <1>9. Counted'
    <2>1. outstanding[w] - 1 = Cardinality(Permits(w)') /\ outstanding[w] - 1 <= Capacity
          /\ outstanding[w] - 1 \in Int
      BY <1>8, QueueTypes, PoolAssumption DEF Counted
    <2> QED
      BY <1>3, <1>6, <2>1, CountedAt
  <1>10. \A d \in Caller : caller'[d].pc \in Unsent => caller[d].pc \in Unsent
    BY <1>2 DEF CallerIs, Unsent
  <1> QED
    BY <1>3, <1>5, <1>9, <1>10 DEF Places

\* A job goes from the queue into the thread's hand.
LEMMA ReceiveKept ==
    ASSUME Types, Phases, Places, Counted, NEW w \in Worker, Receive(w)
    PROVE  Places' /\ Counted'
  <1>1. /\ thread[w].job = None /\ queue[w] # <<>>
        /\ queue[w] \in Seq(Caller) /\ IsInjective(queue[w])
    BY QueueTypes DEF Receive, Phases, ThreadPhase, Places
  <1>2. /\ UNCHANGED <<outstanding, caller>> /\ thread'[w].job = Head(queue[w])
        /\ \A v \in Worker \ {w} : thread'[v] = thread[v]
    BY ReceiveEffect DEF ThreadIs
  <1>3. queue'[w] = Tail(queue[w]) /\ \A v \in Worker \ {w} : queue'[v] = queue[v]
    BY DEF Receive, Types
  <1>4. /\ IsInjective(queue'[w]) /\ thread'[w].job \notin Range(queue'[w])
        /\ thread'[w].job \in Caller
        /\ \A d : d \in Range(queue[w]) <=> d = thread'[w].job \/ d \in Range(queue'[w])
    BY <1>1, <1>2, <1>3, TailQueue
  <1>5. ASSUME NEW v \in Worker PROVE Held(v)' = Held(v)
    <2>1. CASE v = w
      BY <1>1, <1>4, <2>1, PoolAssumption DEF Held
    <2>2. CASE v # w
      BY <1>2, <1>3, <2>2 DEF Held
    <2> QED
      BY <2>1, <2>2
  <1>6. ASSUME NEW v \in Worker PROVE Permits(v)' = Permits(v)
    <2>1. Sending(v)' = Sending(v)
      BY <1>2 DEF Sending
    <2> QED
      BY <1>5, <2>1, PermitsParts
  <1>7. Counted'
    BY <1>2, <1>6 DEF Counted
  <1>8. \A v \in Worker : IsInjective(queue'[v]) /\ thread'[v].job \notin Range(queue'[v])
    BY <1>2, <1>3, <1>4 DEF Places
  <1> QED
    BY <1>2, <1>5, <1>7, <1>8 DEF Places

\* A job that is in no worker's hand any more keeps nothing.
LEMMA FewerHeld ==
    ASSUME Places, UNCHANGED caller, \A v \in Worker : Held(v)' \subseteq Held(v),
           \A v \in Worker : IsInjective(queue'[v]) /\ thread'[v].job \notin Range(queue'[v])
    PROVE  Places'
  <1>1. ASSUME NEW u \in Worker, NEW v \in Worker, u # v PROVE Held(u)' \cap Held(v)' = {}
    BY <1>1 DEF Places
  <1>2. \A c \in Caller : caller'[c].pc \in Unsent => \A w \in Worker : c \notin Held(w)'
    BY DEF Places
  <1> QED
    BY <1>1, <1>2 DEF Places

\* The job is dropped, and with it its permit.
LEMMA ReleaseKept ==
    ASSUME Types, Phases, Places, Counted, NEW w \in Worker, Release(w)
    PROVE  Places' /\ Counted'
  <1>1. PICK c \in Caller : c = thread[w].job
    BY JobInHand DEF Release
  <1>2. /\ UNCHANGED <<queue, caller>> /\ thread'[w].job = None
        /\ \A v \in Worker \ {w} : thread'[v] = thread[v]
    BY ReleaseEffect DEF ThreadIs
  <1>3. outstanding' = [outstanding EXCEPT ![w] = outstanding[w] - 1]
    BY DEF Release
  <1>4. c \in Held(w) /\ c \notin Range(queue[w]) /\ c \notin Sending(w)
    BY <1>1 DEF Held, Places, Sending, Unsent
  <1>5. Held(w)' = Held(w) \ {c}
    BY <1>1, <1>2, <1>4, PoolAssumption DEF Held
  <1>6. ASSUME NEW v \in Worker \ {w} PROVE Held(v)' = Held(v)
    BY <1>2 DEF Held
  <1>7. ASSUME NEW v \in Worker PROVE Sending(v)' = Sending(v)
    BY <1>2 DEF Sending
  <1>8. ASSUME NEW v \in Worker \ {w} PROVE Permits(v)' = Permits(v)
    BY <1>6, <1>7, PermitsParts
  <1>9. Permits(w)' = Permits(w) \ {c} /\ c \in Permits(w)
    BY <1>4, <1>5, <1>7, PermitsParts
  <1>10. Cardinality(Permits(w)') = Cardinality(Permits(w)) - 1
    BY <1>9, PermitsParts, FS_RemoveElement
  <1>11. Counted'
    <2>1. outstanding[w] - 1 = Cardinality(Permits(w)') /\ outstanding[w] - 1 <= Capacity
          /\ outstanding[w] - 1 \in Int
      BY <1>10, QueueTypes, PoolAssumption DEF Counted
    <2> QED
      BY <1>3, <1>8, <2>1, CountedAt
  <1>12. \A v \in Worker : Held(v)' \subseteq Held(v)
    BY <1>5, <1>6
  <1>13. \A v \in Worker : IsInjective(queue'[v]) /\ thread'[v].job \notin Range(queue'[v])
    <2>1. None \notin Range(queue[w])
      BY QueueTypes, PoolAssumption DEF Range
    <2> QED
      BY <1>2, <2>1 DEF Places
  <1> QED
    BY <1>2, <1>11, <1>12, <1>13, FewerHeld

\* A dying thread drops the job in its hand and those in its queue.
LEMMA CrashKept ==
    ASSUME Types, Phases, Places, Counted, NEW w \in Worker, WakePanics(w),
           thread[w].doing # "operation"
    PROVE  Places' /\ Counted'
  <1>1. PICK c \in Caller : c = thread[w].job
    BY JobInHand DEF WakePanics
  <1>2. thread'[w].job = None /\ \A v \in Worker \ {w} : thread'[v] = thread[v]
    BY WakePanicsEffect DEF ThreadIs
  <1>3. outstanding' = [outstanding EXCEPT ![w] = outstanding[w] - 1 - Len(queue[w])]
    BY DEF WakePanics
  <1>4. queue'[w] = <<>> /\ \A v \in Worker \ {w} : queue'[v] = queue[v]
    BY DEF WakePanics, Types
  <1>5. PICK pc \in Unsent \cup Sent :
           /\ CallerIs(c, pc, caller[c].left)
           /\ pc = caller[c].pc \/ (pc \in Sent /\ caller[c].pc \in Sent)
    BY <1>1, WakeEffect
  <1>6. \A d \in Caller :
           /\ caller'[d].pc \in Unsent => caller[d].pc \in Unsent
           /\ \A v \in Worker : (caller'[d].pc = "send" /\ Head(caller'[d].left) = v)
                                <=> (caller[d].pc = "send" /\ Head(caller[d].left) = v)
    BY <1>5 DEF CallerIs, Sent, Unsent
  <1>7. ASSUME NEW v \in Worker PROVE Sending(v)' = Sending(v)
    BY <1>6 DEF Sending
  <1>8. Held(w)' = {} /\ Held(w) = Range(queue[w]) \cup {c} /\ c \notin Range(queue[w])
    <2>1. Held(w)' = {}
      BY <1>2, <1>4, EmptyQueue, PoolAssumption DEF Held
    <2>2. Range(queue[w]) \subseteq Caller
      BY QueueTypes DEF Range
    <2> QED
      BY <1>1, <2>1, <2>2 DEF Held, Places
  <1>9. ASSUME NEW v \in Worker \ {w} PROVE Held(v)' = Held(v)
    BY <1>2, <1>4 DEF Held
  <1>10. ASSUME NEW v \in Worker \ {w} PROVE Permits(v)' = Permits(v)
    BY <1>7, <1>9, PermitsParts
  <1>11. /\ IsFiniteSet(Held(w)) /\ Cardinality(Held(w)) = Len(queue[w]) + 1
         /\ Len(queue[w]) \in Nat
    <2>1. /\ IsFiniteSet(Range(queue[w])) /\ Cardinality(Range(queue[w])) = Len(queue[w])
          /\ Len(queue[w]) \in Nat
      BY QueueTypes, QueueLength DEF Places
    <2> QED
      BY <1>8, <2>1, FS_AddElement
  <1>12. Sending(w) \cap Held(w) = {} /\ IsFiniteSet(Sending(w)) /\ Cardinality(Sending(w)) \in Nat
    <2>1. Sending(w) \cap Held(w) = {}
      BY DEF Sending, Places, Unsent
    <2>2. IsFiniteSet(Sending(w))
      BY PermitsParts, FS_Subset
    <2> QED
      BY <2>1, <2>2, FS_CardinalityType
  <1>13. Cardinality(Permits(w)) = Cardinality(Sending(w)) + Len(queue[w]) + 1
    <2>1. Permits(w) = Sending(w) \cup Held(w)
      BY PermitsParts
    <2>2. Cardinality(Sending(w) \cup Held(w))
             = Cardinality(Sending(w)) + Cardinality(Held(w)) - Cardinality(Sending(w) \cap Held(w))
      BY <1>11, <1>12, FS_Union
    <2>3. Cardinality(Sending(w) \cap Held(w)) = 0
      BY <1>12, FS_EmptySet
    <2> QED
      BY <1>11, <1>12, <2>1, <2>2, <2>3
  <1>14. Permits(w)' = Sending(w)
    BY <1>7, <1>8, PermitsParts
  <1>15. Counted'
    <2> DEFINE n == outstanding[w] - 1 - Len(queue[w])
    <2>1. n = Cardinality(Permits(w)') /\ n <= Capacity /\ n \in Int
      BY <1>11, <1>12, <1>13, <1>14, QueueTypes, PoolAssumption DEF Counted
    <2> QED
      BY <1>3, <1>10, <2>1, CountedAt
  <1>16. \A v \in Worker : IsInjective(queue'[v]) /\ thread'[v].job \notin Range(queue'[v])
    BY <1>2, <1>4, EmptyQueue DEF Places
  <1>17. ASSUME NEW u \in Worker, NEW v \in Worker, u # v PROVE Held(u)' \cap Held(v)' = {}
    <2>1. Held(u)' \subseteq Held(u) /\ Held(v)' \subseteq Held(v)
      BY <1>8, <1>9
    <2> QED
      BY <1>17, <2>1 DEF Places
  <1>18. ASSUME NEW d \in Caller, caller'[d].pc \in Unsent, NEW v \in Worker
         PROVE  d \notin Held(v)'
    <2>1. Held(v)' \subseteq Held(v)
      BY <1>8, <1>9
    <2> QED
      BY <1>6, <1>18, <2>1 DEF Places
  <1> QED
    BY <1>15, <1>16, <1>17, <1>18 DEF Places

\* Only these steps change a queue, a counter or who holds what.
LEMMA PlacesKept ==
    ASSUME Types, Phases, Places, Counted, [Next]_vars
    PROVE  Places' /\ Counted'
  <1> DEFINE Goal == Places' /\ Counted'
  <1>a. ASSUME NEW c \in Caller, caller[c].pc \in {"check", "reserve"}, Refused(c),
               UNCHANGED <<queue, outstanding, thread>>
        PROVE  Goal
    <2> DEFINE pc == IF Tail(caller[c].left) = <<>> THEN "idle" ELSE "check"
    <2>1. CallerIs(c, pc, Tail(caller[c].left))
      BY <1>a, RefusedEffect
    <2>2. (pc \in Unsent => caller[c].pc \in Unsent) /\ pc # "send" /\ caller[c].pc # "send"
      BY <1>a DEF Unsent
    <2> HIDE DEF pc
    <2> QED
      BY <1>a, <2>1, <2>2, CallerQuiet
  <1>t. ASSUME UNCHANGED <<queue, outstanding, caller>>, NEW w \in Worker, NEW pc, NEW doing,
               NEW result, NEW failed, NEW replica,
               ThreadIs(w, pc, thread[w].job, doing, result, failed, replica)
        PROVE  Goal
    BY <1>t, ThreadQuiet
  <1>w. ASSUME UNCHANGED <<queue, outstanding>>, NEW w \in Worker, Wake(w) \/ WakePanics(w),
               thread'[w].job = thread[w].job, \A v \in Worker \ {w} : thread'[v] = thread[v]
        PROVE  Goal
    <2>1. PICK c \in Caller : c = thread[w].job
      BY <1>w, WakeEffect
    <2>2. PICK pc \in Unsent \cup Sent :
             /\ CallerIs(c, pc, caller[c].left)
             /\ pc = caller[c].pc \/ (pc \in Sent /\ caller[c].pc \in Sent)
      BY <1>w, <2>1, WakeEffect
    <2>3. \A d \in Caller :
             /\ caller'[d].pc \in Unsent => caller[d].pc \in Unsent
             /\ \A v \in Worker : (caller'[d].pc = "send" /\ Head(caller'[d].left) = v)
                                  <=> (caller[d].pc = "send" /\ Head(caller[d].left) = v)
      BY <2>2 DEF CallerIs, Sent, Unsent
    <2>4. \A v \in Worker : thread'[v].job = thread[v].job
      BY <1>w
    <2> QED
      BY <1>w, <2>3, <2>4, QuietKept
  <1>u. ASSUME UNCHANGED <<queue, outstanding, thread, caller>> PROVE Goal
    BY <1>u, QuietKept
  <1> HIDE DEF Goal
  <1>1. ASSUME NEW c \in Caller, Submit(c) PROVE Goal
    <2>1. PICK order \in Seq(Worker) : CallerIs(c, "check", order)
      BY <1>1, SubmitEffect
    <2>2. UNCHANGED <<queue, outstanding, thread>> /\ caller[c].pc = "idle"
      BY <1>1 DEF Submit, shared
    <2> QED
      BY <2>1, <2>2, CallerQuiet DEF Unsent, Goal
  <1>2. ASSUME NEW c \in Caller, CheckQuarantine(c) PROVE Goal
    <2>1. UNCHANGED <<queue, outstanding, thread>> /\ caller[c].pc = "check"
      BY <1>2 DEF CheckQuarantine, shared
    <2>2. CASE quarantined[Head(caller[c].left)]
      BY <1>2, <1>a, <2>1, <2>2 DEF CheckQuarantine
    <2>3. CASE ~quarantined[Head(caller[c].left)]
      <3>1. CallerIs(c, "reserve", caller[c].left)
        BY <1>2, <2>3, MovesEffect DEF CheckQuarantine, Unsent
      <3> QED
        BY <2>1, <3>1, CallerQuiet DEF Unsent, Goal
    <2> QED
      BY <2>2, <2>3
  <1>3. ASSUME NEW c \in Caller, Reserve(c) PROVE Goal
    <2>1. CASE Reservable(Head(caller[c].left))
      BY <1>3, <2>1, ReserveKept DEF Goal
    <2>2. CASE ~Reservable(Head(caller[c].left))
      BY <1>3, <1>a, <2>2 DEF Reserve
    <2> QED
      BY <2>1, <2>2
  <1>4. ASSUME NEW c \in Caller, Send(c) PROVE Goal
    BY <1>4, SendKept, SendFailsKept DEF Goal
  <1>5. ASSUME NEW c \in Caller, PollHandle(c) \/ WaitHandle(c) \/ DropHandle(c) PROVE Goal
    <2>1. PICK pc \in Sent : CallerIs(c, pc, caller[c].left)
      BY <1>5, MovesEffect DEF PollHandle, WaitHandle, DropHandle, Sent
    <2>2. UNCHANGED <<queue, outstanding, thread>> /\ caller[c].pc \in Sent
      BY <1>5 DEF PollHandle, WaitHandle, DropHandle, Sent, shared
    <2> QED
      BY <2>1, <2>2, CallerQuiet DEF Unsent, Sent, Goal
  <1>6. ASSUME NEW c \in Caller, CancelJob(c) PROVE Goal
    BY <1>6, <1>u DEF CancelJob, shared
  <1>7. ASSUME NEW w \in Worker, NEW ok \in BOOLEAN, Initialize(w, ok) PROVE Goal
    BY <1>7, <1>t, InitializeEffect
  <1>8. ASSUME NEW w \in Worker, Receive(w) PROVE Goal
    BY <1>8, ReceiveKept DEF Goal
  <1>9. ASSUME NEW w \in Worker, Check(w) PROVE Goal
    BY <1>9, <1>t, CheckEffect
  <1>10. ASSUME NEW w \in Worker, NEW result \in {"ok", "recoverable"} \cup Fatal, Run(w, result)
         PROVE  Goal
    BY <1>10, <1>t, RunEffect
  <1>11. ASSUME NEW w \in Worker, Publish(w) PROVE Goal
    <2>1. CASE Completes(thread[w].job)
      BY <1>11, <1>t, <2>1, PublishEffect
    <2>2. CASE ~Completes(thread[w].job)
      <3>1. UNCHANGED <<queue, outstanding, caller>> /\ thread' = Settled(w)
        BY <1>11, <2>2 DEF Publish, shared
      <3> QED
        BY <1>t, <3>1, SettledEffect
    <2> QED
      BY <2>1, <2>2
  <1>12. ASSUME NEW w \in Worker, Wake(w) PROVE Goal
    <2>1. UNCHANGED <<queue, outstanding>> /\ thread' = Settled(w)
      BY <1>12 DEF Wake, shared
    <2>2. thread'[w].job = thread[w].job /\ \A v \in Worker \ {w} : thread'[v] = thread[v]
      BY <2>1, SettledEffect DEF ThreadIs
    <2> QED
      BY <1>12, <1>w, <2>1, <2>2
  <1>13. ASSUME NEW w \in Worker, WakePanics(w) PROVE Goal
    <2>1. CASE thread[w].doing = "operation"
      <3>1. UNCHANGED <<queue, outstanding>>
        BY <1>13, <2>1 DEF WakePanics
      <3>2. thread'[w].job = thread[w].job /\ \A v \in Worker \ {w} : thread'[v] = thread[v]
        BY <1>13, <2>1, WakePanicsEffect DEF ThreadIs
      <3> QED
        BY <1>13, <1>w, <3>1, <3>2
    <2>2. CASE thread[w].doing # "operation"
      BY <1>13, <2>2, CrashKept DEF Goal
    <2> QED
      BY <2>1, <2>2
  <1>14. ASSUME NEW w \in Worker, Mark(w) PROVE Goal
    BY <1>14, <1>t, MarkEffect
  <1>15. ASSUME NEW w \in Worker, Release(w) PROVE Goal
    BY <1>15, ReleaseKept DEF Goal
  <1>16. ASSUME NEW w \in Worker, Exit(w) PROVE Goal
    BY <1>16, <1>t, ExitEffect
  <1>17. ASSUME NEW joins \in BOOLEAN, Close(joins) PROVE Goal
    BY <1>17, <1>u DEF Close, shared
  <1>18. ASSUME OwnerStep PROVE Goal
    BY <1>18, <1>u DEF OwnerStep, StopWorker, TakeSender, JoinThread, shared
  <1>19. ASSUME UNCHANGED vars PROVE Goal
    BY <1>19, <1>u DEF vars, shared
  <1>20. ASSUME NEW w \in Worker, ThreadStep(w) PROVE Goal
    BY <1>20, <1>7, <1>8, <1>9, <1>10, <1>11, <1>12, <1>13, <1>14, <1>15, <1>16 DEF ThreadStep
  <1>21. Goal
    BY <1>1, <1>2, <1>3, <1>4, <1>5, <1>6, <1>17, <1>18, <1>19, <1>20 DEF Next, Submission
  <1> QED
    BY <1>21 DEF Goal

-----------------------------------------------------------------------------
(* Failures                                                                *)

\* What Failures says of one worker, in the fields of its thread.
FailurePhase(w, pc, doing, result, failed, replica, broken) ==
    LET recording == /\ pc \in {"publish", "wake", "mark"}
                     /\ doing = "panic" \/ (doing = "operation" /\ result \in Fatal)
    IN  /\ pc = "run" => ~failed
        /\ broken /\ pc # "crashed" => failed \/ recording
        /\ pc \notin {"init", "exited", "crashed"} /\ ~failed => replica = "live"
        /\ pc = "init" => ~broken /\ replica = None
        /\ pc = "mark" => failed \/ recording
        /\ pc \notin {"exited", "crashed"} => replica # "dropped"
        /\ pc = "exited" /\ failed => replica # "dropped"
        /\ pc = "crashed" => Panicky # {}

\* Failures, with the state of each thread spelled out.
LEMMA FailuresByPhase ==
    /\ Failures <=> \A w \in Worker :
          FailurePhase(w, thread[w].pc, thread[w].doing, thread[w].result,
                       thread[w].failed, thread[w].replica, Broken(w))
    /\ Failures' <=> \A w \in Worker :
          FailurePhase(w, thread'[w].pc, thread'[w].doing, thread'[w].result,
                       thread'[w].failed, thread'[w].replica, Broken(w)')
  BY DEF Failures, FailurePhase, Recording

\* Every step preserves Failures.
LEMMA FailuresKept ==
    ASSUME Types, Phases, Failures, [Next]_vars
    PROVE  Failures'
  <1>0. \A w \in Worker :
          FailurePhase(w, thread[w].pc, thread[w].doing, thread[w].result,
                       thread[w].failed, thread[w].replica, Broken(w))
    BY FailuresByPhase
  <1>k. ASSUME UNCHANGED ran PROVE \A w \in Worker : Broken(w)' = Broken(w)
    BY <1>k DEF Broken
  <1>a. ASSUME UNCHANGED ran, NEW w \in Worker, NEW pc, NEW job, NEW doing, NEW result,
               NEW failed, NEW replica,
               ThreadIs(w, pc, job, doing, result, failed, replica),
               FailurePhase(w, pc, doing, result, failed, replica, Broken(w))
        PROVE  Failures'
    <2>1. FailurePhase(w, thread'[w].pc, thread'[w].doing, thread'[w].result,
                       thread'[w].failed, thread'[w].replica, Broken(w)')
      BY <1>a, <1>k DEF ThreadIs
    <2>2. ASSUME NEW v \in Worker \ {w}
          PROVE  FailurePhase(v, thread'[v].pc, thread'[v].doing, thread'[v].result,
                       thread'[v].failed, thread'[v].replica, Broken(v)')
      BY <1>0, <1>a, <1>k DEF ThreadIs
    <2> QED
      BY <2>1, <2>2, FailuresByPhase
  <1>s. ASSUME UNCHANGED ran, NEW w \in Worker, thread[w].pc \in {"publish", "wake"},
               thread' = Settled(w)
        PROVE  Failures'
    <2> DEFINE fatal == thread[w].doing = "operation" /\ thread[w].result \in Fatal
    <2>1. CASE fatal
      <3>1. ThreadIs(w, "mark", thread[w].job, thread[w].doing, thread[w].result,
                     thread[w].failed, thread[w].replica)
        BY <1>s, <2>1, SettledEffect
      <3>2. FailurePhase(w, "mark", thread[w].doing, thread[w].result, thread[w].failed,
                         thread[w].replica, Broken(w))
        BY <1>0, <1>s, <2>1 DEF FailurePhase
      <3> QED
        BY <1>a, <1>s, <3>1, <3>2
    <2>2. CASE ~fatal
      <3> DEFINE failed == thread[w].failed \/ thread[w].doing = "panic"
      <3>1. ThreadIs(w, "release", thread[w].job, thread[w].doing, thread[w].result,
                     failed, thread[w].replica)
        BY <1>s, <2>2, SettledEffect
      <3>2. FailurePhase(w, "release", thread[w].doing, thread[w].result, failed,
                         thread[w].replica, Broken(w))
        BY <1>0, <1>s, <2>2 DEF FailurePhase
      <3> HIDE DEF failed
      <3> QED
        BY <1>a, <1>s, <3>1, <3>2
    <2> QED
      BY <2>1, <2>2
  <1>1. ASSUME NEW w \in Worker, NEW ok \in BOOLEAN, Initialize(w, ok) PROVE Failures'
    <2>1. thread[w].pc = "init" /\ UNCHANGED ran /\ ~Broken(w)
      BY <1>0, <1>1, InitializeEffect DEF FailurePhase
    <2>2. CASE ok
      <3>1. ThreadIs(w, "recv", thread[w].job, "init", thread[w].result, FALSE, "live")
        BY <1>1, <2>2, InitializeEffect
      <3>2. FailurePhase(w, "recv", "init", thread[w].result, FALSE, "live", Broken(w))
        BY <2>1 DEF FailurePhase
      <3> QED
        BY <1>a, <2>1, <3>1, <3>2
    <2>3. CASE ~ok
      <3>1. ThreadIs(w, "mark", thread[w].job, "init", thread[w].result, TRUE, None)
        BY <1>1, <2>3, InitializeEffect
      <3>2. FailurePhase(w, "mark", "init", thread[w].result, TRUE, None, Broken(w))
        BY <2>1 DEF FailurePhase, None
      <3> QED
        BY <1>a, <2>1, <3>1, <3>2
    <2> QED
      BY <2>2, <2>3
  <1>2. ASSUME NEW w \in Worker, Receive(w) PROVE Failures'
    BY <1>0, <1>2, <1>a, ReceiveEffect DEF FailurePhase
  <1>3. ASSUME NEW w \in Worker, Check(w) PROVE Failures'
    BY <1>0, <1>3, <1>a, CheckEffect DEF FailurePhase, Refuses
  <1>4. ASSUME NEW w \in Worker, NEW result \in {"ok", "recoverable"} \cup Fatal, Run(w, result)
        PROVE  Failures'
    <2>1. PICK c \in Caller : c = thread[w].job
      BY <1>4, JobInHand DEF Run
    <2>2. ran'[c] = [result |-> result, at |-> w] /\ \A d \in Caller \ {c} : ran'[d] = ran[d]
      BY <1>4, <2>1 DEF Run, Types
    <2>3. ~Broken(w) /\ thread[w].pc = "run"
      BY <1>0, <1>4 DEF FailurePhase, Run
    <2>4. Broken(w)' => result \in Fatal
      BY <2>2, <2>3 DEF Broken
    <2>5. FailurePhase(w, thread'[w].pc, thread'[w].doing, thread'[w].result,
                       thread'[w].failed, thread'[w].replica, Broken(w)')
      BY <1>0, <1>4, <2>3, <2>4, RunEffect DEF FailurePhase, ThreadIs, Fatal
    <2>6. ASSUME NEW v \in Worker \ {w}
          PROVE  FailurePhase(v, thread'[v].pc, thread'[v].doing, thread'[v].result,
                       thread'[v].failed, thread'[v].replica, Broken(v)')
      <3>1. Broken(v)' => Broken(v)
        BY <2>2 DEF Broken
      <3>2. thread'[v] = thread[v]
        BY <1>4, RunEffect DEF ThreadIs
      <3> QED
        BY <1>0, <3>1, <3>2 DEF FailurePhase
    <2> QED
      BY <2>5, <2>6, FailuresByPhase
  <1>5. ASSUME NEW w \in Worker, Publish(w) PROVE Failures'
    <2>1. CASE Completes(thread[w].job)
      BY <1>0, <1>5, <1>a, <2>1, PublishEffect DEF FailurePhase
    <2>2. CASE ~Completes(thread[w].job)
      BY <1>5, <1>s, <2>2 DEF Publish
    <2> QED
      BY <2>1, <2>2
  <1>6. ASSUME NEW w \in Worker, Wake(w) PROVE Failures'
    BY <1>6, <1>s DEF Wake
  <1>7. ASSUME NEW w \in Worker, WakePanics(w) PROVE Failures'
    <2>1. Panicky # {}
      BY <1>7 DEF WakePanics
    <2>2. UNCHANGED ran /\ thread[w].pc = "wake"
      BY <1>7 DEF WakePanics
    <2>3. CASE thread[w].doing = "operation"
      <3>1. ThreadIs(w, "mark", thread[w].job, "panic", "panicked", thread[w].failed,
                     thread[w].replica)
        BY <1>7, <2>3, WakePanicsEffect
      <3>2. FailurePhase(w, "mark", "panic", "panicked", thread[w].failed,
                         thread[w].replica, Broken(w))
        BY <1>0, <2>2 DEF FailurePhase
      <3> QED
        BY <1>a, <2>2, <3>1, <3>2
    <2>4. CASE thread[w].doing # "operation"
      <3> DEFINE replica == IF thread[w].replica = "live" THEN "dropped" ELSE thread[w].replica
      <3>1. ThreadIs(w, "crashed", None, thread[w].doing, thread[w].result,
                     thread[w].failed, replica)
        BY <1>7, <2>4, WakePanicsEffect
      <3>2. FailurePhase(w, "crashed", thread[w].doing, thread[w].result, thread[w].failed,
                         replica, Broken(w))
        BY <2>1 DEF FailurePhase
      <3> HIDE DEF replica
      <3> QED
        BY <1>a, <2>2, <3>1, <3>2
    <2> QED
      BY <2>3, <2>4
  <1>8. ASSUME NEW w \in Worker, Mark(w) PROVE Failures'
    <2>1. UNCHANGED ran /\ thread[w].pc = "mark"
      BY <1>8 DEF Mark
    <2>2. CASE thread[w].doing = "init"
      <3>1. ThreadIs(w, "recv", thread[w].job, thread[w].doing, thread[w].result,
                     thread[w].failed, thread[w].replica)
        BY <1>8, <2>2, MarkEffect
      <3>2. FailurePhase(w, "recv", thread[w].doing, thread[w].result, thread[w].failed,
                         thread[w].replica, Broken(w))
        BY <1>0, <2>1, <2>2 DEF FailurePhase
      <3> QED
        BY <1>a, <2>1, <3>1, <3>2
    <2>3. CASE thread[w].doing = "panic"
      <3>1. ThreadIs(w, "publish", thread[w].job, thread[w].doing, thread[w].result,
                     thread[w].failed, thread[w].replica)
        BY <1>8, <2>3, MarkEffect
      <3>2. FailurePhase(w, "publish", thread[w].doing, thread[w].result, thread[w].failed,
                         thread[w].replica, Broken(w))
        BY <1>0, <2>1, <2>3 DEF FailurePhase
      <3> QED
        BY <1>a, <2>1, <3>1, <3>2
    <2>4. CASE thread[w].doing \notin {"init", "panic"}
      <3>1. ThreadIs(w, "release", thread[w].job, thread[w].doing, thread[w].result,
                     TRUE, thread[w].replica)
        BY <1>8, <2>4, MarkEffect
      <3>2. FailurePhase(w, "release", thread[w].doing, thread[w].result, TRUE,
                         thread[w].replica, Broken(w))
        BY <1>0, <2>1 DEF FailurePhase
      <3> QED
        BY <1>a, <2>1, <3>1, <3>2
    <2> QED
      BY <2>2, <2>3, <2>4
  <1>9. ASSUME NEW w \in Worker, Release(w) PROVE Failures'
    BY <1>0, <1>9, <1>a, ReleaseEffect DEF FailurePhase
  <1>10. ASSUME NEW w \in Worker, Exit(w) PROVE Failures'
    BY <1>0, <1>10, <1>a, ExitEffect DEF FailurePhase, Retained
  <1>11. ASSUME UNCHANGED <<thread, ran>> PROVE Failures'
    BY <1>0, <1>11, <1>k, FailuresByPhase
  <1>12. ASSUME NEW w \in Worker, ThreadStep(w) PROVE Failures'
    BY <1>12, <1>1, <1>2, <1>3, <1>4, <1>5, <1>6, <1>7, <1>8, <1>9, <1>10 DEF ThreadStep
  <1>13. UNCHANGED <<thread, ran>> \/ \E w \in Worker : ThreadStep(w)
    <2>1. ASSUME NEW c \in Caller, Submission(c) PROVE UNCHANGED <<thread, ran>>
      BY <2>1 DEF Submission, Submit, CheckQuarantine, Reserve, Send
    <2>2. ASSUME NEW c \in Caller, PollHandle(c) \/ WaitHandle(c) \/ CancelJob(c) \/ DropHandle(c)
          PROVE  UNCHANGED <<thread, ran>>
      BY <2>2 DEF PollHandle, WaitHandle, CancelJob, DropHandle
    <2>3. ASSUME NEW joins \in BOOLEAN, Close(joins) PROVE UNCHANGED <<thread, ran>>
      BY <2>3 DEF Close
    <2>4. ASSUME OwnerStep PROVE UNCHANGED <<thread, ran>>
      BY <2>4 DEF OwnerStep, StopWorker, TakeSender, JoinThread
    <2>5. CASE UNCHANGED vars
      BY <2>5 DEF vars
    <2> QED
      BY <2>1, <2>2, <2>3, <2>4, <2>5 DEF Next
  <1> QED
    BY <1>11, <1>12, <1>13

-----------------------------------------------------------------------------
(* Results                                                                 *)

\* A thread without a job promises nothing.
LEMMA NothingInHand ==
    ASSUME Types, Phases, NEW w \in Worker, thread[w].job \notin Caller, thread'[w] = thread[w]
    PROVE  InHand(w)'
  <1>1. thread[w].job = None
    BY ThreadTypes
  <1>2. /\ thread[w].pc \notin {"check", "run", "publish", "wake", "release"}
        /\ thread[w].pc = "mark" => thread[w].doing = "init"
    BY <1>1, PoolAssumption DEF Phases, ThreadPhase
  <1> QED
    BY <1>2 DEF InHand

\* A step that runs and answers nothing.
LEMMA TruthfulSame ==
    ASSUME Types, Phases, Truthful,
           \A c \in Caller : /\ ran'[c] = ran[c] /\ cell'[c].value = cell[c].value
                             /\ caller'[c].pc \in Unsent => caller[c].pc \in Unsent,
           \A w \in Worker : Range(queue'[w]) \subseteq Range(queue[w]),
           \A w \in Worker : thread'[w] = thread[w] \/ InHand(w)'
    PROVE  Truthful'
  <1>1. \A c \in Caller : Fresh(c)' <=> Fresh(c)
    BY DEF Fresh
  <1>2. \A c \in Caller : caller'[c].pc \in Unsent => Fresh(c)'
    BY <1>1 DEF Truthful
  <1>3. ASSUME NEW w \in Worker PROVE \A c \in Range(queue'[w]) : Fresh(c)'
    <2>1. Range(queue[w]) \subseteq Caller
      BY QueueTypes DEF Range
    <2> QED
      BY <1>1, <2>1 DEF Truthful
  <1>4. ASSUME NEW w \in Worker PROVE InHand(w)'
    <2>1. CASE thread'[w] = thread[w] /\ thread[w].job \in Caller
      <3>1. InHand(w)
        BY DEF Truthful
      <3> QED
        BY <1>1, <2>1, <3>1 DEF InHand, Fresh, Outcome
    <2>2. CASE thread'[w] = thread[w] /\ thread[w].job \notin Caller
      BY <2>2, NothingInHand
    <2> QED
      BY <2>1, <2>2
  <1>5. ResultTruthful'
    BY DEF Truthful, ResultTruthful
  <1> QED
    BY <1>2, <1>3, <1>4, <1>5 DEF Truthful

\* A step of worker w that runs or answers the job in its hand.
LEMMA TruthfulAt ==
    ASSUME Types, Phases, Places, Truthful, UNCHANGED <<queue, caller>>,
           NEW w \in Worker, NEW c \in Caller, c = thread[w].job,
           \A d \in Caller \ {c} : ran'[d] = ran[d] /\ cell'[d].value = cell[d].value,
           \A v \in Worker \ {w} : thread'[v] = thread[v],
           InHand(w)', cell'[c].value # None => cell'[c].value = Outcome(c)'
    PROVE  Truthful'
  <1>1. \A d \in Caller \ {c} : Fresh(d)' <=> Fresh(d)
    BY DEF Fresh
  <1>2. \A v \in Worker : c \notin Range(queue[v]) /\ (v # w => thread[v].job # c)
    <2>1. c \in Held(w) /\ c \notin Range(queue[w])
      BY DEF Held, Places
    <2>2. ASSUME NEW v \in Worker \ {w} PROVE c \notin Held(v)
      BY <2>1 DEF Places
    <2> QED
      BY <2>1, <2>2 DEF Held
  <1>3. caller[c].pc \notin Unsent
    BY DEF Places, Held
  <1>4. \A d \in Caller : caller'[d].pc \in Unsent => Fresh(d)'
    BY <1>1, <1>3 DEF Truthful
  <1>5. ASSUME NEW v \in Worker PROVE \A d \in Range(queue'[v]) : Fresh(d)'
    <2>1. Range(queue[v]) \subseteq Caller
      BY QueueTypes DEF Range
    <2> QED
      BY <1>1, <1>2, <2>1 DEF Truthful
  <1>6. ASSUME NEW v \in Worker \ {w} PROVE InHand(v)'
    <2>1. CASE thread[v].job \in Caller
      <3>1. InHand(v) /\ thread[v].job # c
        BY <1>2 DEF Truthful
      <3> QED
        BY <1>1, <2>1, <3>1 DEF InHand, Fresh, Outcome
    <2>2. CASE thread[v].job \notin Caller
      BY <2>2, NothingInHand
    <2> QED
      BY <2>1, <2>2
  <1>7. ResultTruthful'
    <2>1. ASSUME NEW d \in Caller \ {c}, cell'[d].value # None
          PROVE  cell'[d].value = IF ran'[d].result = None THEN "refused" ELSE ran'[d].result
      BY <2>1 DEF Truthful, ResultTruthful
    <2>2. cell'[c].value # None =>
             cell'[c].value = IF ran'[c].result = None THEN "refused" ELSE ran'[c].result
      BY DEF Outcome
    <2> QED
      BY <2>1, <2>2 DEF ResultTruthful
  <1> QED
    BY <1>4, <1>5, <1>6, <1>7 DEF Truthful

\* Registering or taking a waker leaves the results alone.
LEMMA WakerOnly ==
    ASSUME Types, NEW c \in Caller, NEW b, cell' = [cell EXCEPT ![c].waker = b]
    PROVE  \A d \in Caller : cell'[d].value = cell[d].value
  <1>1. cell' = [cell EXCEPT ![c] = [cell[c] EXCEPT !.waker = b]]
    BY DEF Types
  <1>2. cell'[c] = [cell[c] EXCEPT !.waker = b] /\ \A d \in Caller \ {c} : cell'[d] = cell[d]
    BY <1>1 DEF Types
  <1>3. cell[c] \in Cell
    BY DEF Types
  <1>4. cell'[c].value = cell[c].value
    BY <1>2, <1>3 DEF Cell
  <1> QED
    BY <1>2, <1>4

\* The step of a caller whose job is not being sent, and every step that leaves
\* threads and queues alone.
LEMMA CallerTruthful ==
    ASSUME Types, Phases, Truthful, NEW c \in Caller,
           Submit(c) \/ CheckQuarantine(c) \/ Reserve(c) \/ PollHandle(c) \/ WaitHandle(c)
           \/ CancelJob(c) \/ DropHandle(c)
    PROVE  Truthful'
  <1>1. UNCHANGED <<thread, queue, ran>>
    BY DEF Submit, CheckQuarantine, Reserve, PollHandle, WaitHandle, CancelJob, DropHandle, shared
  <1>2. \A d \in Caller : cell'[d].value = cell[d].value
    <2>1. UNCHANGED cell \/ cell' = [cell EXCEPT ![c].waker = TRUE]
      BY DEF Submit, CheckQuarantine, Reserve, PollHandle, WaitHandle, CancelJob, DropHandle
    <2> QED
      BY <2>1, WakerOnly
  <1>3. \A d \in Caller : caller'[d].pc \in Unsent => caller[d].pc \in Unsent
    <2>1. CASE caller[c].pc \in Unsent
      <3>1. \A d \in Caller \ {c} : caller'[d] = caller[d]
        BY DEF Submit, CheckQuarantine, Reserve, PollHandle, WaitHandle, CancelJob, DropHandle, Types, Refused
      <3> QED
        BY <2>1, <3>1
    <2>2. CASE caller[c].pc \notin Unsent
      <3>1. (PollHandle(c) \/ WaitHandle(c) \/ DropHandle(c)) \/ UNCHANGED caller
        BY <2>2 DEF Unsent, Submit, CheckQuarantine, Reserve, CancelJob
      <3>2. ASSUME PollHandle(c) \/ WaitHandle(c) \/ DropHandle(c)
            PROVE  \E pc \in Sent : CallerIs(c, pc, caller[c].left)
        BY <3>2, MovesEffect DEF PollHandle, WaitHandle, DropHandle, Sent
      <3> QED
        BY <3>1, <3>2 DEF CallerIs, Sent, Unsent
    <2> QED
      BY <2>1, <2>2
  <1> QED
    BY <1>1, <1>2, <1>3, TruthfulSame

\* A job is sent before it has run, or it is not sent.
LEMMA SendTruthful ==
    ASSUME Types, Phases, Truthful, NEW c \in Caller, Send(c)
    PROVE  Truthful'
  <1>1. PICK w \in Worker : w = Head(caller[c].left)
    BY HeadOfLeft DEF Send
  <1>2. UNCHANGED <<thread, cell, ran>>
    BY DEF Send
  <1>3. CASE thread[w].pc = "crashed"
    <2>1. CallerIs(c, "idle", <<>>) /\ UNCHANGED queue /\ caller[c].pc = "send"
      BY <1>1, <1>3, SendFailsEffect DEF Send
    <2>2. \A d \in Caller : caller'[d].pc \in Unsent => caller[d].pc \in Unsent
      BY <2>1 DEF CallerIs, Unsent
    <2> QED
      BY <1>2, <2>1, <2>2, TruthfulSame
  <1>4. CASE thread[w].pc # "crashed"
    <2>1. /\ CallerIs(c, "ready", caller[c].left) /\ caller[c].pc = "send"
          /\ queue' = [queue EXCEPT ![w] = Append(@, c)]
      BY <1>1, <1>4, MovesEffect DEF Send, Sent
    <2>2. Fresh(c)
      BY <2>1 DEF Truthful, Unsent
    <2>3. \A d \in Range(Append(queue[w], c)) : d = c \/ d \in Range(queue[w])
      <3>1. /\ Len(queue[w]) \in Nat /\ DOMAIN queue[w] = 1..Len(queue[w])
            /\ DOMAIN Append(queue[w], c) = 1..(Len(queue[w]) + 1)
            /\ Append(queue[w], c)[Len(queue[w]) + 1] = c
            /\ \A i \in 1..Len(queue[w]) : Append(queue[w], c)[i] = queue[w][i]
        BY QueueTypes
      <3>2. \A i \in 1..(Len(queue[w]) + 1) : i = Len(queue[w]) + 1 \/ i \in 1..Len(queue[w])
        BY <3>1
      <3> QED
        BY <3>1, <3>2 DEF Range
    <2>4. \A v \in Worker : \A d \in Range(queue'[v]) : Fresh(d)'
      <3>1. queue'[w] = Append(queue[w], c) /\ \A v \in Worker \ {w} : queue'[v] = queue[v]
        BY <2>1 DEF Types
      <3> QED
        BY <1>2, <2>2, <2>3, <3>1 DEF Truthful, Fresh
    <2>5. \A d \in Caller : caller'[d].pc \in Unsent => Fresh(d)'
      BY <1>2, <2>1 DEF CallerIs, Unsent, Truthful, Fresh
    <2>6. ResultTruthful' /\ \A v \in Worker : InHand(v)'
      BY <1>2 DEF Truthful, ResultTruthful, InHand, Fresh, Outcome
    <2> QED
      BY <2>4, <2>5, <2>6 DEF Truthful
  <1> QED
    BY <1>3, <1>4

\* After the answer is given, or was given before.
LEMMA SettledInHand ==
    ASSUME Types, NEW w \in Worker, thread' = Settled(w)
    PROVE  InHand(w)' /\ \A v \in Worker \ {w} : thread'[v] = thread[v]
  <1>1. CASE thread[w].doing = "operation" /\ thread[w].result \in Fatal
    <2>1. ThreadIs(w, "mark", thread[w].job, thread[w].doing, thread[w].result,
                   thread[w].failed, thread[w].replica)
      BY <1>1, SettledEffect
    <2> QED
      BY <1>1, <2>1 DEF ThreadIs, InHand, Fatal, None
  <1>2. CASE ~(thread[w].doing = "operation" /\ thread[w].result \in Fatal)
    <2>1. ThreadIs(w, "release", thread[w].job, thread[w].doing, thread[w].result,
                   thread[w].failed \/ thread[w].doing = "panic", thread[w].replica)
      BY <1>2, SettledEffect
    <2> QED
      BY <2>1 DEF ThreadIs, InHand
  <1> QED
    BY <1>1, <1>2

\* What the threads do.
LEMMA ThreadTruthful ==
    ASSUME Types, Phases, Places, Truthful, NEW w \in Worker, ThreadStep(w)
    PROVE  Truthful'
  <1>a. ASSUME UNCHANGED <<queue, caller, cell, ran>>, InHand(w)',
               \A v \in Worker \ {w} : thread'[v] = thread[v]
        PROVE  Truthful'
    BY <1>a, TruthfulSame
  <1>h. InHand(w)
    BY DEF Truthful
  <1>1. ASSUME NEW ok \in BOOLEAN, Initialize(w, ok) PROVE Truthful'
    BY <1>1, <1>a, InitializeEffect DEF ThreadIs, InHand
  <1>2. ASSUME Receive(w) PROVE Truthful'
    <2>1. PICK c \in Caller : c = Head(queue[w])
      BY <1>2, ReceiveQueue
    <2>2. /\ UNCHANGED <<caller, cell, ran>> /\ thread'[w].pc = "check" /\ thread'[w].job = c
          /\ \A v \in Worker \ {w} : thread'[v] = thread[v]
      BY <1>2, <2>1, ReceiveEffect DEF ThreadIs
    <2>3. queue'[w] = Tail(queue[w]) /\ \A v \in Worker \ {w} : queue'[v] = queue[v]
      BY <1>2 DEF Receive, Types
    <2>4. \A d : d \in Range(queue[w]) <=> d = c \/ d \in Range(Tail(queue[w]))
      BY <1>2, <2>1, QueueTypes, TailQueue DEF Receive, Places
    <2>5. InHand(w)'
      BY <2>2, <2>4 DEF Truthful, InHand, Fresh
    <2>6. \A v \in Worker : Range(queue'[v]) \subseteq Range(queue[v])
      BY <2>3, <2>4
    <2> QED
      BY <2>2, <2>5, <2>6, TruthfulSame
  <1>3. ASSUME Check(w) PROVE Truthful'
    <2>1. InHand(w)'
      BY <1>3, <1>h, CheckEffect DEF ThreadIs, InHand, Fresh, Outcome, None
    <2>2. UNCHANGED <<queue, caller, cell, ran>> /\ \A v \in Worker \ {w} : thread'[v] = thread[v]
      BY <1>3, CheckEffect DEF ThreadIs
    <2> QED
      BY <1>a, <2>1, <2>2
  <1>4. ASSUME NEW result \in {"ok", "recoverable"} \cup Fatal, Run(w, result) PROVE Truthful'
    <2>1. PICK c \in Caller : c = thread[w].job
      BY <1>4, JobInHand DEF Run
    <2>2. /\ ran'[c] = [result |-> result, at |-> w] /\ \A d \in Caller \ {c} : ran'[d] = ran[d]
          /\ UNCHANGED <<queue, caller, cell>>
      BY <1>4, <2>1, RunEffect DEF Run, Types
    <2>3. cell[c].value = None
      BY <1>4, <1>h, <2>1 DEF Run, InHand, Fresh
    <2>4. Outcome(c)' = result /\ result # None
      BY <2>2 DEF Outcome, Fatal, None
    <2>5. InHand(w)' /\ \A v \in Worker \ {w} : thread'[v] = thread[v]
      BY <1>4, <2>1, <2>4, RunEffect DEF ThreadIs, InHand
    <2> QED
      BY <2>1, <2>2, <2>3, <2>5, TruthfulAt
  <1>5. ASSUME Publish(w) PROVE Truthful'
    <2>1. PICK c \in Caller : c = thread[w].job
      BY <1>5, JobInHand DEF Publish
    <2>2. CASE Completes(c)
      <3>1. /\ UNCHANGED <<queue, caller, ran>> /\ thread'[w].pc = "wake" /\ thread'[w].job = c
            /\ \A v \in Worker \ {w} : thread'[v] = thread[v]
        BY <1>5, <2>1, <2>2, PublishEffect DEF ThreadIs
      <3>2. cell' = [cell EXCEPT ![c].value = thread[w].result]
        BY <1>5, <2>1, <2>2 DEF Publish
      <3>3. cell'[c].value = thread[w].result /\ \A d \in Caller \ {c} : cell'[d].value = cell[d].value
        BY <3>2 DEF Types, Cell
      <3>4. thread[w].result = Outcome(c) /\ thread[w].result # None
        <4>1. thread[w].pc = "publish" /\ cell[c].value = None
          BY <1>5, <2>2 DEF Publish, Completes
        <4>2. thread[w].doing # "init"
          BY <4>1 DEF Phases, ThreadPhase
        <4> QED
          BY <1>h, <2>1, <4>1, <4>2 DEF InHand
      <3>5. InHand(w)' /\ Outcome(c)' = Outcome(c)
        BY <3>1, <3>3, <3>4 DEF InHand, Outcome
      <3> QED
        BY <2>1, <3>1, <3>3, <3>4, <3>5, TruthfulAt
    <2>3. CASE ~Completes(c)
      BY <1>5, <1>a, <2>1, <2>3, SettledInHand DEF Publish, shared
    <2> QED
      BY <2>2, <2>3
  <1>6. ASSUME Wake(w) \/ WakePanics(w) PROVE Truthful'
    <2>1. PICK c \in Caller : c = thread[w].job
      BY <1>6, WakeEffect
    <2>2. \A d \in Caller : ran'[d] = ran[d] /\ cell'[d].value = cell[d].value
      <3>1. cell' = [cell EXCEPT ![c].waker = FALSE] /\ UNCHANGED ran
        BY <1>6, <2>1 DEF Wake, WakePanics
      <3> QED
        BY <3>1, WakerOnly
    <2>3. \A d \in Caller : caller'[d].pc \in Unsent => caller[d].pc \in Unsent
      BY <1>6, <2>1, WakeEffect DEF CallerIs, Sent, Unsent
    <2>4. \A v \in Worker : Range(queue'[v]) \subseteq Range(queue[v])
      <3>1. \A v \in Worker : queue'[v] = queue[v] \/ queue'[v] = <<>>
        BY <1>6 DEF Wake, WakePanics, Types, shared
      <3> QED
        BY <3>1, EmptyQueue
    <2>5. cell[c].value # None /\ thread[w].pc = "wake"
      BY <1>6, <1>h, <2>1 DEF InHand, Wake, WakePanics
    <2>6. InHand(w)' /\ \A v \in Worker \ {w} : thread'[v] = thread[v]
      <3>1. CASE Wake(w)
        BY <3>1, SettledInHand DEF Wake
      <3>2. CASE WakePanics(w) /\ thread[w].doing = "operation"
        BY <2>1, <2>2, <2>5, <3>2, WakePanicsEffect DEF ThreadIs, InHand, None
      <3>3. CASE WakePanics(w) /\ thread[w].doing # "operation"
        BY <3>3, WakePanicsEffect DEF ThreadIs, InHand
      <3> QED
        BY <1>6, <3>1, <3>2, <3>3
    <2> QED
      BY <2>2, <2>3, <2>4, <2>6, TruthfulSame
  <1>7. ASSUME Mark(w) PROVE Truthful'
    <2>1. UNCHANGED <<queue, caller, cell, ran>> /\ \A v \in Worker \ {w} : thread'[v] = thread[v]
      BY <1>7, MarkEffect DEF ThreadIs
    <2>2. InHand(w)'
      BY <1>7, <1>h, <2>1, MarkEffect DEF ThreadIs, InHand, Outcome
    <2> QED
      BY <1>a, <2>1, <2>2
  <1>8. ASSUME Release(w) PROVE Truthful'
    BY <1>8, <1>a, ReleaseEffect DEF ThreadIs, InHand
  <1>9. ASSUME Exit(w) PROVE Truthful'
    BY <1>9, <1>a, ExitEffect DEF ThreadIs, InHand
  <1> QED
    BY <1>1, <1>2, <1>3, <1>4, <1>5, <1>6, <1>7, <1>8, <1>9 DEF ThreadStep

\* Every step preserves Truthful.
LEMMA TruthfulKept ==
    ASSUME Types, Phases, Places, Truthful, [Next]_vars
    PROVE  Truthful'
  <1>1. ASSUME UNCHANGED <<thread, queue, caller, cell, ran>> PROVE Truthful'
    BY <1>1, TruthfulSame
  <1>2. ASSUME NEW joins \in BOOLEAN, Close(joins) PROVE Truthful'
    BY <1>1, <1>2 DEF Close, shared
  <1>3. ASSUME OwnerStep PROVE Truthful'
    BY <1>1, <1>3 DEF OwnerStep, StopWorker, TakeSender, JoinThread, shared
  <1>4. ASSUME UNCHANGED vars PROVE Truthful'
    BY <1>1, <1>4 DEF vars, shared
  <1> QED
    BY <1>2, <1>3, <1>4, CallerTruthful, SendTruthful, ThreadTruthful DEF Next, Submission

-----------------------------------------------------------------------------
(* The theorems                                                            *)

\* A new pool satisfies the invariant.
LEMMA InvariantInit ==
    Init => IInv
  <1> SUFFICES ASSUME Init PROVE IInv
    OBVIOUS
  <1>1. /\ \A w \in Worker : /\ thread[w].pc = "init" /\ thread[w].job = None
                             /\ thread[w].failed = FALSE /\ thread[w].replica = None
                             /\ queue[w] = <<>> /\ outstanding[w] = 0
        /\ \A c \in Caller : /\ caller[c].pc = "idle" /\ cell[c].value = None
                             /\ ran[c].result = None
        /\ pool.pc = "open"
    BY DEF Init
  <1>2. Types
    <2>1. [pc |-> "init", job |-> None, doing |-> None, result |-> None,
           failed |-> FALSE, replica |-> None] \in Thread
      BY DEF Thread, ThreadPc, Doing, Result, Replica
    <2>2. [pc |-> "idle", left |-> <<>>] \in Submitter
      BY DEF Submitter, Unsent
    <2>3. [value |-> None, waker |-> FALSE] \in Cell /\ [result |-> None, at |-> 0] \in Record
      BY DEF Cell, Record, Result
    <2>4. [pc |-> "open", at |-> 0, joins |-> FALSE, error |-> FALSE] \in Owner
      BY DEF Owner
    <2> QED
      BY <2>1, <2>2, <2>3, <2>4 DEF Init, Types
  <1>3. Phases
    BY <1>1 DEF Phases, CallerPhase, ThreadPhase
  <1>4. \A w \in Worker : Held(w) = {}
    BY <1>1, EmptyQueue, PoolAssumption DEF Held
  <1>5. Places
    BY <1>1, <1>4, EmptyQueue DEF Places
  <1>6. Counted
    <2>1. \A w \in Worker : Permits(w) = {}
      BY <1>1, <1>4 DEF Permits, Held
    <2>2. Cardinality({}) = 0
      BY FS_EmptySet
    <2>3. Capacity \in Nat /\ 0 <= Capacity
      BY PoolAssumption
    <2>4. ASSUME NEW w \in Worker
          PROVE  outstanding[w] = Cardinality(Permits(w)) /\ outstanding[w] <= Capacity
      <3>1. outstanding[w] = 0 /\ Permits(w) = {}
        BY <1>1, <2>1
      <3> QED
        BY <3>1, <2>2, <2>3
    <2> QED
      BY <2>4 DEF Counted
  <1>7. Truthful
    BY <1>1, EmptyQueue DEF Truthful, Fresh, InHand, ResultTruthful
  <1>8. Failures
    <2>1. \A w \in Worker : ~Broken(w)
      BY <1>1 DEF Broken, Fatal, None
    <2> QED
      BY <1>1, <2>1 DEF Failures, None
  <1> QED
    BY <1>2, <1>3, <1>5, <1>6, <1>7, <1>8 DEF IInv

\* Every step preserves the invariant.
LEMMA InvariantKept ==
    IInv /\ [Next]_vars => IInv'
  BY TypesKept, PhasesKept, PlacesKept, TruthfulKept, FailuresKept DEF IInv

\* The invariant holds in every state that the workers can reach.
THEOREM Invariant ==
    Spec => []IInv
  BY InvariantInit, InvariantKept, PTL DEF Spec

\* Every counter, job, replica and result keeps its type under every
\* interleaving of callers, threads and owner; no counter goes below zero.
THEOREM TypeCorrect ==
    Spec => []TypeOK
  <1>1. IInv => TypeOK
    <2> SUFFICES ASSUME IInv PROVE TypeOK
      OBVIOUS
    <2>1. outstanding \in [Worker -> Nat]
      <3>1. \A w \in Worker : outstanding[w] \in Nat
        BY PermitsParts, FS_CardinalityType DEF IInv, Counted
      <3> QED
        BY <3>1 DEF IInv, Types
    <2> QED
      BY <2>1 DEF IInv, Types, TypeOK, Thread, Cell, Result, Replica
  <1> QED
    BY <1>1, Invariant, PTL

\* The counter of outstanding jobs is the number of permits held, whatever
\* threads race for the last one, die or give up, and a job that holds one
\* finds room in the queue (SlotPermit, reserve_slot and submit_reserved).
THEOREM PermitsCounted ==
    Spec => []PermitsExact
  <1>1. IInv => PermitsExact
    <2> SUFFICES ASSUME IInv PROVE PermitsExact
      OBVIOUS
    <2>1. ASSUME NEW w \in Worker, NEW c \in Caller,
                 caller[c].pc = "send", Head(caller[c].left) = w
          PROVE  Len(queue[w]) < Capacity
      <3>1. c \in Permits(w) /\ c \notin Range(queue[w])
        BY <2>1 DEF Permits, IInv, Places, Held, Unsent
      <3>2. IsFiniteSet(Range(queue[w])) /\ Cardinality(Range(queue[w])) = Len(queue[w])
            /\ Len(queue[w]) \in Nat
        BY QueueTypes, QueueLength DEF IInv, Places
      <3>3. Range(queue[w]) \cup {c} \subseteq Permits(w)
        <4>1. Range(queue[w]) \subseteq Caller
          BY QueueTypes DEF Range, IInv
        <4> QED
          BY <3>1, <4>1 DEF Permits
      <3>4. Cardinality(Range(queue[w]) \cup {c}) = Len(queue[w]) + 1
        BY <3>1, <3>2, FS_AddElement
      <3>5. Cardinality(Range(queue[w]) \cup {c}) <= Cardinality(Permits(w))
        BY <3>3, PermitsParts, FS_Subset
      <3>6. outstanding[w] = Cardinality(Permits(w)) /\ outstanding[w] <= Capacity
        BY DEF IInv, Counted
      <3> QED
        BY <3>2, <3>4, <3>5, <3>6, QueueTypes, PoolAssumption DEF IInv
    <2> QED
      BY <2>1 DEF IInv, Counted, PermitsExact
  <1> QED
    BY <1>1, Invariant, PTL

\* A published result is the operation's own, or a refusal if it never ran,
\* although a panic after the operation answers the same job again.
THEOREM ResultsTruthful ==
    Spec => []ResultTruthful
  BY Invariant, PTL DEF IInv, Truthful

\* "The worker then refuses every later job": nothing runs on a replica after a
\* fatal failure, however late the failure is recorded and whatever callers
\* submit in between.
THEOREM FailedNeverRuns ==
    Spec => []NoRunAfterFailure
  <1>1. IInv => NoRunAfterFailure
    <2> SUFFICES ASSUME IInv, NEW w \in Worker, thread[w].pc = "run"
                 PROVE  /\ thread[w].replica = "live"
                        /\ \A c \in Caller : ran[c].at = w => ran[c].result \notin Fatal
      BY DEF NoRunAfterFailure
    <2>1. ~thread[w].failed /\ ~Recording(w)
      BY DEF IInv, Failures, Recording
    <2>2. thread[w].replica = "live" /\ ~Broken(w)
      BY <2>1 DEF IInv, Failures
    <2> QED
      BY <2>2 DEF Broken
  <1> QED
    BY <1>1, Invariant, PTL

\* "Failed/quarantined state is deliberately retained (leaked) on thread exit":
\* unless a waker kills the thread by a panic, a replica on which an operation
\* failed fatally is never dropped.
THEOREM FailedRetained ==
    Spec => []FailedStateRetained
  <1>1. IInv => FailedStateRetained
    <2> SUFFICES ASSUME IInv, NEW w \in Worker, Broken(w), thread[w].pc # "crashed"
                 PROVE  thread[w].replica # "dropped"
      BY DEF FailedStateRetained, Broken
    <2>1. CASE thread[w].pc = "exited"
      BY <2>1 DEF IInv, Failures, Recording
    <2>2. CASE thread[w].pc # "exited"
      BY <2>2 DEF IInv, Failures
    <2> QED
      BY <2>1, <2>2
  <1> QED
    BY <1>1, Invariant, PTL

=============================================================================
