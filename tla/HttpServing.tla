----------------------------- MODULE HttpServing -----------------------------
(***************************************************************************)
(* The axum server and its model worker (serving.rs, serving/batch.rs,     *)
(* serving/progress.rs).  A handler task per request and one worker thread *)
(* share a bounded channel of jobs, a one-shot "ready" answer per job and  *)
(* a bounded channel of events per job.  A client that leaves drops its    *)
(* handler, and with it both receivers.  The worker sends with             *)
(* blocking_send: while a channel is full the whole worker waits.          *)
(* mode "batch" is run_batch_loop over a batch executor, mode "native" is  *)
(* run_native_with_prefill, one request at a time.  Tokens:                *)
(*   "text"  sent at once (by a stream)      "held"  not sent yet          *)
(*   "stop"  completes a stop string         "eos"   end of sequence       *)
(*   "bad"   refused by the constraint or the response parser              *)
(***************************************************************************)
EXTENDS Integers, Sequences, FiniteSets, SequencesExt

CONSTANTS Clients,
          Modes,         \* subset of {"batch", "native"}
          QueueCap,      \* capacity of the jobs channel
          EventCap,      \* capacity of an events channel (64 in the code)
          MaxSequences,  \* requests the executor runs at once
          MaxQueued,     \* max_queued_requests
          Streamed,      \* the clients that ask for a stream
          Tokens,        \* the kinds of token that occur
          MaxNew,        \* BOUND: tokens of a request
          MaxFaults      \* BOUND: failing steps, stalls and cancels

\* "batch queue capacity must be positive"
ASSUME HttpAssumption ==
  /\ IsFiniteSet(Clients) /\ MaxQueued \in Nat \ {0}
  /\ MaxSequences \in Nat /\ MaxNew \in Nat /\ MaxFaults \in Nat

VARIABLES mode,
          handler,   \* Clients -> [pc, stream, got]
          ready,     \* Clients -> the one-shot answer
          chan,      \* Clients -> events sent and not yet read
          queue,     \* the jobs channel
          open,      \* the router still exists
          worker,    \* where the worker's loop is
          active,    \* jobs the worker owns
          exec,      \* the executor: request -> [st, left]
          finished, failed,  \* its queues of finished and failed requests
          report,    \* tokens of the last step not yet handled
          stepped,   \* the last step ran a batch
          outbox,    \* events the worker is about to send, in order
          faults,
          silent     \* the worker ended in a failed cancel
hvars == <<handler, ready, chan, queue, open>>
evars == <<exec, finished, failed, report, stepped>>
vars == <<mode, hvars, worker, active, evars, outbox, faults, silent>>

Without(f, S) == [c \in DOMAIN f \ S |-> f[c]]
With(f, c, v) == [x \in DOMAIN f \cup {c} |-> IF x = c THEN v ELSE f[x]]

\* events.is_closed() is the negation.
Listening(c) == handler[c].pc \in {"sending", "ready", "reading"}

Owned(c) == c \in active \/ \E i \in DOMAIN outbox : outbox[i][1] = c

----------------------------------------------------------------------------
(* The handlers (submit_wire)                                              *)

End(c, answer) == handler' = [handler EXCEPT ![c].pc = "closed", ![c].got = @ \o answer]

\* validate refuses the request, or it becomes a job.
Validate(c) ==
  /\ handler[c].pc = "new"
  /\ \/ End(c, <<400>>)
     \/ handler' = [handler EXCEPT ![c].pc = "sending", ![c].stream = c \in Streamed]
  /\ UNCHANGED <<mode, ready, chan, queue, open, worker, active, evars, outbox, faults, silent>>

\* jobs.send waits for room; without a worker the answer is 503.
SendJob(c) ==
  /\ handler[c].pc = "sending"
  /\ \/ worker = "ended" /\ End(c, <<503>>) /\ UNCHANGED queue
     \/ /\ worker # "ended" /\ Len(queue) < QueueCap
        /\ queue' = Append(queue, c) /\ handler' = [handler EXCEPT ![c].pc = "ready"]
  /\ UNCHANGED <<mode, ready, chan, open, worker, active, evars, outbox, faults, silent>>

Prepared(c) ==
  /\ handler[c].pc = "ready" /\ ready[c] # "none"
  /\ IF ready[c] = "ok" THEN handler' = [handler EXCEPT ![c].pc = "reading"]
     ELSE End(c, <<IF ready[c] = "dropped" THEN 500 ELSE 400>>)
  /\ UNCHANGED <<mode, ready, chan, queue, open, worker, active, evars, outbox, faults, silent>>

\* A stream passes the events on, then the end marker; otherwise the first
\* event is the answer.
Read(c) ==
  /\ handler[c].pc = "reading"
  /\ \/ /\ chan[c] # <<>> /\ chan' = [chan EXCEPT ![c] = Tail(@)]
        /\ IF handler[c].stream
           THEN handler' = [handler EXCEPT ![c].got = Append(@, Head(chan[c]))]
           ELSE End(c, <<IF Head(chan[c]) = "error" THEN 500 ELSE 200>>)
     \/ /\ chan[c] = <<>> /\ ~ Owned(c) /\ UNCHANGED chan
        /\ End(c, IF handler[c].stream THEN <<"[DONE]">> ELSE <<500>>)
  /\ UNCHANGED <<mode, ready, queue, open, worker, active, evars, outbox, faults, silent>>

Leave(c) ==
  /\ Listening(c) /\ handler' = [handler EXCEPT ![c].pc = "gone"]
  /\ UNCHANGED <<mode, ready, chan, queue, open, worker, active, evars, outbox, faults, silent>>

\* The router is dropped once no handler needs it any more.
Shutdown ==
  /\ open /\ \A c \in Clients : handler[c].pc \notin {"new", "sending"}
  /\ open' = FALSE
  /\ UNCHANGED <<mode, handler, ready, chan, queue, worker, active, evars, outbox, faults, silent>>

----------------------------------------------------------------------------
(* The worker: sending, admitting                                          *)

\* blocking_send to a client that listens.
Delivered(c, e) == Len(chan[c]) < EventCap /\ chan' = [chan EXCEPT ![c] = Append(@, e)]

\* blocking_send; when the client is gone the send fails, and a request that
\* still runs is cancelled and forgotten.
Flush ==
  /\ outbox # <<>>
  /\ LET c == Head(outbox)[1]
     IN IF Listening(c) THEN Delivered(c, Head(outbox)[2]) /\ UNCHANGED <<active, exec>>
        ELSE /\ IF worker = "failing" THEN UNCHANGED <<active, exec>>
                ELSE active' = active \ {c} /\ exec' = Without(exec, {c})
             /\ UNCHANGED chan
  /\ outbox' = Tail(outbox)
  /\ UNCHANGED <<mode, handler, ready, queue, open, worker, finished, failed, report,
                 stepped, faults, silent>>

\* The worker returns: what it owns and what is queued is dropped.
Ends(quiet) ==
  /\ worker' = "ended" /\ active' = {} /\ queue' = <<>> /\ outbox' = <<>>
  /\ ready' = [c \in Clients |-> IF Contains(queue, c) THEN "dropped" ELSE ready[c]]
  /\ silent' = quiet

Start ==
  /\ worker = "starting"
  /\ \/ worker' = "idle" /\ UNCHANGED <<active, queue, outbox, ready, silent>>
     \/ Ends(FALSE)
  /\ UNCHANGED <<mode, handler, chan, open, evars, faults>>

Pending == {c \in DOMAIN exec : exec[c].st # "running"}

\* The admission loop's conditions.
Room == Cardinality(active) < MaxSequences + MaxQueued /\ Cardinality(Pending) < MaxQueued

\* What a stream may begin with (ResponseProgress::new).
Begin(c) == IF handler[c].stream THEN {<<>>, <<<<c, "delta">>>>} ELSE {<<>>}

\* admit: nobody listens, the submission is refused, or the request is in
\* the executor (finished at once when it may generate nothing).
Admit(c) ==
  \/ /\ ~ Listening(c) /\ UNCHANGED <<ready, active, exec, finished, outbox>>
  \/ /\ Listening(c) /\ ready' = [ready EXCEPT ![c] = "bad"]
     /\ UNCHANGED <<active, exec, finished, outbox>>
  \/ /\ Listening(c) /\ Cardinality(Pending) >= MaxQueued
     /\ ready' = [ready EXCEPT ![c] = "refused"]
     /\ UNCHANGED <<active, exec, finished, outbox>>
  \/ /\ Listening(c) /\ Cardinality(Pending) < MaxQueued
     /\ ready' = [ready EXCEPT ![c] = "ok"] /\ active' = active \cup {c}
     /\ outbox' \in Begin(c)
     /\ \/ finished' = Append(finished, c) /\ UNCHANGED exec
        \/ /\ \E n \in 1..MaxNew, st \in {"pending", "remote"} :
                exec' = With(exec, c, [st |-> st, left |-> n])
           /\ UNCHANGED finished

Receive ==
  /\ mode = "batch" /\ outbox = <<>> /\ queue # <<>>
  /\ worker \in {"idle", "drain"} /\ (worker = "drain" => Room)
  /\ Admit(Head(queue)) /\ queue' = Tail(queue) /\ worker' = "drain"
  /\ UNCHANGED <<mode, handler, chan, open, failed, report, stepped, faults, silent>>

\* The channel of jobs is closed and nothing is left to do.
Closed ==
  /\ worker = "idle" /\ queue = <<>> /\ ~ open /\ outbox = <<>> /\ Ends(FALSE)
  /\ UNCHANGED <<mode, handler, chan, open, evars, faults>>

\* Mutant: the requests of clients that left stay in the executor.
Cancelled_Kept(gone) == exec

Cancelled(gone) == Without(exec, gone)

\* Requests whose client left are cancelled before the step.
DropDisconnected ==
  /\ worker = "drain" /\ outbox = <<>> /\ (queue = <<>> \/ ~ Room)
  /\ LET gone == {c \in active : ~ Listening(c)}
     IN active' = active \ gone /\ exec' = Cancelled(gone)
  /\ worker' = "step"
  /\ UNCHANGED <<mode, hvars, finished, failed, report, stepped, outbox, faults, silent>>

\* A cancel fails in the executor's unfinished restore: the worker returns
\* at once.
CancelFails ==
  /\ faults < MaxFaults /\ faults' = faults + 1 /\ outbox = <<>> /\ mode = "batch"
  /\ \/ worker = "drain" /\ (queue = <<>> \/ ~ Room) /\ \E c \in active : ~ Listening(c)
     \/ worker = "report" /\ report # <<>> /\ Head(report)[1] \in active
        /\ Head(report)[2] \in {"stop", "bad"}
  /\ Ends(TRUE) /\ UNCHANGED <<mode, handler, chan, open, evars>>

----------------------------------------------------------------------------
(* The worker: stepping                                                    *)

Running == {c \in DOMAIN exec : exec[c].st = "running"}

Remote == {c \in DOMAIN exec : exec[c].st \in {"remote", "refused"}}
Refused == {c \in DOMAIN exec : exec[c].st = "refused"}

\* The step first takes the remote prefills that failed.
Poll ==
  /\ worker = "step" /\ Refused # {}
  /\ failed' = failed \o SetToSeq(Refused) /\ exec' = Without(exec, Refused)
  /\ UNCHANGED <<mode, hvars, worker, active, finished, report, stepped, outbox, faults, silent>>

\* One batch: every row gets a token; the last token or an end token ends it.
Step(B) ==
  /\ worker = "step" /\ Refused = {} /\ B # {} /\ B \subseteq DOMAIN exec \ Remote
  /\ Cardinality(Running \cup B) <= MaxSequences
  /\ \E t \in [B -> Tokens] :
       LET over == {c \in B : exec[c].left = 1 \/ t[c] = "eos"}
           rows == SetToSeq(B)
       IN /\ exec' = [c \in DOMAIN exec \ over |->
                       IF c \in B THEN [st |-> "running", left |-> exec[c].left - 1] ELSE exec[c]]
          /\ finished' = finished \o SetToSeq(over)
          /\ report' = [i \in 1..Len(rows) |-> <<rows[i], t[rows[i]]>>]
  /\ stepped' = TRUE /\ worker' = "report"
  /\ UNCHANGED <<mode, hvars, active, failed, outbox, faults, silent>>

\* Nothing could be scheduled: everything waits for a remote prefill, nothing
\* is left, or (a fault) the pages do not suffice.
StepNone ==
  /\ worker = "step" /\ Refused = {}
  /\ \/ DOMAIN exec = Remote /\ UNCHANGED faults
     \/ faults < MaxFaults /\ faults' = faults + 1
  /\ stepped' = FALSE /\ worker' = "report"
  /\ UNCHANGED <<mode, hvars, active, exec, finished, failed, report, outbox, silent>>

\* Every active job is told, then the worker returns.
TellAll == outbox' = [i \in 1..Cardinality(active) |-> <<SetToSeq(active)[i], "error">>]

StepFails ==
  /\ worker = "step" /\ faults < MaxFaults /\ faults' = faults + 1
  /\ TellAll /\ worker' = "failing"
  /\ UNCHANGED <<mode, hvars, active, evars, silent>>

Fail ==
  /\ worker = "failing" /\ outbox = <<>> /\ Ends(FALSE)
  /\ UNCHANGED <<mode, handler, chan, open, evars, faults>>

\* ResponseProgress::finish and finish_response: the rest of the text and the
\* last event, an error, or nothing for a client that left.
FinishEvents(c) ==
  IF ~ Listening(c) THEN {<<>>}
  ELSE {<<<<c, "error">>>>, <<<<c, "finish">>>>}
       \cup (IF handler[c].stream THEN {<<<<c, "delta">>, <<c, "finish">>>>} ELSE {})

\* push for the next token of the report.
OnToken ==
  /\ worker = "report" /\ report # <<>> /\ outbox = <<>>
  /\ LET c == Head(report)[1]  t == Head(report)[2]
     IN \/ /\ c \notin active \/ t \in {"held", "eos"} \/ (t = "text" /\ ~ handler[c].stream)
           /\ UNCHANGED <<active, exec, outbox>>
        \/ /\ c \in active /\ t = "text" /\ handler[c].stream
           /\ outbox' = <<<<c, "delta">>>> /\ UNCHANGED <<active, exec>>
        \/ /\ c \in active /\ t \in {"stop", "bad"}
           /\ active' = active \ {c} /\ exec' = Without(exec, {c})
           /\ outbox' \in IF t = "bad" THEN {<<<<c, "error">>>>} ELSE FinishEvents(c)
  /\ report' = Tail(report)
  /\ UNCHANGED <<mode, hvars, worker, finished, failed, stepped, faults, silent>>

PopFinished ==
  /\ worker = "report" /\ report = <<>> /\ outbox = <<>> /\ finished # <<>>
  /\ LET c == Head(finished)
     IN IF c \in active THEN active' = active \ {c} /\ outbox' \in FinishEvents(c)
        ELSE UNCHANGED <<active, outbox>>
  /\ finished' = Tail(finished)
  /\ UNCHANGED <<mode, hvars, worker, exec, failed, report, stepped, faults, silent>>

PopFailed ==
  /\ worker = "report" /\ report = <<>> /\ outbox = <<>> /\ finished = <<>> /\ failed # <<>>
  /\ LET c == Head(failed)
     IN IF c \in active THEN active' = active \ {c} /\ outbox' = <<<<c, "error">>>>
        ELSE UNCHANGED <<active, outbox>>
  /\ failed' = Tail(failed)
  /\ UNCHANGED <<mode, hvars, worker, exec, finished, report, stepped, faults, silent>>

\* waiting_for_prefill
Waits == Remote # {}

\* Mutant: the worker waits for a new job although requests are running.
Resume_Blocks == "idle"

\* Without active jobs the worker blocks until one arrives.
Resume == IF active = {} THEN "idle" ELSE "drain"

\* The end of the loop: go on, wait for the remote prefill, or give up.
LoopEnds ==
  /\ worker = "report" /\ report = <<>> /\ outbox = <<>> /\ finished = <<>> /\ failed = <<>>
  /\ IF ~ stepped /\ exec # <<>> /\ ~ Waits
     THEN TellAll /\ worker' = "failing"
     ELSE worker' = Resume /\ UNCHANGED outbox
  /\ UNCHANGED <<mode, hvars, active, evars, faults, silent>>

\* The remote prefill answers or fails.
RemoteAnswers(c) ==
  /\ c \in DOMAIN exec /\ exec[c].st = "remote"
  /\ \E st \in {"pending", "refused"} : exec' = [exec EXCEPT ![c].st = st]
  /\ UNCHANGED <<mode, hvars, worker, active, finished, failed, report, stepped, outbox, faults, silent>>

----------------------------------------------------------------------------
(* run_native_with_prefill: one job at a time                              *)

NativeReceive ==
  /\ mode = "native" /\ worker = "idle" /\ outbox = <<>> /\ queue # <<>>
  /\ LET c == Head(queue)
     IN \/ ~ Listening(c) /\ UNCHANGED <<ready, active, exec, outbox, worker>>
        \/ /\ Listening(c) /\ ready' = [ready EXCEPT ![c] = "bad"]
           /\ UNCHANGED <<active, exec, outbox, worker>>
        \/ /\ Listening(c) /\ ready' = [ready EXCEPT ![c] = "ok"] /\ active' = {c}
           /\ outbox' \in Begin(c) /\ worker' = "native"
           /\ \E n \in 0..MaxNew : exec' = With(<<>>, c, [st |-> "running", left |-> n])
  /\ queue' = Tail(queue)
  /\ UNCHANGED <<mode, handler, chan, open, finished, failed, report, stepped, faults, silent>>

NativeDone(c, items) ==
  /\ active' = {} /\ exec' = <<>> /\ outbox' = items /\ worker' = "idle"

\* generate_response: a token, or the end of the response.
NativeStep ==
  /\ worker = "native" /\ outbox = <<>>
  /\ IF active = {} THEN NativeDone(0, <<>>)
     ELSE LET c == CHOOSE x \in active : TRUE
          IN \/ ~ Listening(c) /\ NativeDone(c, <<>>)
             \/ Listening(c) /\ exec[c].left = 0 /\ \E f \in FinishEvents(c) : NativeDone(c, f)
             \/ /\ Listening(c) /\ exec[c].left > 0
                /\ \E t \in Tokens :
                     \/ t = "bad" /\ NativeDone(c, <<<<c, "error">>>>)
                     \/ t \in {"stop", "eos"} /\ \E f \in FinishEvents(c) : NativeDone(c, f)
                     \/ /\ t \in {"text", "held"} /\ exec' = [exec EXCEPT ![c].left = @ - 1]
                        /\ outbox' = IF t = "text" /\ handler[c].stream THEN <<<<c, "delta">>>> ELSE <<>>
                        /\ UNCHANGED <<active, worker>>
  /\ UNCHANGED <<mode, hvars, finished, failed, report, stepped, faults, silent>>

----------------------------------------------------------------------------
Init ==
  /\ mode \in Modes
  /\ handler = [c \in Clients |-> [pc |-> "new", stream |-> FALSE, got |-> <<>>]]
  /\ ready = [c \in Clients |-> "none"] /\ chan = [c \in Clients |-> <<>>]
  /\ queue = <<>> /\ open = TRUE /\ worker = "starting" /\ active = {}
  /\ exec = <<>> /\ finished = <<>> /\ failed = <<>> /\ report = <<>> /\ stepped = FALSE
  /\ outbox = <<>> /\ faults = 0 /\ silent = FALSE

Worker ==
  \/ Start \/ Flush \/ Receive \/ DropDisconnected \/ Closed \/ Fail
  \/ (\E B \in SUBSET Clients : Step(B)) \/ Poll \/ OnToken \/ PopFinished \/ PopFailed \/ LoopEnds
  \/ NativeReceive \/ NativeStep

Next ==
  \/ \E c \in Clients : Validate(c) \/ SendJob(c) \/ Prepared(c) \/ Read(c) \/ Leave(c)
                        \/ RemoteAnswers(c)
  \/ Shutdown \/ Worker \/ CancelFails \/ StepNone \/ StepFails

\* The worker runs, clients read what they are sent and the remote prefill
\* answers.  Everything but the worker's wait for a remote prefill uses up
\* something finite, so it is enough that someone outside the worker gets a turn.
Fairness ==
  /\ WF_vars(Worker \/ (StepNone /\ UNCHANGED faults))
  /\ WF_vars(\E c \in Clients : Validate(c) \/ SendJob(c) \/ Prepared(c) \/ Read(c)
                                \/ RemoteAnswers(c))

Spec == Init /\ [][Next]_vars /\ Fairness

----------------------------------------------------------------------------
\* Whenever the loop comes around, the executor holds exactly the requests of
\* the active jobs: a client that left, was stopped or failed leaves nothing
\* running, and no active job waits for a request the executor has dropped.
ActiveServed ==
  /\ worker \in {"idle", "step"} /\ outbox = <<>> =>
       DOMAIN exec \cup Range(failed) \subseteq active
  /\ worker \in {"idle", "step"} =>
       active \subseteq DOMAIN exec \cup Range(finished) \cup Range(failed)

\* The admission loop never takes a job out of the channel that the executor
\* then refuses because its own queue is full.
NeverRefused == \A c \in Clients : ready[c] # "refused"

\* One status, or a stream whose last event before the end marker is the finish
\* reason or an error.
IsAnswer(g) ==
  \/ Len(g) = 1 /\ g[1] \in {200, 400, 500, 503}
  \/ /\ Len(g) >= 2 /\ Last(g) = "[DONE]" /\ g[Len(g) - 1] \in {"finish", "error"}
     /\ \A i \in 1..(Len(g) - 2) : g[i] = "delta"

\* A handler that ends with its client still there has given a whole answer;
\* only a worker that ended in a failed cancel leaves streams without one.
AnswerComplete ==
  \A c \in Clients : handler[c].pc = "closed" /\ ~ silent => IsAnswer(handler[c].got)

\* Worker, executor and handlers agree about every request: what the executor
\* holds at the start of a round, what the admission loop takes, and what a
\* handler has told its client at the end.
EngineMatchesActive == ActiveServed /\ NeverRefused /\ AnswerComplete

\* Every request is answered or abandoned by its client, whatever steps fail,
\* stall or wait, as long as clients read their events.
EveryHandlerEnds == \A c \in Clients : <>(handler[c].pc \in {"closed", "gone"})

=============================================================================
