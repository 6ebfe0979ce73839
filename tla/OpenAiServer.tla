---------------------------- MODULE OpenAiServer ----------------------------
(***************************************************************************)
(* The OpenAI-compatible server (openai_server.rs): one engine thread that *)
(* owns the runner, one thread per connection, and unbounded channels      *)
(* between them.  A client may disappear at any moment; the engine learns  *)
(* of it only from a failed send.  The texts themselves are the subject of *)
(* StopStream; here a token is                                             *)
(*   "text"  text that is sent at once                                     *)
(*   "held"  text that is held back (split character, begin of a stop)     *)
(*   "stop"  text that completes a stop string                             *)
(*   "eos"   an end-of-sequence token                                      *)
(* The runner is the continuous batch runner of BatchScheduler: a set of   *)
(* live requests with the tokens they may still generate.                  *)
(***************************************************************************)
EXTENDS Integers, Sequences, FiniteSets, SequencesExt

CONSTANTS Connections,  \* connections, in the order they are accepted
          Requests,     \* HTTP requests a client may send
          MaxNew,       \* BOUND: tokens a request may generate
          Reports,      \* tokens one step may select for one request
          MaxFailures   \* BOUND: steps that fail or stall

VARIABLES conn,      \* Connections -> the connection's thread
          client,    \* Connections -> BOOLEAN: the client is still there
          events,    \* Connections -> the job's event channel
          incoming,  \* the channel of jobs
          engine,    \* "starting", "failed", "idle", "drain", "step", "report", "pop"
          jobs,      \* Engine::jobs: connection -> JobState
          runner,    \* live requests: connection -> tokens still allowed
          finished,  \* the runner's finished requests
          report,    \* the tokens of the last step not yet handled
          failures
vars == <<conn, client, events, incoming, engine, jobs, runner, finished, report, failures>>

Without(f, S) == [c \in DOMAIN f \ S |-> f[c]]
With(f, c, v) == [x \in DOMAIN f \cup {c} |-> IF x = c THEN v ELSE f[x]]

\* The receiver of a job's events lives as long as the connection's thread
\* reads it, the sender as long as the job is queued or known to the engine.
Receiving(c) == conn[c].pc \in {"waiting", "streaming"}
Sending(c) == Contains(incoming, c) \/ c \in DOMAIN jobs

Sent(ev, c, e) == IF Receiving(c) THEN [ev EXCEPT ![c] = Append(@, e)] ELSE ev

----------------------------------------------------------------------------
(* The connection threads                                                  *)

\* The client is there while it reads; a write after it left fails and ends
\* the thread.
Close(c, items) ==
  conn' = [conn EXCEPT ![c] = [@ EXCEPT !.pc = "closed",
             !.written = IF client[c] THEN @ \o items ELSE @]]

\* parse_job: what the body must satisfy; a temperature of zero skips the
\* checks of the sampling fields.
ParseJob(body) ==
  /\ body.prompt /\ body.n = 1
  /\ body.temperature = 0 \/ body.sampling
  /\ body.stops <= 4

\* handle_connection up to the job: the status of a request that is answered
\* without the engine, 0 for a job.
Route(r) ==
  CASE r.read # 200 -> r.read
    [] r.read = 200 /\ ~ r.authorized -> 401
    [] r.read = 200 /\ r.authorized /\ r.path = "other" -> 404
    [] r.read = 200 /\ r.authorized /\ r.path = "info" -> IF r.method = "GET" THEN 200 ELSE 405
    [] r.read = 200 /\ r.authorized /\ r.path = "generate" /\ r.method # "POST" -> 405
    [] OTHER -> IF r.json /\ ParseJob(r.body) THEN 0 ELSE 400

\* handle_connection: a job is queued, or the answer written.
HandleConnection(c, r) ==
  /\ conn[c].pc = "accepted"
  /\ \/ /\ Route(r) # 0 /\ Close(c, <<Route(r)>>)
        /\ UNCHANGED incoming
     \/ /\ Route(r) = 0 /\ engine = "failed" /\ Close(c, <<503>>)
        /\ UNCHANGED incoming
     \/ /\ Route(r) = 0 /\ engine # "failed"
        /\ incoming' = Append(incoming, c)
        /\ conn' = [conn EXCEPT ![c].pc = "waiting", ![c].stream = r.body.stream]
  /\ UNCHANGED <<client, events, engine, jobs, runner, finished, report, failures>>

\* recv: the next event, "closed" when the sender is gone and nothing is left.
Next1(c, e) ==
  IF events[c] # <<>> THEN e = Head(events[c]) ELSE e = "closed" /\ ~ Sending(c)

\* What ends a stream: the finish chunk or the error, then the end marker.
Ending(e) ==
  CASE e = "done" -> <<"finish", "[DONE]">>
    [] e = "error" -> <<"error", "[DONE]">>
    [] OTHER -> <<"[DONE]">>

\* collect_events: the whole answer is written once the last event is there.
Collect(c) ==
  /\ conn[c].pc = "waiting" /\ ~ conn[c].stream
  /\ \E e \in {"delta", "done", "error", "closed"} :
       /\ Next1(c, e)
       /\ IF e = "delta" THEN UNCHANGED conn
          ELSE Close(c, <<CASE e = "done" -> 200 [] e = "error" -> 400 [] OTHER -> 500>>)
  /\ events' = [events EXCEPT ![c] = IF @ = <<>> THEN @ ELSE Tail(@)]
  /\ UNCHANGED <<client, incoming, engine, jobs, runner, finished, report, failures>>

\* stream_events: the first event decides whether a stream begins at all.
Stream(c) ==
  /\ conn[c].pc \in {"waiting", "streaming"} /\ conn[c].stream
  /\ \E e \in {"delta", "done", "error", "closed"} :
       /\ Next1(c, e)
       /\ LET first == conn[c].pc = "waiting"
              head  == IF first THEN <<"head">> ELSE <<>>
          IN CASE first /\ e = "error" -> Close(c, <<400>>)
               [] first /\ e = "closed" -> Close(c, <<500>>)
               [] e = "delta" /\ client[c] ->
                    conn' = [conn EXCEPT ![c].pc = "streaming",
                                         ![c].written = @ \o head \o <<"chunk">>]
               [] e = "delta" /\ ~ client[c] -> Close(c, <<>>)
               [] OTHER -> Close(c, head \o Ending(e))
  /\ events' = [events EXCEPT ![c] = IF @ = <<>> THEN @ ELSE Tail(@)]
  /\ UNCHANGED <<client, incoming, engine, jobs, runner, finished, report, failures>>

\* The client goes away.
Leave(c) ==
  /\ client[c] /\ conn[c].pc # "closed"
  /\ client' = [client EXCEPT ![c] = FALSE]
  /\ UNCHANGED <<conn, events, incoming, engine, jobs, runner, finished, report, failures>>

----------------------------------------------------------------------------
(* The engine thread                                                       *)

\* serve_openai: the accept loop already runs when the runner is built; if
\* that fails the receiver of the jobs is dropped, and the queued jobs with it.
Start ==
  /\ engine = "starting"
  /\ \/ engine' = "idle" /\ UNCHANGED incoming
     \/ engine' = "failed" /\ incoming' = <<>>
  /\ UNCHANGED <<conn, client, events, jobs, runner, finished, report, failures>>

\* admit: refused with an error event, or submitted.
Admitted(c) ==
  \/ events' = Sent(events, c, "error") /\ UNCHANGED <<jobs, runner>>
  \/ /\ \E n \in 1..MaxNew : runner' = With(runner, c, n)
     /\ jobs' = With(jobs, c, [held |-> FALSE, disconnected |-> FALSE])
     /\ UNCHANGED events

\* The loop of run before the step: the blocking receive when there are no
\* jobs, then every job that is there.
Receive ==
  /\ engine \in {"idle", "drain"} /\ incoming # <<>>
  /\ Admitted(Head(incoming)) /\ incoming' = Tail(incoming)
  /\ engine' = "drain"
  /\ UNCHANGED <<conn, client, finished, report, failures>>

\* Mutant: the requests of clients that left stay in the runner.
Cancelled_Kept(gone) == runner

Cancelled(gone) == Without(runner, gone)

\* drop_disconnected, when no job is left to receive.
DropDisconnected ==
  /\ engine = "drain" /\ incoming = <<>>
  /\ LET gone == {c \in DOMAIN jobs : jobs[c].disconnected}
     IN runner' = Cancelled(gone) /\ jobs' = Without(jobs, gone)
  /\ engine' = "step"
  /\ UNCHANGED <<conn, client, events, incoming, finished, report, failures>>

\* runner.step: some requests get tokens; a request that reaches its last
\* token or an end-of-sequence token is finished.
Step(B) ==
  /\ engine = "step" /\ B # {} /\ B \subseteq DOMAIN runner
  /\ \E chosen \in [B -> Reports] :
       /\ \A c \in B : Len(chosen[c]) <= runner[c]
       /\ LET over == {c \in B : Len(chosen[c]) = runner[c] \/ Last(chosen[c]) = "eos"}
              rows == SetToSeq(B)
          IN /\ finished' = finished \o SelectSeq(rows, LAMBDA c : c \in over)
             /\ runner' = [c \in DOMAIN runner \ over |->
                            IF c \in B THEN runner[c] - Len(chosen[c]) ELSE runner[c]]
             /\ report' = FlattenSeq([i \in 1..Len(rows) |->
                            [j \in 1..Len(chosen[rows[i]]) |-> <<rows[i], chosen[rows[i]][j]>>]])
  /\ engine' = "report"
  /\ UNCHANGED <<conn, client, events, incoming, jobs, failures>>

\* The error event of every job of S whose client still listens.
Told(ev, S) == [c \in Connections |-> IF c \in S /\ Receiving(c) THEN Append(ev[c], "error") ELSE ev[c]]

\* fail_all, after a step that failed (and was rolled back) or found nothing
\* to run although there are jobs; without jobs nothing is left to run.
StepFails ==
  /\ engine = "step"
  /\ IF jobs = <<>> THEN UNCHANGED <<events, runner, failures>>
     ELSE /\ failures < MaxFailures /\ failures' = failures + 1
          /\ events' = Told(events, DOMAIN jobs)
          /\ runner' = Without(runner, DOMAIN jobs)
  /\ jobs' = <<>> /\ engine' = "pop"
  /\ UNCHANGED <<conn, client, incoming, finished, report>>

\* Engine::finish: the text held back, then the last event.
Finished(ev, c) ==
  Sent(IF jobs[c].held THEN Sent(ev, c, "delta") ELSE ev, c, "done")

\* on_token for the next token of the report.
OnToken ==
  /\ engine = "report" /\ report # <<>>
  /\ LET c == Head(report)[1]  t == Head(report)[2]
     IN \/ /\ c \notin DOMAIN jobs \/ t = "eos"
           /\ UNCHANGED <<events, jobs, runner>>
        \/ /\ c \in DOMAIN jobs /\ t = "held"
           /\ jobs' = [jobs EXCEPT ![c].held = TRUE]
           /\ UNCHANGED <<events, runner>>
        \/ /\ c \in DOMAIN jobs /\ t = "text"
           /\ events' = Sent(events, c, "delta")
           /\ jobs' = [jobs EXCEPT ![c].held = FALSE, ![c].disconnected = @ \/ ~ Receiving(c)]
           /\ UNCHANGED runner
        \/ /\ c \in DOMAIN jobs /\ t = "stop"
           /\ events' = Finished(events, c)
           /\ jobs' = Without(jobs, {c}) /\ runner' = Cancelled({c})
  /\ report' = Tail(report)
  /\ UNCHANGED <<conn, client, incoming, engine, finished, failures>>

ReportDone ==
  /\ engine = "report" /\ report = <<>> /\ engine' = "pop"
  /\ UNCHANGED <<conn, client, events, incoming, jobs, runner, finished, report, failures>>

\* pop_finished and finish; a job that was stopped, dropped or failed before
\* is not known any more.
PopFinished ==
  /\ engine = "pop" /\ finished # <<>>
  /\ LET c == Head(finished)
     IN IF c \in DOMAIN jobs
        THEN events' = Finished(events, c) /\ jobs' = Without(jobs, {c})
        ELSE UNCHANGED <<events, jobs>>
  /\ finished' = Tail(finished)
  /\ UNCHANGED <<conn, client, incoming, engine, runner, report, failures>>

\* Mutant: the loop waits for a new job although requests are running.
Resume_Blocks == "idle"

\* Without jobs the engine blocks until one arrives.
Resume == IF jobs = <<>> THEN "idle" ELSE "drain"

LoopEnds ==
  /\ engine = "pop" /\ finished = <<>>
  /\ engine' = Resume
  /\ UNCHANGED <<conn, client, events, incoming, jobs, runner, finished, report, failures>>

----------------------------------------------------------------------------
Init ==
  /\ conn = [c \in Connections |-> [pc |-> "accepted", stream |-> FALSE, written |-> <<>>]]
  /\ client = [c \in Connections |-> TRUE]
  /\ events = [c \in Connections |-> <<>>]
  /\ incoming = <<>> /\ engine = "starting" /\ jobs = <<>> /\ runner = <<>>
  /\ finished = <<>> /\ report = <<>> /\ failures = 0

Engine ==
  \/ Start \/ Receive \/ DropDisconnected \/ (\E B \in SUBSET Connections : Step(B))
  \/ OnToken \/ ReportDone \/ PopFinished \/ LoopEnds

Next ==
  \/ \E c \in Connections : Collect(c) \/ Stream(c) \/ Leave(c)
  \/ \E c \in Connections, r \in Requests : HandleConnection(c, r)
  \/ Engine \/ StepFails

\* The threads run; a read of the request ends by its timeout at the latest;
\* a live request is in a batch again and again (run batch_live).
Fairness ==
  /\ WF_vars(Engine)
  /\ WF_vars(engine = "step" /\ jobs = <<>> /\ StepFails)
  /\ \A c \in Connections :
       /\ WF_vars(Collect(c)) /\ WF_vars(Stream(c))
       /\ WF_vars(\E r \in Requests : HandleConnection(c, r))
       /\ SF_vars(\E B \in SUBSET Connections : c \in B /\ Step(B))

Spec == Init /\ [][Next]_vars /\ Fairness

----------------------------------------------------------------------------
\* RunnerMatchesJobs: whenever the loop comes around, the runner holds exactly
\* the requests of the engine's jobs: no request runs on for a client that was
\* stopped, answered or given up, and none of the jobs waits for a request the
\* runner no longer has (cancel errors are ignored in on_token,
\* drop_disconnected and fail_all).
RunnerMatchesJobs ==
  engine \in {"idle", "drain", "step"} =>
    DOMAIN runner = DOMAIN jobs /\ finished = <<>> /\ report = <<>>

\* AnswerComplete: a connection that closed with its client still there wrote
\* one whole answer: one status, or a head, the chunks, the finish reason or
\* error, and the end marker; "engine stopped" is said only when the engine
\* did not start.
AnswerComplete ==
  \A c \in Connections : conn[c].pc = "closed" /\ client[c] =>
    LET w == conn[c].written
    IN \/ Len(w) = 1 /\ w[1] \in {200, 400, 401, 404, 405, 413}
       \/ w \in {<<500>>, <<503>>} /\ engine = "failed"
       \/ /\ Len(w) >= 3 /\ w[1] = "head" /\ Last(w) = "[DONE]"
          /\ w[Len(w) - 1] \in {"finish", "error"}
          /\ \A i \in 2..(Len(w) - 2) : w[i] = "chunk"

\* EveryConnectionCloses: whatever clients leave and steps fail, every
\* connection thread ends, so every client that stayed has its answer.
EveryConnectionCloses == \A c \in Connections : <>(conn[c].pc = "closed")
=============================================================================
