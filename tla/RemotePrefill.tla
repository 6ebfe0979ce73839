---------------------------- MODULE RemotePrefill ----------------------------
(***************************************************************************)
(* Disaggregated prefill over TCP: the decode side's RemoteBatchNetwork    *)
(* (one tokio task per request, a bounded result channel, polled by the    *)
(* owner thread) and the prefill service that serves one connection at a   *)
(* time (disaggregated.rs, disaggregated/batch.rs).  A connection is the   *)
(* state of its two frames; a frame arrives whole, or its reader fails:    *)
(* closed, reset, wrong magic or wrong digest.  A prompt is a sequence of  *)
(* tokens and a device state is the sequence of tokens it was fed.         *)
(***************************************************************************)
EXTENDS Integers, SequencesExt, FiniteSetsExt

CONSTANTS Prompt,     \* sequence: the prompt of each request
          Capacity,   \* RemoteBatchNetwork.capacity
          Chunk,      \* min(block_tokens, max_batch_tokens)
          Block,      \* kv.block_size
          NumPages,   \* kv.num_pages of the service
          StoreLimit, \* BOUND: prefixes the service's store keeps
          Faults      \* BOUND: refused or broken connections, device errors

Id == DOMAIN Prompt

\* What a configuration must satisfy.
RemoteAssumption ==
  /\ Capacity \in Nat \ {0} /\ Chunk \in Nat \ {0} /\ Block \in Nat \ {0}
  /\ \A i \in Id : Prompt[i] # <<>>

VARIABLES
  requests,  \* ids whose task handle the network holds
  aborted,   \* ids whose task was told to stop
  task,      \* [Id -> "new", "connect", "wait", "send", "ended"]
  result,    \* [Id -> what the task will send: a state, or "error"]
  channel,   \* results on the way to the owner
  conn,      \* [Id -> "none", "open", "accepted", "answered", "closed"]
  accepts,   \* connections the listener holds, in order
  service,   \* the request being served, 0 if none
  work,      \* [fed, pages] of the prefill in progress
  answer,    \* [Id -> the reply frame]
  store,     \* prefixes the service keeps
  polled,    \* history: what poll returned
  faults

net   == <<requests, aborted, task, result, channel>>
serve == <<service, work, answer, store>>
vars  == <<net, conn, accepts, serve, polled, faults>>

Error == <<"error">>

NoWork == [fed |-> <<>>, table |-> 0, pages |-> 0]

Fault == faults < Faults /\ faults' = faults + 1

Init ==
  /\ requests = {} /\ aborted = {} /\ channel = <<>> /\ accepts = <<>>
  /\ task = [i \in Id |-> "new"] /\ conn = [i \in Id |-> "none"]
  /\ result = [i \in Id |-> Error] /\ answer = [i \in Id |-> Error]
  /\ service = 0 /\ work = NoWork /\ store = {}
  /\ polled = <<>> /\ faults = 0

----------------------------------------------------------------------------
(* The decode side                                                         *)

\* submit; ids are never reused (the scheduler numbers its requests).
Submit(i) ==
  /\ task[i] = "new" /\ Cardinality(requests) < Capacity
  /\ requests' = requests \cup {i} /\ task' = [task EXCEPT ![i] = "connect"]
  /\ UNCHANGED <<aborted, result, channel, conn, accepts, serve, polled, faults>>

\* exchange: connect and write the request frame.
Connect(i) ==
  /\ task[i] = "connect"
  /\ \/ /\ task' = [task EXCEPT ![i] = "wait"]
        /\ conn' = [conn EXCEPT ![i] = "open"] /\ accepts' = Append(accepts, i)
        /\ UNCHANGED <<result, faults>>
     \/ /\ Fault /\ task' = [task EXCEPT ![i] = "send"] /\ UNCHANGED <<result, conn, accepts>>
  /\ UNCHANGED <<requests, aborted, channel, serve, polled>>

\* exchange: the response frame, or the end of the connection.
ReadResponse(i) ==
  /\ task[i] = "wait"
  /\ \/ conn[i] = "answered" /\ result' = [result EXCEPT ![i] = answer[i]] /\ UNCHANGED faults
     \/ conn[i] = "closed" /\ UNCHANGED <<result, faults>>
  /\ task' = [task EXCEPT ![i] = "send"] /\ conn' = [conn EXCEPT ![i] = "closed"]
  /\ UNCHANGED <<requests, aborted, channel, accepts, serve, polled>>

\* The connection breaks, or the frame is damaged.
Break(i) ==
  /\ task[i] = "wait" /\ Fault
  /\ task' = [task EXCEPT ![i] = "send"] /\ conn' = [conn EXCEPT ![i] = "closed"]
  /\ UNCHANGED <<requests, aborted, result, channel, accepts, serve, polled>>

\* sender.send waits for a place in the channel.
SendResult(i) ==
  /\ task[i] = "send" /\ Len(channel) < Capacity
  /\ channel' = Append(channel, i) /\ task' = [task EXCEPT ![i] = "ended"]
  /\ UNCHANGED <<requests, aborted, result, conn, accepts, serve, polled, faults>>

\* An abort takes effect at an await of the task.
Aborts(i) ==
  /\ i \in aborted /\ task[i] # "ended"
  /\ task' = [task EXCEPT ![i] = "ended"]
  /\ conn' = [conn EXCEPT ![i] = IF @ = "none" THEN @ ELSE "closed"]
  /\ UNCHANGED <<requests, aborted, result, channel, accepts, serve, polled, faults>>

Wanted(i) == i \in requests

\* One turn of poll's loop.
Poll ==
  /\ channel # <<>>
  /\ channel' = Tail(channel) /\ requests' = requests \ {Head(channel)}
  /\ polled' = IF Wanted(Head(channel)) THEN Append(polled, Head(channel)) ELSE polled
  /\ UNCHANGED <<aborted, task, result, conn, accepts, serve, faults>>

Cancel(i) ==
  /\ i \in requests
  /\ requests' = requests \ {i} /\ aborted' = aborted \cup {i}
  /\ UNCHANGED <<task, result, channel, conn, accepts, serve, polled, faults>>

----------------------------------------------------------------------------
(* The prefill service                                                     *)

Cached(prompt) == {p \in store : IsPrefix(p, prompt)}

Pages(n) == (n + Block - 1) \div Block

\* restore_prefix into a fresh cache, its pages reserved and committed.
Restored(p, pages) == [fed |-> p, table |-> Pages(Len(p)), pages |-> pages]

\* The next connection; its request frame may be unreadable.
Accept ==
  /\ service = 0 /\ accepts # <<>>
  /\ accepts' = Tail(accepts)
  /\ LET i == Head(accepts) IN
     /\ service' = i
     /\ \/ /\ conn[i] = "open" /\ conn' = [conn EXCEPT ![i] = "accepted"] /\ UNCHANGED faults
        \/ /\ conn[i] # "open" /\ UNCHANGED <<conn, faults>>
        \/ /\ conn[i] = "open" /\ Fault /\ conn' = [conn EXCEPT ![i] = "closed"]
  /\ UNCHANGED <<net, work, answer, store, polled>>

\* lookup returns the longest stored prefix; a complete one is the answer.
Lookup ==
  /\ service # 0 /\ conn[service] = "accepted" /\ work = NoWork
  /\ \E p \in Cached(Prompt[service]) \cup {<<>>} :
       /\ \A q \in Cached(Prompt[service]) : Len(q) <= Len(p)
       /\ CASE p = Prompt[service] ->
                 answer' = [answer EXCEPT ![service] = p]
                 /\ conn' = [conn EXCEPT ![service] = "answered"]
                 /\ service' = 0 /\ UNCHANGED work
            [] p # Prompt[service] /\ Pages(Len(Prompt[service])) > NumPages ->
                 answer' = [answer EXCEPT ![service] = Error]
                 /\ conn' = [conn EXCEPT ![service] = "answered"]
                 /\ service' = 0 /\ UNCHANGED work
            [] OTHER ->
                 work' = Restored(p, Pages(Len(Prompt[service])))
                 /\ UNCHANGED <<answer, conn, service>>
  /\ UNCHANGED <<net, accepts, store, polled, faults>>

Working == service # 0 /\ work # NoWork

ChunkEnd(position, length) == Min({position + Chunk, length})

\* One forward pass over the next chunk.
Forward ==
  /\ Working /\ Len(work.fed) < Len(Prompt[service])
  /\ LET prompt == Prompt[service]
         end    == ChunkEnd(Len(work.fed), Len(prompt))
     IN work' = [work EXCEPT !.fed = @ \o SubSeq(prompt, Len(@) + 1, Min({end, Len(prompt)})),
                             !.table = Pages(end)]
  /\ UNCHANGED <<net, conn, accepts, service, answer, store, polled, faults>>

\* A device error, or the restore's, is the reply; nothing is stored.
PrefillFails ==
  /\ Working /\ Fault
  /\ answer' = [answer EXCEPT ![service] = Error]
  /\ conn' = [conn EXCEPT ![service] = IF @ = "accepted" THEN "answered" ELSE @]
  /\ service' = 0 /\ work' = NoWork
  /\ UNCHANGED <<net, accepts, store, polled>>

\* capture, store and reply; a reply to a closed connection is logged.
Reply ==
  /\ Working /\ Len(work.fed) >= Len(Prompt[service])
  /\ store' \in {store, IF Cardinality(store) < StoreLimit THEN store \cup {work.fed} ELSE {work.fed}}
  /\ answer' = [answer EXCEPT ![service] = work.fed]
  /\ conn' = [conn EXCEPT ![service] = IF @ = "accepted" THEN "answered" ELSE @]
  /\ service' = 0 /\ work' = NoWork
  /\ UNCHANGED <<net, accepts, polled, faults>>

\* Mutant: a broken request ends the service loop.
Skip_Returns == FALSE /\ UNCHANGED vars

\* An unreadable request: the error reply fails, the loop continues.
Skip ==
  /\ service # 0 /\ conn[service] = "closed" /\ work = NoWork
  /\ service' = 0
  /\ UNCHANGED <<net, conn, accepts, work, answer, store, polled, faults>>

Serve == Accept \/ Lookup \/ Forward \/ PrefillFails \/ Reply \/ Skip

Next ==
  \/ \E i \in Id : \/ Submit(i) \/ Connect(i) \/ ReadResponse(i) \/ Break(i)
                   \/ SendResult(i) \/ Aborts(i) \/ Cancel(i)
  \/ Poll
  \/ Serve

\* The next step of the exchange task of request i.
TaskStep(i) == Connect(i) \/ ReadResponse(i) \/ SendResult(i)

\* The service loop runs, the runtime runs its tasks, the owner polls.
Spec ==
  /\ Init /\ [][Next]_vars
  /\ WF_vars(Serve) /\ WF_vars(Poll)
  /\ \A i \in Id : WF_vars(TaskStep(i))

----------------------------------------------------------------------------
\* StateExact: a state that reaches the decode side is the state after
\* exactly the request's own tokens, however the service split, reused or
\* stored them and whatever connection broke (prefill, exchange).
StateExact ==
  /\ \A i \in Id : result[i] # Error => result[i] = Prompt[i]
  /\ \A p \in store : \E i \in Id : IsPrefix(p, Prompt[i])

\* PagesSuffice: the pool sized by div_ceil(len, block_size) covers every
\* reservation of the chunk loop.
PagesSuffice == work # NoWork => work.table <= work.pages

\* OnlyWanted: poll returns a request once, and never after its cancellation
\* (the result of a cancelled task may already be in the channel).
OnlyWanted ==
  /\ IsInjective(polled)
  /\ ToSet(polled) \cap aborted = {}

\* Answered: every submitted request is returned by poll or cancelled,
\* although the service handles one connection at a time and connections of
\* cancelled requests stay in its queue.
Answered == \A i \in Id : i \in requests ~> i \notin requests
=============================================================================
