--------------------------- MODULE PrefixExecutor ---------------------------
(***************************************************************************)
(* The device batch executor with its prefix cache, remote prefill and     *)
(* active KV swap (continuous_batch/{device,prefix_device,active_swap}.rs) *)
(* over a scheduler and a page pool.  A call of step is a sequence of      *)
(* small steps named by pc; a device fence, a restore, a capture or a      *)
(* forward pass may fail in any of them, and `?` ends the call there.      *)
(*                                                                         *)
(* Data abstractions: request ids are the submission order; a request is   *)
(* its prompt and output lengths; the token a row selects is only "end of  *)
(* sequence or not"; a captured prefix is its length in tokens, one byte   *)
(* each, and saved logits are one byte; models have no lookahead.          *)
(***************************************************************************)
EXTENDS Integers, FiniteSetsExt, SequencesExt

CONSTANTS
  Prompt, MaxNew,   \* sequences: prompt length and max_new_tokens by request
  Block, NumPages,  \* block_size and num_pages of the KV pool
  MaxActive,        \* config.max_active_sequences
  MaxPending,       \* options.max_pending_requests
  BatchTokens,      \* config.max_batch_tokens
  Chunk,            \* prefill_chunk_tokens
  HostLimit,        \* ActiveKvSwapConfig.host_bytes
  Reserve,          \* kv_admission = ReserveSequenceCapacity
  Remote,           \* a remote prefill network is configured
  CachedLengths,    \* prefix lengths a lookup may return
  Faults            \* BOUND: device, restore, capture and network failures

Id == DOMAIN Prompt

\* What a configuration must satisfy.
ExecutorAssumption ==
  /\ Block \in Nat \ {0} /\ NumPages \in Nat /\ Chunk \in Nat \ {0}
  /\ DOMAIN MaxNew = Id /\ \A i \in Id : Prompt[i] > 0 /\ MaxNew[i] > 0
  /\ Reserve \in BOOLEAN /\ Remote \in BOOLEAN /\ HostLimit \in Nat

VARIABLES
  pc,       \* where the call in progress stands, "idle" between calls
  retried,  \* this step already went through restore_ready a second time
  todo,     \* the requests a loop of the call has still to visit
  next,     \* next request id
  pending, active, finished, failed, cancelled,
  gen,      \* generated tokens; 0 is NeedsPrefill, more is AwaitingDecode
  kv,       \* sequences of the page pool: committed and reserved tokens
  prefix,   \* self.pending: prefixes waiting to be restored
  ready, handoff, deferred,
  saved, host, ceiling,  \* swap.entries, stats.host_bytes, admission_ceiling
  restoring, \* swap_restore: [id, error], or id 0
  batch, prefer,         \* rows in flight, prefer_prefill
  remote,   \* the network's view of each request
  faults,
  unfenced, \* writes launched since the last completed fence
  lost      \* a fence failed that no later call repeats

queue  == <<pending, active, finished, failed, cancelled>>
swap   == <<saved, host, ceiling, restoring>>
local  == <<prefix, ready, handoff, deferred>>
run    == <<batch, prefer>>
ghost  == <<unfenced, lost>>
vars   == <<pc, retried, todo, next, queue, gen, kv, local, swap, run, remote, faults, ghost>>

None == [id |-> 0, error |-> FALSE]

Fault == faults < Faults /\ faults' = faults + 1

Without(f, x) == [y \in DOMAIN f \ {x} |-> f[y]]

With(f, x, v) == [y \in DOMAIN f \cup {x} |-> IF y = x THEN v ELSE f[y]]

\* Sum of f over S, counted as the elements of a disjoint union.
Sum(f(_), S) == Cardinality(UNION {{i} \X (1..f(i)) : i \in S})

Pages(n) == (n + Block - 1) \div Block

Free == NumPages - Sum(LAMBDA i : Pages(kv[i].pos + kv[i].open), DOMAIN kv)

Extra(i, n) == Pages(kv[i].pos + n) - Pages(kv[i].pos)

\* can_append refuses an empty append and a sequence with an open reservation.
CanAppend(i, n) == n > 0 /\ kv[i].open = 0 /\ Extra(i, n) <= Free

\* request_page_budget
Budget(i) == Pages(Prompt[i] + MaxNew[i] - 1)

Budgets(S) == Sum(Budget, S)

\* next_tokens: what the request will append when it next moves.
NextTokens(i, pos, logits) ==
  CASE logits -> 0
    [] ~logits /\ i \in DOMAIN prefix -> Max({prefix[i] - pos, 0})
    [] ~logits /\ i \notin DOMAIN prefix /\ gen[i] > 0 -> 1
    [] OTHER -> Min({Max({Prompt[i] - pos, 0}), Chunk, BatchTokens})

NextOf(i) == NextTokens(i, kv[i].pos, i \in ready)

Idle == pending = {} /\ active = {} /\ batch = {} /\ saved = <<>> /\ restoring = None

Init ==
  /\ pc = "idle" /\ retried = FALSE /\ todo = {} /\ next = 1
  /\ pending = {} /\ active = {} /\ finished = {} /\ failed = {} /\ cancelled = {}
  /\ gen = [i \in Id |-> 0] /\ kv = <<>>
  /\ prefix = <<>> /\ ready = {} /\ handoff = {} /\ deferred = {}
  /\ saved = <<>> /\ host = 0 /\ ceiling = 0 /\ restoring = None
  /\ batch = {} /\ prefer = TRUE
  /\ remote = [i \in Id |-> "none"]
  /\ faults = 0 /\ unfenced = {} /\ lost = FALSE

----------------------------------------------------------------------------
(* Submission                                                              *)

\* check_swap_queue, and the scheduler's own limit.
QueueFull == Cardinality(pending) + Cardinality(DOMAIN saved) >= MaxPending

\* submit and stage: with a remote network every prompt without a complete
\* cached prefix is sent away and deferred.
Submit(length) ==
  /\ pc = "idle" /\ next \in Id /\ ~QueueFull
  /\ length <= Prompt[next]
  /\ next' = next + 1
  /\ IF Remote /\ length < Prompt[next]
     THEN \/ /\ pending' = pending \cup {next}
             /\ deferred' = deferred \cup {next}
             /\ remote' = [remote EXCEPT ![next] = "sent"]
             /\ UNCHANGED <<cancelled, prefix, handoff, faults>>
          \/ /\ Fault  \* remote.submit refuses: the request is withdrawn
             /\ cancelled' = cancelled \cup {next}
             /\ UNCHANGED <<pending, deferred, remote, prefix, handoff>>
     ELSE /\ pending' = pending \cup {next}
          /\ handoff' = IF Remote THEN handoff \cup {next} ELSE handoff
          /\ prefix' = IF length > 0 THEN With(prefix, next, length) ELSE prefix
          /\ UNCHANGED <<cancelled, deferred, remote, faults>>
  /\ UNCHANGED <<pc, retried, todo, active, finished, failed, gen, kv, ready, swap, run, ghost>>

\* The network's thread stores a result.
RemoteAnswers(i) ==
  /\ remote[i] = "sent"
  /\ \/ remote' = [remote EXCEPT ![i] = "ok"] /\ UNCHANGED faults
     \/ Fault /\ remote' = [remote EXCEPT ![i] = "error"]
  /\ UNCHANGED <<pc, retried, todo, next, queue, gen, kv, local, swap, run, ghost>>

----------------------------------------------------------------------------
(* step: restore_ready                                                     *)

CallStep ==
  /\ pc = "idle" /\ ~Idle /\ batch = {}
  /\ pc' = "poll" /\ retried' = FALSE
  /\ UNCHANGED <<todo, next, queue, gen, kv, local, swap, run, remote, faults, ghost>>

Withdrawn(i) ==
  pending' = pending \ {i} /\ failed' = failed \cup {i} /\ deferred' = deferred \ {i}

HandedOff(i) ==
  /\ prefix' = With(prefix, i, Prompt[i])
  /\ handoff' = handoff \cup {i} /\ deferred' = deferred \ {i}

\* poll_remote: a result whose request is no longer queued is dropped.
PollRemote(i) ==
  /\ pc = "poll" /\ remote[i] \in {"ok", "error"}
  /\ remote' = [remote EXCEPT ![i] = "none"]
  /\ CASE i \notin pending ->
            UNCHANGED <<pending, failed, local>>
       [] i \in pending /\ remote[i] = "ok" ->
            /\ HandedOff(i)
            /\ UNCHANGED <<pending, failed, ready>>
       [] OTHER ->
            /\ Withdrawn(i)
            /\ UNCHANGED <<prefix, handoff, ready>>
  /\ UNCHANGED <<pc, retried, todo, next, active, finished, cancelled, gen, kv, swap, run, faults, ghost>>

PollDone ==
  /\ pc = "poll" /\ \A i \in Id : remote[i] \notin {"ok", "error"}
  /\ pc' = "resume"
  /\ UNCHANGED <<retried, todo, next, queue, gen, kv, local, swap, run, remote, faults, ghost>>

\* can_resume: the older active requests keep the pages of their next move.
CanResume(i) ==
  LET pos   == saved[i].pos
      plain == Pages(pos + NextTokens(i, pos, saved[i].logits))
      need  == IF Reserve THEN Max({plain, Budget(i)}) ELSE plain
      older == {j \in active : j < i}
  IN /\ Cardinality(active) < MaxActive
     /\ need + Sum(LAMBDA j : Extra(j, NextOf(j)), older) <= Free
     /\ Reserve => need <= NumPages - Budgets(active)

\* swap_in up to the launch of the restore; a request with no committed token
\* has nothing to write.
SwapIn(i) ==
  /\ pc \in {"idle", "resume"} /\ batch = {} /\ restoring = None
  /\ i \in DOMAIN saved /\ CanResume(i)
  /\ pc = "resume" => i = Min(DOMAIN saved)
  /\ \/ /\ kv' = With(kv, i, [pos |-> 0, open |-> saved[i].pos])
        /\ unfenced' = IF saved[i].pos > 0 THEN unfenced \cup {i} ELSE unfenced
        /\ \/ restoring' = [id |-> i, error |-> FALSE] /\ UNCHANGED faults
           \/ saved[i].pos > 0 /\ Fault /\ restoring' = [id |-> i, error |-> TRUE]
        /\ UNCHANGED pc
     \/ /\ Fault /\ pc' = "idle"  \* decode_prefix fails: nothing was touched
        /\ UNCHANGED <<kv, unfenced, restoring>>
  /\ UNCHANGED <<retried, todo, next, queue, gen, local, saved, host, ceiling, run, remote, lost>>

\* refresh_swap_admission
Ceiling(entries) == IF entries = <<>> THEN 0 ELSE Min(DOMAIN entries)

Bytes(s) == s.pos + (IF s.logits THEN 1 ELSE 0)

\* The reservation, the cache and the host copy are kept for the next call.
FenceFails == UNCHANGED <<queue, kv, local, swap, unfenced>>

\* The host entry ends once the state is on the device again.
Resumed(i) == saved' = Without(saved, i) /\ host' = host - Bytes(saved[i])

Restored ==
  LET i == restoring.id IN
  /\ kv' = [kv EXCEPT ![i] = [pos |-> @.pos + @.open, open |-> 0]]
  /\ active' = active \cup {i}
  /\ ready' = IF saved[i].logits THEN ready \cup {i} ELSE ready
  /\ Resumed(i) /\ ceiling' = Ceiling(saved') /\ restoring' = None /\ unfenced' = {}
  /\ UNCHANGED <<pending, finished, failed, cancelled, prefix, handoff, deferred>>

\* complete_swap_restore: the first thing of every call that may meet one.
CompleteSwapRestore ==
  /\ pc \in {"idle", "resume"} /\ restoring # None
  /\ \/ Fault /\ pc' = "idle" /\ FenceFails
     \/ /\ restoring.error
        /\ kv' = Without(kv, restoring.id) /\ restoring' = None /\ unfenced' = {}
        /\ pc' = "idle"
        /\ UNCHANGED <<faults, queue, local, saved, host, ceiling>>
     \/ ~restoring.error /\ Restored /\ UNCHANGED <<pc, faults>>
  /\ UNCHANGED <<retried, todo, next, gen, run, remote, lost>>

\* Mutant: the ceiling of suspended requests is ignored.
Promotable_Any(i) == i \notin deferred

\* promote_pending admits in queue order.
Promotable(i) == i \notin deferred /\ (ceiling = 0 \/ i < ceiling)

Promoted ==
  LET order == SetToSortSeq({i \in pending : Promotable(i)}, <)
      fits(n) == LET S == {order[k] : k \in 1..n} IN
                 /\ Cardinality(active) + n <= MaxActive
                 /\ Reserve => Budgets(active) + Budgets(S) <= NumPages
      n == Max({k \in 0..Len(order) : \A m \in 1..k : fits(m)})
  IN {order[k] : k \in 1..n}

PromotePending ==
  /\ pc = "resume" /\ restoring = None
  /\ saved # <<>> => ~CanResume(Min(DOMAIN saved))
  /\ pending' = pending \ Promoted /\ active' = active \cup Promoted
  /\ kv' = [i \in DOMAIN kv \cup Promoted |->
              IF i \in Promoted THEN [pos |-> 0, open |-> 0] ELSE kv[i]]
  /\ todo' = DOMAIN prefix \cap active'
  /\ pc' = "restore"
  /\ UNCHANGED <<retried, next, finished, failed, cancelled, gen, local, swap, run, remote, faults, ghost>>

\* The loop over the waiting prefixes of active requests.
RestorePrefix ==
  /\ pc = "restore" /\ todo # {}
  /\ LET i == Min(todo) IN
     \/ /\ ~CanAppend(i, prefix[i]) /\ todo' = todo \ {i}
        /\ IF i \in handoff THEN deferred' = deferred \cup {i} /\ UNCHANGED prefix
                            ELSE prefix' = Without(prefix, i) /\ UNCHANGED deferred
        /\ UNCHANGED <<pc, kv, ready, handoff, faults, ghost>>
     \/ /\ CanAppend(i, prefix[i]) /\ todo' = todo \ {i}
        /\ kv' = [kv EXCEPT ![i].pos = @ + prefix[i]] /\ unfenced' = {}
        /\ prefix' = Without(prefix, i)
        /\ handoff' = handoff \ {i} /\ deferred' = deferred \ {i}
        /\ ready' = IF prefix[i] = Prompt[i] THEN ready \cup {i} ELSE ready
        /\ UNCHANGED <<pc, faults, lost>>
     \/ /\ CanAppend(i, prefix[i]) /\ Fault  \* the fence fails: reserved for good
        /\ kv' = [kv EXCEPT ![i].open = prefix[i]]
        /\ unfenced' = unfenced \cup {i} /\ lost' = TRUE
        /\ pc' = "idle" /\ todo' = {}
        /\ UNCHANGED local
     \/ /\ CanAppend(i, prefix[i]) /\ Fault  \* the restore failed behind its fence
        /\ unfenced' = {} /\ pc' = "idle" /\ todo' = {}
        /\ UNCHANGED <<kv, local, lost>>
  /\ UNCHANGED <<retried, next, queue, gen, swap, run, remote>>

RestoreDone ==
  /\ pc = "restore" /\ todo = {}
  /\ pc' = CASE ready # {} -> "emit"
             [] ready = {} /\ ~retried /\ HostLimit > 0 -> "relieve"
             [] OTHER -> "launch"
  /\ UNCHANGED <<retried, todo, next, queue, gen, kv, local, swap, run, remote, faults, ghost>>

----------------------------------------------------------------------------
(* step: relieve_kv_pressure                                               *)

Movable == {i \in active : (i \in deferred => i \in handoff) /\ NextOf(i) > 0}

\* No request that could move has the pages for it.
Stalled == \A i \in Movable : ~CanAppend(i, NextOf(i))

Targets == Movable \cup (IF saved = <<>> THEN {} ELSE {Min(DOMAIN saved)})

Fits(t) == IF t \in DOMAIN saved THEN CanResume(t) ELSE CanAppend(t, NextOf(t))

\* Only on an actual page stall; `todo` becomes the target.
Relieve ==
  /\ pc = "relieve"
  /\ IF Stalled /\ Targets # {}
     THEN pc' = "evict" /\ todo' = {Min(Targets)}
     ELSE pc' = "launch" /\ UNCHANGED todo
  /\ UNCHANGED <<retried, next, queue, gen, kv, local, swap, run, remote, faults, ghost>>

\* swap_out: the copy fits the host budget.
SwapOutFits(i) == Bytes([pos |-> kv[i].pos, logits |-> i \in ready]) <= HostLimit - host

\* The copy and its fence come before the pages are reclaimed; the pool
\* refuses to remove a sequence with an open reservation.
SwapOut(i) ==
  LET entry == [pos |-> kv[i].pos, logits |-> i \in ready] IN
  /\ kv[i].open = 0 /\ SwapOutFits(i)
  /\ kv' = Without(kv, i) /\ active' = active \ {i} /\ ready' = ready \ {i}
  /\ saved' = With(saved, i, entry) /\ host' = host + Bytes(entry)
  /\ unfenced' = {} /\ ceiling' = Ceiling(saved')
  /\ UNCHANGED <<pending, finished, failed, cancelled, prefix, handoff, deferred, restoring>>

Victims(t) == {v \in active : v > t /\ v \notin todo}

\* One turn of the victim loop; `todo` also holds the victims already tried.
EvictVictim ==
  /\ pc = "evict"
  /\ LET t == Min(todo) IN
     /\ Victims(t) # {} /\ ~Fits(t)
     /\ LET v == Max(Victims(t)) IN
        \/ /\ SwapOut(v) /\ retried' = TRUE
           /\ todo' = todo \cup {v}
           /\ UNCHANGED <<pc, faults>>
        \/ /\ ~SwapOutFits(v) /\ todo' = todo \cup {v}  \* budget miss
           /\ UNCHANGED <<pc, retried, queue, kv, local, swap, faults, unfenced>>
        \/ /\ \/ Fault  \* the capture, the download or its fence
              \/ kv[v].open > 0 /\ SwapOutFits(v) /\ UNCHANGED faults
           /\ pc' = "idle" /\ todo' = {}
           /\ UNCHANGED <<retried, queue, kv, local, swap, unfenced>>
  /\ UNCHANGED <<next, gen, run, remote, lost>>

\* With something changed restore_ready runs again; the swap_in of the target
\* is the first one of that pass.
Relieved ==
  /\ pc = "evict"
  /\ LET t == Min(todo) IN
     /\ Victims(t) = {} \/ Fits(t)
     /\ retried' = (retried \/ (t \in DOMAIN saved /\ CanResume(t)))
     /\ pc' = IF retried' THEN "poll" ELSE "launch"
  /\ todo' = {}
  /\ UNCHANGED <<next, queue, gen, kv, local, swap, run, remote, faults, ghost>>

\* swap_out called by the owner.
CallSwapOut(i) ==
  /\ pc = "idle" /\ batch = {} /\ restoring = None /\ HostLimit > 0
  /\ i \in active /\ SwapOut(i)
  /\ UNCHANGED <<pc, retried, todo, next, gen, run, remote, faults, lost>>

----------------------------------------------------------------------------
(* step: cached logits, or one device batch                                *)

\* The request leaves with its last token, or waits to decode the next one.
Selected(rows, ended) ==
  LET over == {i \in rows : i \in ended \/ gen[i] + 1 >= MaxNew[i]}
      new  == [i \in DOMAIN kv |-> IF i \in batch
                 THEN [pos |-> kv[i].pos + kv[i].open, open |-> 0] ELSE kv[i]]
  IN /\ gen' = [i \in Id |-> IF i \in rows THEN gen[i] + 1 ELSE gen[i]]
     /\ finished' = finished \cup over /\ active' = active \ over
     /\ kv' = [i \in DOMAIN kv \ over |-> new[i]]
     /\ UNCHANGED <<pending, failed, cancelled>>

\* complete_prefilled for each cached logits row; the processor may fail.
EmitReady(ended) ==
  /\ pc = "emit" /\ ready # {}
  /\ LET i == Min(ready) IN
     \/ /\ ended \subseteq {i} /\ Selected({i}, ended) /\ ready' = ready \ {i}
        /\ pc' = IF ready' = {} THEN "idle" ELSE "emit"
        /\ UNCHANGED faults
     \/ Fault /\ ended = {} /\ pc' = "idle" /\ UNCHANGED <<queue, gen, kv, ready>>
  /\ UNCHANGED <<retried, todo, next, prefix, handoff, deferred, swap, run, remote, ghost>>

\* R is what the row loop takes of the candidates S, in id order, as long as
\* there are pages and places for n tokens each.
Takes(R, S, n) ==
  /\ R \subseteq S
  /\ \A i \in S :
       LET before == {j \in R : j < i}
       IN i \in R <=> /\ Cardinality(before) < BatchTokens \div n
                     /\ Extra(i, n) + Sum(LAMBDA j : Extra(j, n), before) <= Free

DecodeRows(R) == Takes(R, {i \in active : gen[i] > 0 /\ kv[i].open = 0}, 1)

Fillable == {i \in active : gen[i] = 0 /\ i \notin deferred /\ CanAppend(i, NextOf(i))}

\* schedule_prefill: the bucket of one chunk length with the most useful
\* tokens, of equally full ones the one with the oldest request.
PrefillRows(R) ==
  \E S \in {Fillable} :
    LET Bucket(i) == {j \in S : NextOf(j) = NextOf(i) /\ (kv[j].pos = 0 <=> kv[i].pos = 0)}
        Useful(i) == Min({Cardinality(Bucket(i)), BatchTokens \div NextOf(i)}) * NextOf(i)
    IN \E i \in S :
         /\ \A j \in S : Useful(j) < Useful(i) \/ (Useful(j) = Useful(i) /\ i <= j)
         /\ Takes(R, Bucket(i), NextOf(i))

\* schedule and the launch of the forward pass; prefill and decode batches
\* alternate while both have rows.
Launch(rows) ==
  /\ pc = "launch"
  /\ LET filling == Fillable # {} /\ (prefer \/ DecodeRows({})) IN
     /\ IF filling THEN PrefillRows(rows) ELSE DecodeRows(rows)
     /\ prefer' = IF rows = {} THEN prefer ELSE ~filling
  /\ pc' = IF rows = {} THEN "idle" ELSE "launched"
  /\ batch' = rows /\ unfenced' = unfenced \cup rows
  /\ kv' = [i \in DOMAIN kv |-> IF i \in rows THEN [kv[i] EXCEPT !.open = NextOf(i)] ELSE kv[i]]
  /\ UNCHANGED <<retried, todo, next, queue, gen, local, swap, remote, faults, lost>>

\* A failed fence leaves the batch in flight.
BatchFenceFails ==
  /\ pc = "launched" /\ Fault
  /\ pc' = "idle" /\ lost' = TRUE
  /\ UNCHANGED <<retried, todo, next, queue, gen, kv, local, swap, run, remote, unfenced>>

\* The forward pass, the processor or the selection failed: fail_batch.
BatchFails ==
  /\ pc = "launched" /\ Fault
  /\ kv' = [i \in DOMAIN kv |-> IF i \in batch THEN [kv[i] EXCEPT !.open = 0] ELSE kv[i]]
  /\ batch' = {} /\ unfenced' = {} /\ pc' = "idle"
  /\ UNCHANGED <<retried, todo, next, queue, gen, local, swap, prefer, remote, lost>>

\* A row that is not at the end of its prompt yet selects no token.
Selecting(i) == gen[i] > 0 \/ kv[i].pos + kv[i].open = Prompt[i]

\* complete_selected_batch
BatchCompletes(ended) ==
  /\ pc = "launched"
  /\ LET rows == {i \in batch : Selecting(i)}
     IN ended \subseteq rows /\ Selected(rows, ended)
  /\ batch' = {} /\ unfenced' = {} /\ pc' = "idle"
  /\ UNCHANGED <<retried, todo, next, local, swap, prefer, remote, faults, lost>>

----------------------------------------------------------------------------
(* cancel                                                                  *)

\* In-flight rows and open reservations are refused.
Removable(i) == i \notin batch /\ kv[i].open = 0

Cancel(i) ==
  /\ pc = "idle" /\ restoring = None
  /\ \/ i \in DOMAIN saved
     \/ i \in pending
     \/ i \in active /\ Removable(i)
  /\ cancelled' = cancelled \cup {i}
  /\ saved' = Without(saved, i) /\ ceiling' = Ceiling(saved')
  /\ host' = IF i \in DOMAIN saved THEN host - Bytes(saved[i]) ELSE host
  /\ pending' = pending \ {i} /\ active' = active \ {i} /\ kv' = Without(kv, i)
  /\ prefix' = Without(prefix, i) /\ ready' = ready \ {i}
  /\ handoff' = handoff \ {i} /\ deferred' = deferred \ {i}
  /\ remote' = [remote EXCEPT ![i] = "none"]
  /\ UNCHANGED <<pc, retried, todo, next, finished, failed, gen, restoring, run, faults, ghost>>

----------------------------------------------------------------------------

Step ==
  \/ CallStep \/ PollDone \/ CompleteSwapRestore \/ PromotePending
  \/ RestorePrefix \/ RestoreDone \/ Relieve \/ EvictVictim \/ Relieved
  \/ BatchFenceFails \/ BatchFails
  \/ \E i \in Id : PollRemote(i) \/ (pc = "resume" /\ SwapIn(i))
  \/ \E rows \in SUBSET active : Launch(rows) \/ EmitReady(rows) \/ BatchCompletes(rows)

Call ==
  \/ \E length \in CachedLengths : Submit(length)
  \/ \E i \in Id : CallSwapOut(i) \/ Cancel(i) \/ (pc = "idle" /\ SwapIn(i))

Next == Step \/ Call \/ \E i \in Id : RemoteAnswers(i)

\* The owner keeps calling step while there is work, a call does not stop in
\* its middle, and the network answers.
Spec == /\ Init /\ [][Next]_vars
        /\ WF_vars(CallStep) /\ WF_vars(pc # "idle" /\ Step)
        /\ WF_vars(\E i \in Id : RemoteAnswers(i))

----------------------------------------------------------------------------
(* Properties                                                              *)

Open(i) == i < next

Settled(i) == i \in finished \cup failed \cup cancelled

\* Every accepted request is in exactly one place, and the page pool holds
\* exactly the active requests and the one being swapped back in.
OnePlace ==
  /\ LET places == <<pending, active, DOMAIN saved, finished, failed, cancelled>>
     IN \A i \in Id : Open(i) <=> Cardinality({k \in DOMAIN places : i \in places[k]}) = 1
  /\ DOMAIN kv = active \cup ({restoring.id} \ {0})
  /\ restoring.id # 0 => restoring.id \in DOMAIN saved

\* A write that may still be running has its pages reserved: no failed fence,
\* no cancellation and no swap gives them to another request.
WritesReserved == \A i \in unfenced : i \in DOMAIN kv /\ kv[i].open > 0

\* The host counter is the sum of the suspended copies, and never above the
\* limit, also while a copy is being restored or was cancelled.
HostExact ==
  /\ host = Sum(LAMBDA i : Bytes(saved[i]), DOMAIN saved)
  /\ host <= HostLimit

\* The committed tokens of a request, wherever its state lives, are those of
\* its prompt and of the tokens it fed back: suspending, restoring and failing
\* neither repeats nor skips one.  Cached logits belong to a whole prompt.
PositionsExact ==
  \A i \in active \cup DOMAIN saved :
    LET pos    == IF i \in DOMAIN saved THEN saved[i].pos ELSE kv[i].pos
        logits == IF i \in DOMAIN saved THEN saved[i].logits ELSE i \in ready
    IN /\ gen[i] > 0 => pos = Prompt[i] + gen[i] - 1 /\ ~logits
       /\ gen[i] = 0 => pos <= Prompt[i]
       /\ logits => pos = Prompt[i]
       /\ gen[i] = 0 /\ pos = Prompt[i] => logits

\* No request is admitted before an older suspended one: the cached ceiling is
\* never stale when it is used.
OvertakesNone ==
  \A i \in pending \cap active' : \A j \in DOMAIN saved : i < j

\* Every accepted request ends, by itself or by cancellation, unless a fence
\* failed that no call repeats; a failed swap fence is not one of those.
Settles == \A i \in Id : Open(i) ~> (Settled(i) \/ lost)
=============================================================================
