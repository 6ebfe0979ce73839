---------------------------- MODULE ParallelBatch ----------------------------
(***************************************************************************)
(* A tensor-parallel batch model (parallel_batch.rs): one device model per  *)
(* rank behind the interface of a single one.  A caller forks the group's   *)
(* cache, calls the group on the fork, waits for every device and keeps     *)
(* the fork only when all calls succeeded (continuous_batch/device.rs and   *)
(* prefix_device.rs).  A forward runs on one thread per rank, and the       *)
(* threads meet in a collective of ruCCL; the other calls go through the    *)
(* ranks in order and stop at the first one that fails.                     *)
(*                                                                          *)
(* A rank's cache is the number of tokens it holds of each request.  A rank *)
(* that fails in a forward may have grown its cache or not.  ruCCL is       *)
(* external: a collective ends when every rank takes part, and fails in the *)
(* ranks that wait when a peer has given up.                                *)
(***************************************************************************)
EXTENDS Naturals, FiniteSets

CONSTANTS
    World,      \* number of ranks
    Ids,        \* request ids
    MaxLength,  \* bound on the tokens of a request
    MaxCalls,   \* bound on the calls between a fork and its end
    MaxFaults,  \* bound on the failures of devices, kernels and collectives
    Model,      \* this group's model identity
    Stored      \* prefix records found in storage

Ranks == 0..(World - 1)

VARIABLES
    cache,     \* the group's cache: rank -> request -> tokens
    host,      \* tokens of each request the scheduler counts as computed
    working,   \* the fork the current calls work on
    expected,  \* tokens the caller counts in the fork
    pc,        \* "idle", "open", "forward" or "stuck"
    result,    \* "ok" until a call fails
    calls,     \* calls made on the fork
    job,       \* the forward under way: [id, count]
    thread,    \* rank -> "none", "run", "reduce", "sync" or "done"
    output,    \* rank -> "none", "ok" or "error"
    busy,      \* ranks whose device may still run kernels
    prefix,    \* the captured, imported or decoded group prefix, or NoPrefix
    records,   \* prefix records in storage
    delta,     \* the captured speculative tokens: [id, ranks], or NoDelta
    faults

vars == <<cache, host, working, expected, pc, result, calls, job, thread,
          output, busy, prefix, records, delta, faults>>

threads == <<job, thread, output>>

NoPrefix == [position |-> 0, ranks |-> <<>>]

NoDelta == [id |-> "none", ranks |-> <<>>]

NoJob == [id |-> "none", count |-> 0]

\* What one rank keeps of a prefix: its tokens, and the identity it was made
\* under (model, world and rank).
Part(position, model, world, rank) ==
    [position |-> position, model |-> model, world |-> world, rank |-> rank]

Parts(positions) == [k \in Ranks |-> Part(positions[k], Model, World, k)]

Empty == [k \in Ranks |-> [id \in Ids |-> 0]]

----------------------------------------------------------------------------

Init ==
    /\ cache = Empty
    /\ host = [id \in Ids |-> 0]
    /\ working = Empty
    /\ expected = [id \in Ids |-> 0]
    /\ pc = "idle" /\ result = "ok" /\ calls = 0
    /\ job = NoJob
    /\ thread = [k \in Ranks |-> "none"]
    /\ output = [k \in Ranks |-> "none"]
    /\ busy = {} /\ prefix = NoPrefix /\ records = Stored /\ delta = NoDelta
    /\ faults = 0

\* fork_batch_cache: one fork per rank.
Fork ==
    /\ pc = "idle"
    /\ pc' = "open" /\ result' = "ok" /\ calls' = 0
    /\ working' = cache
    /\ expected' = host
    /\ UNCHANGED <<cache, host, threads, busy, prefix, records, delta, faults>>

\* A call is made on the fork as long as none has failed.
Callable == pc = "open" /\ result = "ok" /\ calls < MaxCalls

\* A loop over the ranks that stops at rank `failing' (World when none fails).
Reached(failing, k) == k < failing

\* The rank at which a loop over the ranks fails; World when it does not.
FailsAt(failing) ==
    /\ failing \in 0..World
    /\ failing < World => faults < MaxFaults
    /\ faults' = IF failing < World THEN faults + 1 ELSE faults

\* An error of any rank is the error of the call.
Outcome(failing) == IF failing < World THEN "error" ELSE "ok"

----------------------------------------------------------------------------
(* forward_batch_lookahead and forward_batch_block: a thread per rank. *)

ForwardCall(id, count) ==
    /\ Callable
    /\ expected[id] + count <= MaxLength
    /\ pc' = "forward" /\ calls' = calls + 1
    /\ job' = [id |-> id, count |-> count]
    /\ thread' = [k \in Ranks |-> "run"]
    /\ output' = [k \in Ranks |-> "none"]
    /\ UNCHANGED <<cache, host, working, expected, result, busy, prefix, records,
                   delta, faults>>

\* A rank launches its kernels and comes to the collective.
RankRun(k) ==
    /\ pc = "forward" /\ thread[k] = "run"
    /\ thread' = [thread EXCEPT ![k] = "reduce"]
    /\ busy' = busy \cup {k}
    /\ UNCHANGED <<cache, host, working, expected, pc, result, calls, job, output,
                   prefix, records, delta, faults>>

\* A rank gives up before the collective, its cache grown or not.
RankFails(k, grown) ==
    /\ pc = "forward" /\ thread[k] = "run"
    /\ faults < MaxFaults /\ faults' = faults + 1
    /\ thread' = [thread EXCEPT ![k] = "sync"]
    /\ output' = [output EXCEPT ![k] = "error"]
    /\ busy' = busy \cup {k}
    /\ working' = IF grown THEN [working EXCEPT ![k][job.id] = @ + job.count] ELSE working
    /\ UNCHANGED <<cache, host, expected, pc, result, calls, job, prefix, records, delta>>

\* ruCCL: the collective ends in every rank.
Collective ==
    /\ pc = "forward"
    /\ \A k \in Ranks : thread[k] = "reduce"
    /\ thread' = [k \in Ranks |-> "sync"]
    /\ output' = [k \in Ranks |-> "ok"]
    /\ working' = [k \in Ranks |-> [working[k] EXCEPT ![job.id] = @ + job.count]]
    /\ UNCHANGED <<cache, host, expected, pc, result, calls, job, busy, prefix,
                   records, delta, faults>>

\* ruCCL: the collective fails in a rank whose peer has given up.
RankAborted(k) ==
    /\ pc = "forward" /\ thread[k] = "reduce"
    /\ \E j \in Ranks : output[j] = "error"
    /\ thread' = [thread EXCEPT ![k] = "sync"]
    /\ output' = [output EXCEPT ![k] = "error"]
    /\ UNCHANGED <<cache, host, working, expected, pc, result, calls, job, busy,
                   prefix, records, delta, faults>>

\* A rank fails behind the collective, before its cache has grown.
RankFailsLate(k) ==
    /\ pc = "forward" /\ thread[k] = "sync" /\ output[k] = "ok"
    /\ faults < MaxFaults /\ faults' = faults + 1
    /\ output' = [output EXCEPT ![k] = "error"]
    /\ working' = [working EXCEPT ![k][job.id] = @ - job.count]
    /\ UNCHANGED <<cache, host, expected, pc, result, calls, job, thread, busy, prefix,
                   records, delta>>

\* The thread waits for its device, whatever the forward returned.
RankSync(k) ==
    /\ pc = "forward" /\ thread[k] = "sync"
    /\ thread' = [thread EXCEPT ![k] = "done"]
    /\ busy' = busy \ {k}
    /\ UNCHANGED <<cache, host, working, expected, pc, result, calls, job, output,
                   prefix, records, delta, faults>>

RankSyncFails(k) ==
    /\ pc = "forward" /\ thread[k] = "sync"
    /\ faults < MaxFaults /\ faults' = faults + 1
    /\ thread' = [thread EXCEPT ![k] = "done"]
    /\ output' = [output EXCEPT ![k] = "error"]
    /\ UNCHANGED <<cache, host, working, expected, pc, result, calls, job, busy,
                   prefix, records, delta>>

\* The handles are joined in order: an error of any rank is the call's error.
Joined == IF \E k \in Ranks : output[k] = "error" THEN "error" ELSE "ok"

Join ==
    /\ pc = "forward"
    /\ \A k \in Ranks : thread[k] = "done"
    /\ pc' = "open"
    /\ result' = Joined
    /\ expected' = IF result' = "ok"
                   THEN [expected EXCEPT ![job.id] = @ + job.count] ELSE expected
    /\ thread' = [k \in Ranks |-> "none"]
    /\ job' = NoJob
    /\ UNCHANGED <<cache, host, working, calls, output, busy, prefix, records, delta, faults>>

----------------------------------------------------------------------------
(* The calls that go through the ranks in order. *)

Sequential(failing) ==
    /\ Callable
    /\ FailsAt(failing)
    /\ calls' = calls + 1
    /\ result' = Outcome(failing)
    /\ UNCHANGED <<cache, host, pc, threads>>

Launched(failing) == {k \in Ranks : k <= failing}

\* begin_batch_speculation: each rank prepares the rows of the batch.
BeginSpeculation(failing) ==
    /\ Sequential(failing)
    /\ UNCHANGED <<working, expected, busy, prefix, records, delta>>

\* capture_batch_delta: the tokens from `start' on, rank by rank.
CaptureDelta(id, start, failing) ==
    /\ Sequential(failing)
    /\ start < expected[id]
    /\ delta' = IF failing = World
                THEN [id |-> id, ranks |-> [k \in Ranks |-> working[k][id] - start]]
                ELSE delta
    /\ busy' = busy \cup Launched(failing)
    /\ UNCHANGED <<working, expected, prefix, records>>

\* truncate_batch_cache.
Truncate(id, position, failing) ==
    /\ Sequential(failing)
    /\ position < expected[id]
    /\ working' = [k \in Ranks |-> IF Reached(failing, k)
                      THEN [working[k] EXCEPT ![id] = position] ELSE working[k]]
    /\ expected' = IF failing = World THEN [expected EXCEPT ![id] = position] ELSE expected
    /\ busy' = busy \cup Launched(failing)
    /\ UNCHANGED <<prefix, records, delta>>

\* append_batch_delta: one captured token on every rank.
AppendDelta(id, failing) ==
    /\ Sequential(failing)
    /\ delta.id = id /\ \A k \in Ranks : delta.ranks[k] > 0
    /\ expected[id] < MaxLength
    /\ working' = [k \in Ranks |-> IF Reached(failing, k)
                      THEN [working[k] EXCEPT ![id] = @ + 1] ELSE working[k]]
    /\ expected' = IF failing = World THEN [expected EXCEPT ![id] = @ + 1] ELSE expected
    /\ busy' = busy \cup Launched(failing)
    /\ UNCHANGED <<prefix, records, delta>>

\* capture_prefix: a part per rank, each device waited for, and the positions
\* compared; the rank that fails may be left running.
CapturePrefix(id, failing) ==
    /\ Callable
    /\ expected[id] > 0
    /\ FailsAt(failing)
    /\ calls' = calls + 1
    /\ LET positions == [k \in Ranks |-> working[k][id]]
       IN prefix' = IF failing = World /\ \A k \in Ranks : positions[k] = positions[0]
                    THEN [position |-> positions[0], ranks |-> Parts(positions)]
                    ELSE prefix
    /\ busy' = (busy \ {k \in Ranks : k < failing}) \cup {k \in Ranks : k = failing}
    /\ UNCHANGED <<cache, host, working, expected, pc, result, threads, records, delta>>

\* What restore_prefix asks of a prefix; any other is refused before a rank is touched.
PrefixFits(p) ==
    /\ DOMAIN p.ranks = Ranks
    /\ \A k \in Ranks : p.ranks[k].position = p.position

\* restore_prefix: the parts are written rank by rank until one fails, and
\* every device is waited for; `unsynced' are those whose wait fails.
RestorePrefix(id, failing, unsynced) ==
    /\ Callable
    /\ expected[id] = 0 /\ prefix # NoPrefix
    /\ PrefixFits(prefix)
    /\ LET failed == (IF failing < World THEN 1 ELSE 0) + Cardinality(unsynced)
       IN /\ faults + failed <= MaxFaults
          /\ faults' = faults + failed
    /\ calls' = calls + 1
    /\ result' = IF failing < World \/ unsynced # {} THEN "error" ELSE "ok"
    /\ working' = [k \in Ranks |-> IF Reached(failing, k)
                      THEN [working[k] EXCEPT ![id] = prefix.ranks[k].position]
                      ELSE working[k]]
    /\ expected' = IF result' = "ok" THEN [expected EXCEPT ![id] = prefix.position] ELSE expected
    /\ busy' = (busy \cap unsynced) \cup {k \in unsynced : k <= failing}
    /\ UNCHANGED <<cache, host, pc, threads, prefix, records, delta>>

----------------------------------------------------------------------------
(* Prefixes outside the cache. *)

\* encode_prefix: every rank's part under its own identity.
EncodePrefix ==
    /\ pc = "idle" /\ prefix # NoPrefix
    /\ records' = records \cup {[model |-> Model, position |-> prefix.position,
                                 ranks |-> prefix.ranks]}
    /\ UNCHANGED <<cache, host, working, expected, pc, result, calls, threads, busy,
                   prefix, delta, faults>>

\* A rank decodes a part of its own model, world and rank, at the position of
\* the record.
PartDecodes(part, k, position) == part = Part(position, Model, World, k)

\* decode_prefix: a record of another model or world is refused, and so is a
\* part of another rank or position.
DecodePrefix(record) ==
    /\ pc = "idle"
    /\ record.model = Model /\ DOMAIN record.ranks = Ranks
    /\ \A k \in Ranks : PartDecodes(record.ranks[k], k, record.position)
    /\ prefix' = [position |-> record.position, ranks |-> record.ranks]
    /\ UNCHANGED <<cache, host, working, expected, pc, result, calls, threads, busy,
                   records, delta, faults>>

\* export_prefix_tensors and import_prefix_tensors: the merged tensors are cut
\* again, rank by rank, and each part must have the tensors' position.
ImportPrefix(position, failing) ==
    /\ pc = "idle"
    /\ FailsAt(failing)
    /\ prefix' = IF failing = World
                 THEN [position |-> position, ranks |-> Parts([k \in Ranks |-> position])]
                 ELSE prefix
    /\ UNCHANGED <<cache, host, working, expected, pc, result, calls, threads, busy,
                   records, delta>>

----------------------------------------------------------------------------
(* The end of the calls. *)

\* Mutant: only the root's device is waited for.
Waited_Root == {0}

\* sync_batch: every rank's device is waited for, failures or not.
Waited == Ranks

\* The caller waits for the devices, then keeps or drops the fork.
End ==
    /\ pc = "open"
    /\ pc' = "idle"
    /\ busy' = busy \ Waited
    /\ cache' = IF result = "ok" THEN working ELSE cache
    /\ host' = IF result = "ok" THEN expected ELSE host
    /\ UNCHANGED <<working, expected, result, calls, threads, prefix, records, delta, faults>>

\* A device that cannot be waited for leaves the batch in flight for good.
EndFails(k) ==
    /\ pc = "open"
    /\ faults < MaxFaults /\ faults' = faults + 1
    /\ pc' = "stuck"
    /\ busy' = busy \cap {k}
    /\ UNCHANGED <<cache, host, working, expected, result, calls, threads, prefix,
                   records, delta>>

\* retain_batch_cache: a finished request leaves every rank's cache.
Retain(id) ==
    /\ pc = "idle" /\ host[id] > 0
    /\ cache' = [k \in Ranks |-> [cache[k] EXCEPT ![id] = 0]]
    /\ host' = [host EXCEPT ![id] = 0]
    /\ UNCHANGED <<working, expected, pc, result, calls, threads, busy, prefix,
                   records, delta, faults>>

Next ==
    \/ Fork
    \/ \E id \in Ids, count \in 1..2 : ForwardCall(id, count)
    \/ \E k \in Ranks : RankRun(k)
    \/ \E k \in Ranks, grown \in BOOLEAN : RankFails(k, grown)
    \/ Collective
    \/ \E k \in Ranks : RankAborted(k)
    \/ \E k \in Ranks : RankFailsLate(k)
    \/ \E k \in Ranks : RankSync(k)
    \/ \E k \in Ranks : RankSyncFails(k)
    \/ Join
    \/ \E failing \in 0..World : BeginSpeculation(failing)
    \/ \E id \in Ids, start \in 0..MaxLength, failing \in 0..World :
          CaptureDelta(id, start, failing)
    \/ \E id \in Ids, position \in 0..MaxLength, failing \in 0..World :
          Truncate(id, position, failing)
    \/ \E id \in Ids, failing \in 0..World : AppendDelta(id, failing)
    \/ \E id \in Ids, failing \in 0..World : CapturePrefix(id, failing)
    \/ \E id \in Ids, failing \in 0..World, unsynced \in SUBSET Ranks :
          RestorePrefix(id, failing, unsynced)
    \/ EncodePrefix
    \/ \E record \in records : DecodePrefix(record)
    \/ \E position \in 1..MaxLength, failing \in 0..World : ImportPrefix(position, failing)
    \/ End
    \/ \E k \in Ranks : EndFails(k)
    \/ \E id \in Ids : Retain(id)

\* Threads run, ruCCL ends or fails its collectives, and the caller joins.
Fairness ==
    /\ \A k \in Ranks : WF_vars(RankRun(k)) /\ WF_vars(RankAborted(k)) /\ WF_vars(RankSync(k))
    /\ WF_vars(Collective)
    /\ WF_vars(Join)

Spec == Init /\ [][Next]_vars /\ Fairness

----------------------------------------------------------------------------
(* Properties. *)

\* Whatever ranks failed and wherever they stopped, the cache that the group
\* keeps holds on every rank exactly the tokens the scheduler counts: a forward,
\* a restore or a speculative edit that took effect on some ranks only is gone.
RanksAgree ==
    \A k \in Ranks, id \in Ids : cache[k][id] = host[id]

\* A group prefix that can be restored is the same prefix on every rank: each
\* part is this group's, of its rank, and at the position the prefix claims.
PrefixWhole ==
    prefix # NoPrefix =>
        /\ DOMAIN prefix.ranks = Ranks
        /\ \A k \in Ranks : prefix.ranks[k] = Part(prefix.position, Model, World, k)

\* When the caller commits or rolls back, which frees pages for reuse, no rank's
\* device is still running kernels of the batch and no thread of it is left.
PagesIdle ==
    pc = "idle" => busy = {} /\ \A k \in Ranks : thread[k] = "none"

\* A forward ends, also when ranks give up before or after the collective.
ForwardReturns == (pc = "forward") ~> (pc # "forward")

=============================================================================
