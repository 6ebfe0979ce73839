------------------------------ MODULE RankGroup ------------------------------
(***************************************************************************)
(* One forward pass on a group of ranks: the tensor-parallel groups of     *)
(* Llama/Qwen2, Qwen3 and Qwen3.5 and the expert-parallel group of         *)
(* DeepSeek-V2.  A call checks the caches of all ranks, starts a thread    *)
(* per rank, the threads meet in all-reduces inside the layers, and the    *)
(* call returns when all have been joined.  A rank may fail or panic at    *)
(* any point of its own work.  Caches are captured into records and        *)
(* restored from them, in another process perhaps.                         *)
(*                                                                         *)
(* Data abstraction: the caller has one text and its token at position i   *)
(* is i, so a layer's history is a sequence of integers; a shard carries   *)
(* the rank it was computed for.  The all-reduce belongs to ruCCL: it      *)
(* completes when every rank has entered one, and is assumed to fail in    *)
(* the waiting ranks when a rank has left.                                 *)
(***************************************************************************)
EXTENDS Integers, Sequences, FiniteSets

CONSTANTS Kinds,     \* subset of {"llama", "qwen3", "qwen35", "ep"}
          Shape,     \* per kind, the layers: "full" "delta" "dense" "sparse"
          Models,    \* model identities
          MaxWorld,  \* bound: ranks of a group
          Capacity,  \* max_position_embeddings
          MaxBlock,  \* bound: tokens of one call
          Rows,      \* batch sizes a caller asks for
          MaxCalls, MaxFaults, MaxRestarts   \* bounds

VARIABLES group,     \* [kind, model, world]
          cache,     \* rank -> [layers, position, batch]; a layer is [h, rows, of], of the ranks it was computed by
          phase,     \* "idle" "running"
          call,      \* [block, rows, busy, faulted]
          th,        \* rank -> [pc, layer]
          result,    \* "none" "ok" "refused" "failed"
          trusted,   \* FALSE after a failure of a model whose cache cannot show it
          saved,     \* {} or {a captured record: [ranks]}
          calls, faults, restarts

vars == <<group, cache, phase, call, th, result, trusted, saved, calls, faults, restarts>>

Ranks == 1..group.world

Layers(g) == 1..Len(Shape[g.kind])

Identity(g, r) == <<g.model, g.kind, g.world, r>>

NoCall == [block |-> <<>>, rows |-> 1, busy |-> <<>>, faulted |-> FALSE]

NewLayer == [h |-> <<>>, rows |-> 0, of |-> {}]

\* The storage was taken out of the layer and not put back.
Taken == -1

NewCache(g) == [r \in 1..g.world |->
                   [layers |-> [l \in Layers(g) |-> NewLayer], position |-> 0, batch |-> 0]]

NewThread(g) == [r \in 1..g.world |-> [pc |-> "start", layer |-> 1]]

Text(n) == [i \in 1..n |-> i]

\* generation_position: that of rank 0
Position == cache[1].position

Split == group.kind # "ep"

-----------------------------------------------------------------------------
(* What a call demands of the caches. *)

Fits(n) == n > 0 /\ Position + n <= Capacity

SamePositions == \A r \in Ranks : cache[r].position = Position

\* Llama/Qwen2: any batch, the one the cache was started with.
Accepts_llama(n, rows) ==
    /\ rows > 0 /\ Fits(n) /\ SamePositions
    /\ \A r \in Ranks : \A l \in Layers(group) :
          LET layer == cache[r].layers[l]
          IN /\ Len(layer.h) = Position
             /\ IF layer.rows = 0 THEN Position = 0 ELSE layer.rows = rows

Accepts_qwen3(n, rows) ==
    /\ rows = 1 /\ Fits(n) /\ SamePositions
    /\ \A r \in Ranks : \A l \in Layers(group) : Len(cache[r].layers[l].h) = Position

\* DeepseekV2Cache::compatible: a layer whose storage is gone is not.
compatible(r) ==
    \A l \in Layers(group) :
        LET layer == cache[r].layers[l]
        IN /\ Len(layer.h) = cache[r].position /\ layer.rows # Taken
           /\ layer.rows = 0 => cache[r].position = 0

Accepts_ep(n, rows) ==
    /\ rows = 1 /\ Fits(n) /\ SamePositions
    /\ \A r \in Ranks : compatible(r)

\* Qwen3.5: a recurrent layer has no length to compare.
Accepts_qwen35(n, rows) ==
    /\ rows > 0 /\ Fits(n) /\ SamePositions
    /\ \A r \in Ranks :
          /\ cache[r].batch = rows \/ (Position = 0 /\ cache[r].batch = 0)
          /\ \A l \in Layers(group) :
                LET layer == cache[r].layers[l]
                IN IF layer.rows = 0 THEN Position = 0
                   ELSE Shape[group.kind][l] = "full" => layer.rows = rows /\ Len(layer.h) = Position

Accepts(n, rows) ==
    CASE group.kind = "llama" -> Accepts_llama(n, rows)
      [] group.kind = "qwen3" -> Accepts_qwen3(n, rows)
      [] group.kind = "ep" -> Accepts_ep(n, rows)
      [] OTHER -> Accepts_qwen35(n, rows)

\* The caller feeds its text from the position of the cache.  "A model failure
\* must be recovered from its previous completed record" (Qwen3.5).
forward_block ==
    /\ phase = "idle" /\ trusted /\ calls < MaxCalls
    /\ calls' = calls + 1
    /\ \E n \in 0..MaxBlock, rows \in Rows :
         IF Accepts(n, rows)
         THEN /\ phase' = "running" /\ result' = "none" /\ th' = NewThread(group)
              /\ \E busy \in [{l \in Layers(group) : Shape[group.kind][l] = "sparse"} -> SUBSET Ranks \ {{}}] :
                    call' = [block |-> [i \in 1..n |-> Position + i], rows |-> rows, busy |-> busy, faulted |-> FALSE]
         ELSE result' = "refused" /\ UNCHANGED <<phase, call, th>>
    /\ UNCHANGED <<group, cache, trusted, saved, faults, restarts>>

-----------------------------------------------------------------------------
(* The thread of a rank. *)

At(r, pcs) == phase = "running" /\ th[r].pc \in pcs

Move(r, pc, layer) == th' = [th EXCEPT ![r] = [pc |-> pc, layer |-> layer]]

Quiet == UNCHANGED <<group, phase, result, trusted, saved, calls, restarts>>

\* What the rank's own model checks again.
RankAccepts(r) ==
    group.kind = "llama" \/ cache[r].position + Len(call.block) <= Capacity

RankStart(r) ==
    /\ At(r, {"start"})
    /\ Move(r, IF RankAccepts(r) THEN "attend" ELSE "left", 1)
    /\ UNCHANGED <<cache, call, faults>> /\ Quiet

\* The attention or recurrence of a layer appends the block to its cache.
Attend(r) ==
    LET l == th[r].layer
    IN /\ At(r, {"attend"})
       /\ cache' = [cache EXCEPT ![r].layers[l] =
                       [h |-> @.h \o call.block, rows |-> call.rows, of |-> @.of \cup {Identity(group, r)}]]
       /\ Move(r, IF Split THEN "reduce1" ELSE "feed", l)
       /\ UNCHANGED <<call, faults>> /\ Quiet

\* Does the feed-forward end in a reduction?  A rank whose experts got no token
\* still takes part, with zeros.
Reduces(r, l) == Split \/ Shape[group.kind][l] = "sparse"

\* The next layer, or the end of the pass.
After(l) == IF l < Len(Shape[group.kind]) THEN <<"attend", l + 1>> ELSE <<"finish", l>>

Feed(r) ==
    LET l == th[r].layer
    IN /\ At(r, {"feed"})
       /\ IF Reduces(r, l) THEN Move(r, "reduce2", l) ELSE Move(r, After(l)[1], After(l)[2])
       /\ UNCHANGED <<cache, call, faults>> /\ Quiet

\* The position moves only after the last layer.
Finish(r) ==
    /\ At(r, {"finish"})
    /\ cache' = [cache EXCEPT ![r].position = @ + Len(call.block), ![r].batch = call.rows]
    /\ Move(r, "sync", th[r].layer)
    /\ UNCHANGED <<call, faults>> /\ Quiet

Sync(r) ==
    /\ At(r, {"sync"})
    /\ Move(r, "done", th[r].layer)
    /\ UNCHANGED <<cache, call, faults>> /\ Quiet

Waiting == {"reduce1", "reduce2"}

\* An all-reduce completes when every rank is in one.
AllReduce ==
    /\ phase = "running" /\ \A r \in Ranks : th[r].pc \in Waiting
    /\ th' = [r \in Ranks |->
                 IF th[r].pc = "reduce1" THEN [pc |-> "feed", layer |-> th[r].layer]
                 ELSE [pc |-> After(th[r].layer)[1], layer |-> After(th[r].layer)[2]]]
    /\ UNCHANGED <<cache, call, faults>> /\ Quiet

\* The reduction fails in a rank whose peer has left the group.
Abort(r) ==
    /\ At(r, Waiting)
    /\ \E q \in Ranks : th[q].pc = "left"
    /\ Move(r, "left", th[r].layer)
    /\ UNCHANGED <<cache, call, faults>> /\ Quiet

\* A rank fails or panics in its own work, perhaps in the middle of an append.
Fault(r) ==
    /\ At(r, {"start", "attend", "feed", "finish", "sync"}) /\ faults < MaxFaults
    /\ faults' = faults + 1
    /\ call' = [call EXCEPT !.faulted = TRUE]
    /\ Move(r, "left", th[r].layer)
    /\ \/ UNCHANGED cache
       \/ /\ th[r].pc = "attend" /\ group.kind = "ep"
          /\ cache' = [cache EXCEPT ![r].layers[th[r].layer] = [@ EXCEPT !.rows = Taken]]
    /\ Quiet

\* Any error or panic of any rank is the result of the call.
Joined == \A r \in Ranks : th[r].pc = "done"

Join ==
    /\ phase = "running" /\ \A r \in Ranks : th[r].pc \in {"done", "left"}
    /\ phase' = "idle"
    /\ result' = IF Joined THEN "ok" ELSE "failed"
    /\ trusted' = (Joined \/ group.kind # "qwen35")
    /\ UNCHANGED <<group, cache, call, th, saved, calls, faults, restarts>>

-----------------------------------------------------------------------------
(* Records. *)

\* The checks of the rank's own record: LlamaKvCacheRecord, DeepseekV2CacheRecord
\* and Qwen35CacheRecord.
RankRecordable(r) ==
    \A l \in Layers(group) :
        LET layer == cache[r].layers[l]
        IN IF Shape[group.kind][l] = "delta"
           THEN IF layer.rows = 0 THEN cache[r].position = 0 /\ cache[r].batch = 0
                ELSE cache[r].position # 0 /\ cache[r].batch = layer.rows
           ELSE /\ Len(layer.h) = cache[r].position /\ layer.rows # Taken
                /\ layer.rows = 0 => cache[r].position = 0

capture_generation ==
    /\ phase = "idle" /\ trusted
    /\ SamePositions
    /\ group.kind = "qwen35" => \A r \in Ranks : cache[r].batch = cache[1].batch
    /\ \A r \in Ranks : RankRecordable(r)
    /\ saved' = {[id |-> [r \in Ranks |-> Identity(group, r)], ranks |-> cache]}
    /\ UNCHANGED <<group, cache, phase, call, th, result, trusted, calls, faults, restarts>>

Restorable(record, position) ==
    /\ Len(record.ranks) = group.world
    /\ \A r \in Ranks : /\ record.id[r] = Identity(group, r)
                        /\ record.ranks[r].position = position

\* The session asks for the position it has counted itself.
restore_generation ==
    /\ phase = "idle"
    /\ \E record \in saved, position \in 0..Capacity :
          /\ Restorable(record, position)
          /\ cache' = record.ranks
    /\ trusted' = TRUE /\ result' = "none"
    /\ UNCHANGED <<group, phase, call, th, saved, calls, faults, restarts>>

\* Another process: a fresh group, of another model or size perhaps.
Restart ==
    /\ phase = "idle" /\ restarts < MaxRestarts
    /\ restarts' = restarts + 1
    /\ group' \in [kind : Kinds, model : Models, world : 1..MaxWorld]
    /\ cache' = NewCache(group') /\ th' = NewThread(group')
    /\ trusted' = TRUE /\ result' = "none" /\ call' = NoCall
    /\ UNCHANGED <<phase, saved, calls, faults>>

-----------------------------------------------------------------------------
Init == /\ group \in [kind : Kinds, model : Models, world : 1..MaxWorld]
        /\ cache = NewCache(group)
        /\ phase = "idle" /\ call = NoCall /\ th = NewThread(group)
        /\ result = "none" /\ trusted = TRUE /\ saved = {}
        /\ calls = 0 /\ faults = 0 /\ restarts = 0

RankStep(r) == RankStart(r) \/ Attend(r) \/ Feed(r) \/ Finish(r) \/ Sync(r) \/ Abort(r)

Next ==
    \/ forward_block \/ AllReduce \/ Join
    \/ \E r \in Ranks : RankStep(r) \/ Fault(r)
    \/ capture_generation \/ restore_generation \/ Restart

\* Threads run, a complete all-reduce completes, and one that cannot complete
\* fails (the assumption on ruCCL).
Spec == /\ Init /\ [][Next]_vars
        /\ \A r \in 1..MaxWorld : WF_vars(r \in Ranks /\ RankStep(r))
        /\ WF_vars(AllReduce) /\ WF_vars(Join)

-----------------------------------------------------------------------------
\* When a reduction completes, every rank is in the same one: what is added up is
\* the same sublayer of the same layer over the same history.
ReductionsAligned ==
    (phase = "running" /\ \A r \in Ranks : th[r].pc \in Waiting) =>
        \A r \in Ranks : th[r] = th[1] /\ cache[r].layers[th[r].layer].h = cache[1].layers[th[1].layer].h

Whole(layers, position, of) ==
    \A l \in DOMAIN layers : /\ layers[l].h = Text(position)
                             /\ layers[l].of \subseteq {of}

\* A call that returned logits leaves every layer of every rank with exactly the
\* text fed so far, computed by this very group, whatever failed before it.
OkExact ==
    result = "ok" =>
        \A r \in Ranks : /\ cache[r].position = Position
                         /\ Whole(cache[r].layers, Position, Identity(group, r))

\* A record that could be captured is the whole text on every rank.
RecordExact ==
    \A record \in saved : \A r \in DOMAIN record.ranks :
        /\ record.ranks[r].position = record.ranks[1].position
        /\ Whole(record.ranks[r].layers, record.ranks[r].position, record.id[r])

\* The group's check covers what the ranks check: once it has accepted a call, only
\* a fault makes the call fail, so no rank turns back alone before a reduction.
RefusedTogether == result = "failed" => call.faulted

\* Every call returns, also when ranks fail in the middle of it.
CallReturns == (phase = "running") ~> (phase = "idle")
=============================================================================
