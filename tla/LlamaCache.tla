----------------------------- MODULE LlamaCache -----------------------------
(***************************************************************************)
(* The dense KV cache of the Llama family (llama.rs): a buffer per layer,   *)
(* grown by concatenation on the portable path and geometrically in place   *)
(* on the native one, shared by the forks of a cache (a clone copies the    *)
(* tensor's handle, not its memory), and rolled back by cutting the length. *)
(*                                                                          *)
(* A cell holds the token whose key and value were computed into it; keys   *)
(* and values take the same steps and are one buffer here.  The tensor      *)
(* library is external: slice_assign writes in place when it holds the only *)
(* handle and into a copy otherwise; the fused QKV kernel writes through a  *)
(* copy of the handle into the buffer itself, shared or not.                *)
(***************************************************************************)
EXTENDS Naturals, Sequences, FiniteSets

CONSTANTS
    Layers,            \* number of layers
    MaxSequence,       \* max_sequence_length
    InitialCapacity,   \* INITIAL_CAPACITY
    FlashMin,          \* FLASH_PREFILL_MIN_SEQUENCE
    Window,            \* the sliding window, 0 for none
    Paths,             \* the ways to append: portable, growable, fused
    ForkedPaths,       \* those whose caches are captured as a prefix and continued
    MaxAppend          \* bound on the tokens of one forward

Caches == {"main", "fork"}

\* A layer has as many buffers as there are caches at most; one that only its
\* layer holds is replaced under its own handle.
Handles == 1..(2 * Layers)

Junk == "junk"   \* a cell no kernel has written

VARIABLES
    store,     \* handle -> the cells of its buffer
    path,      \* the path this model's forwards take
    cache,     \* cache -> [live, position, layers]: the cache as the code keeps it
    history,   \* cache -> the tokens its forwards were given, rollbacks undone
    logits     \* what the last forward was computed from: [cache, seen, asked]

vars == <<store, path, cache, history, logits>>

NoLayer == [handle |-> 0, length |-> 0, capacity |-> 0]

Fresh == [live |-> TRUE, position |-> 0, layers |-> [l \in 1..Layers |-> NoLayer]]

Gone == [Fresh EXCEPT !.live = FALSE]

NoLogits == [cache |-> "none", seen |-> <<>>, asked |-> <<>>]

Holders(c, s) ==
    {<<d, l>> \in Caches \X (1..Layers) : c[d].live /\ c[d].layers[l].handle = s}

Shared(c, s) == Cardinality(Holders(c, s)) > 1

FreeHandle(c, l) == CHOOSE s \in {2 * l - 1, 2 * l} : Holders(c, s) = {}

Fill(n) == [i \in 1..n |-> Junk]

Written(cells, start, tokens) ==
    [i \in 1..Len(cells) |->
        IF i > start /\ i <= start + Len(tokens) THEN tokens[i - start] ELSE cells[i]]

----------------------------------------------------------------------------
(* One layer.  Each operator returns the layer, the buffer it now uses and   *)
(* the cells that attention reads.                                           *)

\* append: the logical prefix and the new rows are concatenated.
Concatenate(layer, cells, tokens) ==
    LET whole == SubSeq(cells, 1, layer.length) \o tokens
    IN [length |-> Len(whole), capacity |-> Len(whole), cells |-> whole, seen |-> whole]

\* The capacity after geometric growth that reaches `end'.
Doubled[capacity \in Nat, end \in Nat] ==
    IF capacity >= end THEN capacity ELSE Doubled[2 * capacity, end]

Grown(capacity, end) ==
    LET doubled == Doubled[IF capacity < InitialCapacity THEN InitialCapacity ELSE capacity, end]
    IN IF doubled > MaxSequence THEN MaxSequence ELSE doubled

\* reserve_growable: a larger buffer takes over the logical prefix.
Reserve(layer, cells, end) ==
    IF layer.capacity >= end THEN [capacity |-> layer.capacity, cells |-> cells]
    ELSE LET capacity == Grown(layer.capacity, end)
         IN [capacity |-> capacity,
             cells |-> Written(Fill(capacity), 0, SubSeq(cells, 1, layer.length))]

\* append_growable, and the fused kernel between reserve and commit.
AppendGrowable(layer, cells, tokens) ==
    LET end == layer.length + Len(tokens)
        room == Reserve(layer, cells, end)
        filled == Written(room.cells, layer.length, tokens)
    IN [length |-> end, capacity |-> room.capacity, cells |-> filled,
        seen |-> SubSeq(filled, 1, end)]

\* Mutant: the rows are written into the buffer that a fork shares.
Target_InPlace(c, layer, l, grows) ==
    IF layer.handle = 0 THEN FreeHandle(c, l) ELSE layer.handle

\* The buffer a layer ends up in: concatenation and growth make a new one,
\* slice_assign copies the one it shares, and the fused kernel copies nothing.
Target(c, layer, l, grows) ==
    IF layer.handle = 0 \/ (Shared(c, layer.handle) /\ (path # "fused" \/ grows))
    THEN FreeHandle(c, l) ELSE layer.handle

----------------------------------------------------------------------------
(* Attention. *)

\* causal_attention_mask_windowed: the keys a query position may look at.
Masked(p) == {k \in 0..p : Window > 0 => k + Window > p}

\* Long prompts, and contexts longer than the window, take the tiled kernel.
Tiled(count, end) == (count > 1 /\ count >= FlashMin) \/ (Window > 0 /\ end > Window)

\* The keys that query position p reads.
Read(count, end, p) ==
    IF path = "portable" \/ Tiled(count, end) THEN Masked(p) ELSE 0..p

----------------------------------------------------------------------------

Init ==
    /\ path \in Paths
    /\ store = [s \in Handles |-> <<>>]
    /\ cache = [c \in Caches |-> IF c = "main" THEN Fresh ELSE Gone]
    /\ history = [c \in Caches |-> <<>>]
    /\ logits = NoLogits

\* One layer of cache c in the states s and k of store and cache.
LayerStep(s, k, c, l, tokens) ==
    LET layer == k[c].layers[l]
        cells == IF layer.handle = 0 THEN <<>> ELSE s[layer.handle]
        after == IF path = "portable" THEN Concatenate(layer, cells, tokens)
                 ELSE AppendGrowable(layer, cells, tokens)
        handle == Target(k, layer, l, after.capacity # layer.capacity)
    IN [cache |-> [k EXCEPT ![c].layers[l] = [handle |-> handle, length |-> after.length,
                                             capacity |-> after.capacity]],
        store |-> [s EXCEPT ![handle] = after.cells],
        seen |-> after.seen]

\* The layers up to `last' in turn.
Run(c, tokens, last) ==
    LET f[l \in 0..Layers] ==
          IF l = 0 THEN [cache |-> cache, store |-> store, seen |-> <<>>]
          ELSE LET before == f[l - 1]
                   step == LayerStep(before.store, before.cache, c, l, tokens)
               IN [step EXCEPT !.seen = Append(before.seen, step.seen)]
    IN f[last]

\* The assertions of a forward: the positions that are left, and layers that
\* have all come to the cache's position.
Admitted(c, count) ==
    /\ cache[c].live
    /\ cache[c].position + count <= MaxSequence
    /\ \A l \in 1..Layers : cache[c].layers[l].length = cache[c].position

\* Buffers that no cache holds are given back.
Kept(k, s) == [h \in Handles |-> IF Holders(k, h) = {} THEN <<>> ELSE s[h]]

\* forward_cached_last and forward_cached_last_ruda.
Forward(c, tokens) ==
    /\ Admitted(c, Len(tokens))
    /\ UNCHANGED path
    /\ LET done == Run(c, tokens, Layers)
           end == cache[c].position + Len(tokens)
       IN /\ cache' = [done.cache EXCEPT ![c].position = end]
          /\ store' = Kept(cache', done.store)
          /\ history' = [history EXCEPT ![c] = @ \o tokens]
          /\ logits' = [cache |-> c, seen |-> done.seen,
                        asked |-> [i \in 1..Len(tokens) |->
                                     Read(Len(tokens), end, end - Len(tokens) + i - 1)]]

\* A forward that panics behind a layer leaves the layers before it advanced and
\* the cache's position where it was; later forwards and rollbacks refuse it.
ForwardPanics(c, tokens, last) ==
    /\ Admitted(c, Len(tokens))
    /\ UNCHANGED path
    /\ LET done == Run(c, tokens, last)
       IN /\ cache' = done.cache
          /\ store' = Kept(cache', done.store)
    /\ logits' = NoLogits
    /\ UNCHANGED history

\* A clone of the cache: prefilled_prompt, from which another session continues,
\* and fork_cache of the speculative loop.
Fork ==
    /\ ~cache["fork"].live
    /\ path \in ForkedPaths
    /\ cache' = [cache EXCEPT !["fork"] = cache["main"]]
    /\ history' = [history EXCEPT !["fork"] = history["main"]]
    /\ logits' = NoLogits
    /\ UNCHANGED <<store, path>>

\* The branch that is kept replaces the cache, the other one is dropped: the end
\* of a session, or the rollback of a rejected draft.
Settle(c) ==
    /\ cache["fork"].live
    /\ cache' = [d \in Caches |-> IF d = "main" THEN cache[c] ELSE Gone]
    /\ history' = [d \in Caches |-> IF d = "main" THEN history[c] ELSE <<>>]
    /\ store' = Kept(cache', store)
    /\ logits' = NoLogits
    /\ UNCHANGED path

\* truncate: a rollback cuts the lengths and leaves the buffers alone.
Truncate(c, position) ==
    /\ cache[c].live
    /\ position < cache[c].position
    /\ \A l \in 1..Layers : cache[c].layers[l].length = cache[c].position
    /\ cache' = [cache EXCEPT ![c].position = position,
                              ![c].layers = [l \in 1..Layers |->
                                  [cache[c].layers[l] EXCEPT !.length = position]]]
    /\ history' = [history EXCEPT ![c] = SubSeq(@, 1, position)]
    /\ logits' = NoLogits
    /\ UNCHANGED <<store, path>>

\* Each branch writes a token of its own, so that the writes of the two, and the
\* rows that a branch left behind when it was settled, can be told apart.
Inputs(c) == {[i \in 1..n |-> c] : n \in 1..MaxAppend}

Next ==
    \/ \E c \in Caches : \E tokens \in Inputs(c) : Forward(c, tokens)
    \/ \E c \in Caches : \E tokens \in Inputs(c), last \in 1..(Layers - 1) :
          ForwardPanics(c, tokens, last)
    \/ Fork
    \/ \E c \in Caches : Settle(c)
    \/ \E c \in Caches, position \in 0..MaxSequence : Truncate(c, position)

Spec == Init /\ [][Next]_vars

----------------------------------------------------------------------------
(* Properties. *)

Lockstep(c) == \A l \in 1..Layers : cache[c].layers[l].length = cache[c].position

\* Whatever grew, was forked, written in place or rolled back in between, a
\* usable cache holds in every layer exactly the tokens it was given: no write
\* of the other branch, no row from before a rollback, no cell never written.
ContentExact ==
    \A c \in Caches :
        (cache[c].live /\ Lockstep(c)) =>
            /\ Len(history[c]) = cache[c].position
            /\ \A l \in 1..Layers :
                  cache[c].position > 0 =>
                      SubSeq(store[cache[c].layers[l].handle], 1, cache[c].position) = history[c]

\* A forward attends to the tokens of its own branch, in every layer, and each
\* new position to those of the window behind it and to no other, whichever
\* kernel the lengths choose.
AttentionExact ==
    logits # NoLogits =>
        LET tokens == history[logits.cache]
            first == Len(tokens) - Len(logits.asked)
        IN /\ \A l \in 1..Layers : logits.seen[l] = tokens
           /\ \A i \in 1..Len(logits.asked) :
                 logits.asked[i] = {k \in 0..(first + i - 1) :
                                       Window = 0 \/ first + i - 1 - k < Window}

\* A buffer is as long as the layer believes, holds the layer's tokens and never
\* more positions than the model has.
CapacityBounded ==
    \A c \in Caches, l \in 1..Layers :
        LET layer == cache[c].layers[l]
        IN (cache[c].live /\ layer.handle # 0) =>
              /\ Len(store[layer.handle]) = layer.capacity
              /\ layer.length <= layer.capacity
              /\ layer.capacity <= MaxSequence

=============================================================================
