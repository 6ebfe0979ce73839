----------------------------- MODULE RankLoading -----------------------------
(***************************************************************************)
(* Loading one checkpoint into a group of ranks: the tensor-parallel       *)
(* loaders of Llama/Qwen2, Qwen3 and Qwen3.5 and the expert-parallel       *)
(* loader of DeepSeek-V2 (llama/parallel.rs, qwen3.rs, qwen35/parallel/,   *)
(* deepseek2.rs).  Each rank opens the checkpoint again, cuts its part out *)
(* of every projection, keeps or drops the bias and accounts for every     *)
(* tensor name; the sum the ranks later reduce must be the full model.     *)
(*                                                                         *)
(* Data abstraction: an index range is a pair <<first, end>>; a tensor is  *)
(* its name <<layer, projection, expert>>; a wrong shape or dtype is a     *)
(* tensor that cannot be read, the same as a missing one.  A unit of an    *)
(* FP8 block stands for the 16 rows (32 columns) the format asks for.      *)
(***************************************************************************)
EXTENDS Integers, Sequences, FiniteSets, TLC

CONSTANTS Configs,     \* model configurations
          DeviceLists, \* device lists a caller may pass
          Stray,       \* tensor names no configuration knows
          NextN        \* names of the auxiliary (MTP) layers

VARIABLES config, devices, tensors,
          eosFile,     \* the EOS list generation_config.json holds now
          phase,       \* "validate" "loading" "loaded" "refused"
          ranks,       \* the ranks loaded so far
          eos          \* {} or {the EOS list of the ranks loaded so far}

vars == <<config, devices, tensors, eosFile, phase, ranks, eos>>

World == Len(devices)

Layers == 0..1

Divides(n, d) == d # 0 /\ n % d = 0

\* The integers of first..end.
Cells(range) == range[1]..(range[2] - 1)

Block(size, rank) == <<rank * size, (rank + 1) * size>>

Sparse(c) == c.sparse # {}

Dense(c) == c.sparse # Layers

-----------------------------------------------------------------------------
(* Which rows and columns a rank holds. *)

\* Mutant: replicated KV heads are dealt round robin.
kv_range_RoundRobin(c, w, rank) ==
    IF w <= c.kv THEN Block((c.kv \div w) * c.width, rank)
    ELSE Block(c.width, rank % c.kv)

\* Llama/Qwen2: consecutive KV heads, or one head shared by w / kv ranks.
kv_range(c, w, rank) ==
    IF w <= c.kv THEN Block((c.kv \div w) * c.width, rank)
    ELSE Block(c.width, rank \div (w \div c.kv))

\* Qwen3: the same through widths instead of head counts.
kv(c, w, rank) ==
    IF w <= c.kv THEN Block((c.kv * c.width) \div w, rank)
    ELSE Block(c.width, rank \div (w \div c.kv))

\* Qwen3.5: one helper for query, key, value and recurrent heads.
shard(heads, width, rank, w) ==
    IF w <= heads THEN Block((heads \div w) * width, rank)
    ELSE Block(width, rank \div (w \div heads))

\* Qwen3.5 feed-forward columns.
interval(width, rank, w) == Block(width \div w, rank)

\* A part of a projection: rows of the output, columns of the input, its bias.
Part(out, in, bias) == [out |-> out, in |-> in, bias |-> bias]

Whole(c) == <<0, c.hidden>>

\* A row-parallel projection is summed over the ranks: only rank 0 adds its bias.
RowBias(rank) == rank = 0

Mlp(c, range) ==
    [gate |-> Part(<<range>>, Whole(c), FALSE), up |-> Part(<<range>>, Whole(c), FALSE),
     down |-> Part(<<Whole(c)>>, range, FALSE)]

\* The experts of Qwen3.5 may be stacked: gate and up are the two halves of one
\* matrix, so the rows of up start after the full width of gate.
Experts(c, range) ==
    IF ~c.stacked THEN Mlp(c, range)
    ELSE [Mlp(c, range) EXCEPT !.up = Part(<<<<c.ff + range[1], c.ff + range[2]>>>>, Whole(c), FALSE)]

\* The rank of Llama/Qwen2: biases only on q, k and v (Qwen2).
load_rank_llama(c, w, rank) ==
    LET query == Block((c.heads \div w) * c.width, rank)
        keys == kv_range(c, w, rank)
        ff == Block(c.ff \div w, rank)
    IN [parts |-> [q |-> Part(<<query>>, Whole(c), c.bias), k |-> Part(<<keys>>, Whole(c), c.bias),
                   v |-> Part(<<keys>>, Whole(c), c.bias), o |-> Part(<<Whole(c)>>, query, FALSE)]
                  @@ Mlp(c, ff),
        heads |-> c.heads \div w, kv |-> IF c.kv \div w = 0 THEN 1 ELSE c.kv \div w,
        experts |-> c.experts]

\* The rank of Qwen3: every expert is split like the dense feed-forward.
load_rank_qwen3(c, w, rank) ==
    LET query == Block((c.heads * c.width) \div w, rank)
        keys == kv(c, w, rank)
        ff == Block(c.ff \div w, rank)
    IN [parts |-> [q |-> Part(<<query>>, Whole(c), c.bias), k |-> Part(<<keys>>, Whole(c), c.bias),
                   v |-> Part(<<keys>>, Whole(c), c.bias),
                   o |-> Part(<<Whole(c)>>, query, c.bias /\ RowBias(rank))]
                  @@ Mlp(c, ff),
        heads |-> c.heads \div w, kv |-> IF c.kv \div w = 0 THEN 1 ELSE c.kv \div w,
        experts |-> c.experts]

\* Qwen3.5 recurrent layers: queries, keys and values side by side in one projection.
channels(c, w, rank) ==
    LET keys == c.lk * c.width
        key == shard(c.lk, c.width, rank, w)
        value == shard(c.lv, c.width, rank, w)
    IN <<key, <<keys + key[1], keys + key[2]>>, <<2 * keys + value[1], 2 * keys + value[2]>>>>

\* The rank of Qwen3.5: gated queries are twice as wide as the heads.
load_rank_qwen35(c, w, rank) ==
    LET query == shard(c.heads, c.width, rank, w)
        keys == shard(c.kv, c.width, rank, w)
        value == shard(c.lv, c.width, rank, w)
        ff == interval(c.ff, rank, w)
    IN [parts |-> [q |-> Part(<<shard(c.heads, 2 * c.width, rank, w)>>, Whole(c), c.bias),
                   k |-> Part(<<keys>>, Whole(c), c.bias), v |-> Part(<<keys>>, Whole(c), c.bias),
                   o |-> Part(<<Whole(c)>>, query, c.bias /\ RowBias(rank)),
                   qkv |-> Part(channels(c, w, rank), Whole(c), FALSE),
                   z |-> Part(<<value>>, Whole(c), FALSE),
                   out |-> Part(<<Whole(c)>>, value, FALSE)]
                  @@ Experts(c, ff),
        heads |-> c.heads \div w, kv |-> IF c.kv \div w = 0 THEN 1 ELSE c.kv \div w,
        experts |-> c.experts]

\* DeepSeek-V2: consecutive experts.
owned(c, w, rank) == {e \in c.experts : e \div (Cardinality(c.experts) \div w) = rank}

\* The rank of DeepSeek-V2: attention, dense layers and shared experts replicated.
load_layer_mla(c, w, rank) ==
    LET query == <<0, c.heads * c.width>>
    IN [parts |-> [q |-> Part(<<query>>, Whole(c), FALSE), o |-> Part(<<Whole(c)>>, query, c.bias)]
                  @@ Mlp(c, <<0, c.ff>>),
        heads |-> c.heads, kv |-> c.kv, experts |-> owned(c, w, rank)]

load_rank(c, w, rank) ==
    CASE c.family = "llama" -> load_rank_llama(c, w, rank)
      [] c.family = "qwen3" -> load_rank_qwen3(c, w, rank)
      [] c.family = "qwen35" -> load_rank_qwen35(c, w, rank)
      [] OTHER -> load_layer_mla(c, w, rank)

-----------------------------------------------------------------------------
(* Which configurations a group accepts. *)

KvGroups(c, w) == Divides(c.kv, w) \/ Divides(w, c.kv)

\* Llama/Qwen2, before the first rank.
validate_llama(c, w) == Divides(c.heads, w) /\ Divides(c.ff, w) /\ KvGroups(c, w)

\* Qwen3, in every rank: the dense width only if a layer is dense, the expert
\* width only if one is sparse (one width stands for both here).
validate_qwen3(c, w) ==
    /\ Divides(c.heads, w)
    /\ Dense(c) => Divides(c.ff, w)
    /\ Sparse(c) => Divides(c.ff, w)
    /\ KvGroups(c, w)

\* Qwen3.5, before the first rank.
validate_qwen35(c, w) ==
    /\ Divides(c.ff, w) /\ Divides(c.heads, w) /\ KvGroups(c, w)
    /\ Divides(c.lv, w) /\ (Divides(c.lk, w) \/ Divides(w, c.lk))

\* DeepSeek-V2, before the first rank.
validate_mla(c, w) == Divides(Cardinality(c.experts), w)

validate(c, w) ==
    CASE c.family = "llama" -> validate_llama(c, w)
      [] c.family = "qwen3" -> validate_qwen3(c, w)
      [] c.family = "qwen35" -> validate_qwen35(c, w)
      [] OTHER -> validate_mla(c, w)

\* An FP8 part starts on a scale block; its columns end on one or at the edge.
check_selection(rows, columns, input, block) ==
    /\ rows[1] < rows[2] /\ columns[1] < columns[2]
    /\ rows[1] % block = 0 /\ columns[1] % block = 0
    /\ columns[2] = input \/ columns[2] % block = 0

\* The number of columns of a projection of the full model.
Input(c, name) ==
    CASE name = "o" -> c.heads * c.width
      [] name = "out" -> c.lv * c.width
      [] name = "down" -> c.ff
      [] OTHER -> c.hidden

EncodedFits(c, part) ==
    \A name \in c.encoded \cap DOMAIN part :
        \A i \in DOMAIN part[name].out :
            check_selection(part[name].out[i], part[name].in, Input(c, name), c.block)

-----------------------------------------------------------------------------
(* Which tensors a rank accounts for. *)

T(layer, names) == {<<layer, n, -1>> : n \in names}

ExpertTensors(layer, experts) == {<<layer, n, e>> : n \in {"gate", "up", "down"}, e \in experts}

Attention(c, layer) ==
    CASE c.family = "llama" -> {"q", "k", "v", "o"} \cup (IF c.bias THEN {"qb", "kb", "vb"} ELSE {})
      [] c.family = "mla" -> {"q", "kva", "kvnorm", "kvb", "o"} \cup (IF c.bias THEN {"kvab", "ob"} ELSE {})
      [] c.family = "qwen35" /\ layer \in c.linear -> {"qkv", "z", "a", "b", "out", "conv", "alog", "dt", "lnorm"}
      [] OTHER -> {"q", "k", "v", "o", "qn", "kn"} \cup (IF c.bias THEN {"qb", "kb", "vb", "ob"} ELSE {})

FeedForward(c, layer) ==
    IF layer \notin c.sparse THEN T(layer, {"gate", "up", "down"})
    ELSE (IF c.stacked THEN T(layer, {"gateup", "down"}) ELSE ExpertTensors(layer, c.experts))
         \cup T(layer, {"router"}) \cup
         CASE c.family = "qwen35" -> T(layer, {"sgate", "sharedgate", "sharedup", "shareddown"})
           [] c.family = "mla" -> T(layer, {"sharedgate", "sharedup", "shareddown"})
           [] OTHER -> {}

LmHead == <<-1, "head", -1>>

Needed(c) ==
    T(-1, {"embed", "norm"}) \cup (IF c.tied THEN {} ELSE {LmHead})
    \cup UNION {T(l, Attention(c, l) \cup {"in", "post"}) \cup FeedForward(c, l) : l \in Layers}

\* The experts of other ranks are checked and set aside, not loaded.
exclude_projection(c, rank) ==
    UNION {ExpertTensors(l, c.experts \ rank.experts) : l \in c.sparse}

\* A head that comes with a tied model is compared with the embedding and consumed.
Supplied(c) == IF c.tied THEN {LmHead} \cap tensors ELSE {}

Consumed(c, rank) == (Needed(c) \cup Supplied(c)) \ exclude_projection(c, rank)

\* Auxiliary layers may stay unloaded in the families that know them.
Auxiliary(c) == IF c.family \in {"mla", "qwen35"} THEN NextN ELSE {}

Unused(c, rank) == ((tensors \ Consumed(c, rank)) \ exclude_projection(c, rank)) \ Auxiliary(c)

-----------------------------------------------------------------------------
(* The group loader. *)

Distinct(s) == \A i, j \in DOMAIN s : s[i] = s[j] => i = j

load_parallel ==
    /\ phase = "validate"
    /\ phase' = IF World # 0 /\ Distinct(devices) /\ (config.family = "qwen3" \/ validate(config, World))
                THEN "loading" ELSE "refused"
    /\ UNCHANGED <<config, devices, tensors, eosFile, ranks, eos>>

\* Qwen3 and DeepSeek-V2 read the EOS list once per rank, the others once.
EosStable == config.family \in {"qwen3", "mla"} => eos \subseteq {eosFile}

LoadRank ==
    /\ phase = "loading" /\ Len(ranks) < World
    /\ LET rank == load_rank(config, World, Len(ranks))
       IN IF /\ config.family = "qwen3" => validate(config, World)
             /\ EncodedFits(config, rank.parts)
             /\ Needed(config) \subseteq tensors
             /\ Unused(config, rank) = {}
             /\ EosStable
          THEN /\ ranks' = Append(ranks, rank @@ [eos |-> eosFile, consumed |-> Consumed(config, rank)])
               /\ eos' = IF eos = {} \/ config.family \in {"qwen3", "mla"} THEN {eosFile} ELSE eos
               /\ UNCHANGED phase
          ELSE phase' = "refused" /\ UNCHANGED <<ranks, eos>>
    /\ UNCHANGED <<config, devices, tensors, eosFile>>

Loaded ==
    /\ phase = "loading" /\ Len(ranks) = World
    /\ phase' = "loaded"
    /\ UNCHANGED <<config, devices, tensors, eosFile, ranks, eos>>

\* generation_config.json is replaced while the group loads.
Rewrite ==
    /\ phase = "loading" /\ eosFile = <<2>>
    /\ eosFile' = <<2, 3>>
    /\ UNCHANGED <<config, devices, tensors, phase, ranks, eos>>

Init == /\ config \in Configs
        /\ devices \in DeviceLists
        /\ tensors \in {Needed(config)} \cup {Needed(config) \ {t} : t \in Needed(config)}
                        \cup {Needed(config) \cup {t} : t \in Stray \cup NextN \cup {LmHead}}
        /\ eosFile = <<2>> /\ phase = "validate" /\ ranks = <<>> /\ eos = {}

Next == load_parallel \/ LoadRank \/ Loaded \/ Rewrite

Spec == Init /\ [][Next]_vars

-----------------------------------------------------------------------------
\* The ranges the ranks hold of a projection's split axis are disjoint and
\* together the whole axis.
Partition(of(_), size) ==
    /\ UNION {Cells(of(i)) : i \in 1..World} = 0..(size - 1)
    /\ \A i, j \in 1..World : i # j => Cells(of(i)) \cap Cells(of(j)) = {}

\* The sum the ranks reduce is the output of the whole model: every query head,
\* every feed-forward column and every value head is added exactly once, a bias of
\* a summed projection once, and an expert split over ranks by exactly one of them.
SumExact ==
    phase = "loaded" =>
        IF config.family = "mla"
        THEN /\ \A e \in config.experts : Cardinality({i \in 1..World : e \in ranks[i].experts}) = 1
             /\ \A i \in 1..World : ranks[i].parts["o"].bias = config.bias
        ELSE /\ Partition(LAMBDA i : ranks[i].parts["o"].in, config.heads * config.width)
             /\ Partition(LAMBDA i : ranks[i].parts["down"].in, config.ff)
             /\ \A i \in 1..World : /\ ranks[i].parts["gate"].out = <<ranks[i].parts["down"].in>>
                                    /\ {x - (IF config.stacked THEN config.ff ELSE 0) :
                                            x \in Cells(ranks[i].parts["up"].out[1])}
                                         = Cells(ranks[i].parts["down"].in)
                                    /\ ranks[i].experts = config.experts
             /\ Cardinality({i \in 1..World : ranks[i].parts["o"].bias})
                    = IF config.bias /\ config.family # "llama" THEN 1 ELSE 0
             /\ config.family = "qwen35" =>
                    Partition(LAMBDA i : ranks[i].parts["out"].in, config.lv * config.width)

\* The head whose rows start at first.
HeadOf(first, width) == first \div width

\* On its rank every local query head attends, by local counting, the KV head it
\* attends in the whole model, and so do the value heads of a recurrent layer.
PairExact ==
    (phase = "loaded" /\ config.family # "mla") =>
        \A i \in 1..World :
            LET r == ranks[i]
                query == HeadOf(r.parts["o"].in[1], config.width)
                key == HeadOf(r.parts["k"].out[1][1], config.width)
            IN /\ \A h \in 0..(r.heads - 1) :
                     key + (h \div (r.heads \div r.kv)) = (query + h) \div (config.heads \div config.kv)
               /\ config.family = "qwen35" =>
                     LET values == config.lv \div World
                         keys == IF config.lk \div World = 0 THEN 1 ELSE config.lk \div World
                         qkv == r.parts["qkv"].out
                         total == config.lk * config.width
                         lk == HeadOf(qkv[1][1], config.width)
                         lv == HeadOf(qkv[3][1] - 2 * total, config.width)
                     IN /\ qkv[2] = <<total + qkv[1][1], total + qkv[1][2]>>
                        /\ Cells(<<qkv[3][1] - 2 * total, qkv[3][2] - 2 * total>>) = Cells(r.parts["out"].in)
                        /\ \A h \in 0..(values - 1) :
                              lk + (h \div (values \div keys)) = (lv + h) \div (config.lv \div config.lk)

\* Every row of an FP8 part is decoded with the scale of the block it came from:
\* counting blocks from the part's first scale row gives the source's blocks.
ScaleExact ==
    phase = "loaded" =>
        \A i \in 1..World :
            \A name \in config.encoded \cap DOMAIN ranks[i].parts :
                \A n \in DOMAIN ranks[i].parts[name].out :
                    LET rows == ranks[i].parts[name].out[n]
                        columns == ranks[i].parts[name].in
                        b == config.block
                    IN /\ \A x \in Cells(rows) : (rows[1] \div b) + ((x - rows[1]) \div b) = x \div b
                       /\ \A y \in Cells(columns) : (columns[1] \div b) + ((y - columns[1]) \div b) = y \div b

\* A group that loaded has used every tensor of the checkpoint on some rank,
\* auxiliary layers aside, and every rank was given every tensor it needs.
NothingIgnored ==
    phase = "loaded" =>
        /\ tensors \ NextN = UNION {ranks[i].consumed : i \in 1..World} \ NextN
        /\ (tensors \cap NextN = {}) \/ config.family \in {"mla", "qwen35"}

\* The EOS list the group reports is the one every rank was loaded with.
EosAgrees ==
    (phase = "loaded" /\ config.family \in {"qwen3", "mla"}) =>
        \A i \in 1..World : {ranks[i].eos} = eos
=============================================================================
