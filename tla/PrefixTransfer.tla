--------------------------- MODULE PrefixTransfer ---------------------------
(***************************************************************************)
(* The semantic prefix tensors that move between tensor-parallel groups    *)
(* (prefix_transfer.rs): every rank exports the heads it owns, the shards  *)
(* are merged in any order, travel through the host encoding or as a GPU   *)
(* manifest, and each destination rank cuts out its own head interval.     *)
(* Head h of the global tensor, captured at position p, is the value       *)
(* <<h, p>>; an error result is the empty set, a value v is {v}.           *)
(***************************************************************************)
EXTENDS Integers, SequencesExt, FiniteSetsExt

CONSTANTS Global,     \* [names -> global head count], 0 when replicated (None)
          Worlds,     \* sizes of the exporting and importing groups
          Positions,  \* positions a rank may have captured
          Geometries  \* (global_heads, dtype, rows, width) a rank may export

\* What a configuration must satisfy.
TransferAssumption == Worlds \subseteq Nat \ {0} /\ \A n \in DOMAIN Global : Global[n] \in Nat

VARIABLES tensors,  \* [names -> sequence of fragments]
          position, \* position of the bundle, 0 before the first export
          exported, \* tensors a manifest refers to by their index
          merged    \* history: <<world, rank>> merged so far

vars == <<tensors, position, exported, merged>>

Names == DOMAIN Global

\* PrefixShard.heads: the interval of the global heads this rank owns.
Heads(world, rank, global, local) ==
  LET n == IF global >= world THEN global \div world ELSE 1
      start == IF global >= world THEN rank * n ELSE rank \div (world \div global)
  IN IF global = 0 THEN {<<0, local>>}
     ELSE IF rank < world /\ local = n /\ (global % world = 0 \/ world % global = 0)
     THEN {<<start, start + n>>} ELSE {}

\* Heads the cache of a rank of this world holds.
Local(world, name) ==
  LET g == Global[name] IN IF g = 0 \/ g < world THEN 1 ELSE g \div world

Count(f) == Len(f.data)

Overlap(f, g) == f.start < g.start + Count(g) /\ g.start < f.start + Count(f)

\* Replicas are dropped, partial overlaps refused, the rest sorted by start.
Insert(fs, f) ==
  IF \E i \in DOMAIN fs : fs[i].geometry # f.geometry THEN {}
  ELSE IF \E i \in DOMAIN fs : fs[i].start = f.start /\ Count(fs[i]) = Count(f) THEN {fs}
  ELSE IF \E i \in DOMAIN fs : Overlap(fs[i], f) THEN {}
  ELSE {SortSeq(Append(fs, f), LAMBDA a, b : a.start < b.start)}

InsertAll(fs, more) == FoldLeft(LAMBDA acc, f : UNION {Insert(x, f) : x \in acc}, {fs}, more)

\* The functions that pick, for every name, a result of its set.
Picked(S) ==
  IF \E n \in Names : S[n] = {} THEN {} ELSE {[n \in Names |-> CHOOSE x \in S[n] : TRUE]}

\* The tensors one rank exports.
Export(world, rank, p, geometry) ==
  Picked([n \in Names |->
    {<<[start |-> r[1], geometry |-> geometry, kind |-> "device", id |-> 0,
        data |-> [i \in 1..(r[2] - r[1]) |-> <<r[1] + i - 1, p>>]]>> :
       r \in Heads(world, rank, Global[n], Local(world, n))}])

Merge(into, p, other, q) ==
  IF p # q THEN {} ELSE Picked([n \in Names |-> InsertAll(into[n], other[n])])

\* Receives one piece from a fragment.
Piece(f, lo, hi) ==
  SubSeq(IF f.kind = "remote" THEN exported[f.id] ELSE f.data, lo + 1, hi)

\* One fragment in the loop of tensor().
Step(acc, f, heads) ==
  LET start == Max({f.start, heads[1]})
      end   == Min({f.start + Count(f), heads[2]})
  IN IF start >= end THEN acc
     ELSE IF start # acc.cursor THEN [acc EXCEPT !.ok = FALSE]
     ELSE [cursor |-> end, data |-> acc.data \o Piece(f, start - f.start, end - f.start), ok |-> acc.ok]

\* tensor(): the head interval of one destination rank.
Tensor(name, geometry, heads) ==
  LET r == FoldLeft(LAMBDA acc, f : Step(acc, f, heads),
                    [cursor |-> heads[1], data |-> <<>>, ok |-> TRUE], tensors[name])
  IN IF /\ \A i \in DOMAIN tensors[name] : tensors[name][i].geometry = geometry
        /\ r.ok /\ r.cursor = heads[2] /\ r.data # <<>>
     THEN {r.data} ELSE {}

Init ==
  /\ tensors = [n \in Names |-> <<>>]
  /\ position = 0 /\ exported = <<>> /\ merged = {}

\* A rank captures its prefix: the first bundle.
Capture(world, rank, p, geometry) ==
  /\ position = 0
  /\ \E e \in Export(world, rank, p, geometry) : tensors' = e
  /\ position' = p /\ merged' = {<<world, rank>>}
  /\ UNCHANGED exported

MergeRank(world, rank, p, geometry) ==
  /\ position # 0
  /\ \E e \in Export(world, rank, p, geometry) :
       \E t \in Merge(tensors, position, e, p) : tensors' = t
  /\ merged' = merged \union {<<world, rank>>}
  /\ UNCHANGED <<position, exported>>

\* A failed merge abandons the bundle.
MergeFails(world, rank, p, geometry) ==
  /\ position # 0
  /\ \E e \in Export(world, rank, p, geometry) : Merge(tensors, position, e, p) = {}
  /\ tensors' = [n \in Names |-> <<>>]
  /\ position' = 0 /\ exported' = <<>> /\ merged' = {}

Kinds == UNION {{f.kind : f \in ToSet(tensors[n])} : n \in Names}

\* encode_host, decode_host: every fragment is inserted again.
HostRoundTrip ==
  /\ position # 0 /\ "remote" \notin Kinds
  /\ \E t \in Picked([n \in Names |-> InsertAll(<<>>,
                 [i \in DOMAIN tensors[n] |-> [tensors[n][i] EXCEPT !.kind = "host"]])]) :
       tensors' = t
  /\ UNCHANGED <<position, exported, merged>>

\* Fragments of the names before n, in the order they are listed.
Before(n) == FoldLeft(LAMBDA acc, k : acc + Len(tensors[k]), 0,
                      SelectSeq(SetToSortSeq(Names, LAMBDA a, b : a < b), LAMBDA k : k < n))

\* device_manifest: the index of a fragment in the list of tensors.
Index(n, i) == Before(n) + i

\* device_manifest, from_manifest: the payloads stay with the exporter.
Manifest ==
  /\ position # 0 /\ Kinds = {"device"}
  /\ exported' = FoldLeft(LAMBDA acc, n : acc \o [i \in DOMAIN tensors[n] |-> tensors[n][i].data],
                          <<>>, SetToSortSeq(Names, LAMBDA a, b : a < b))
  /\ \E t \in Picked([n \in Names |-> InsertAll(<<>>, [i \in DOMAIN tensors[n] |->
                 [tensors[n][i] EXCEPT !.kind = "remote", !.id = Index(n, i)]])]) : tensors' = t
  /\ UNCHANGED <<position, merged>>

Next ==
  \/ \E w \in Worlds, p \in Positions, g \in Geometries : \E r \in 0..(w - 1) :
       Capture(w, r, p, g) \/ MergeRank(w, r, p, g) \/ MergeFails(w, r, p, g)
  \/ HostRoundTrip
  \/ Manifest

Spec == Init /\ [][Next]_vars

----------------------------------------------------------------------------
Destinations == {<<w, r>> \in Worlds \X (0..(Max(Worlds) - 1)) : r < w}

Wanted(name, d) == Heads(d[1], d[2], Global[name], Local(d[1], name))

\* ExactSlice: whatever ranks of whatever worlds were merged, in whatever
\* order and through whatever encoding, a destination rank that gets a tensor
\* gets exactly its own heads, in order, all of the bundle's position
\* (insert, merge, tensor).
ExactSlice ==
  position # 0 =>
    \A n \in Names, d \in Destinations, g \in Geometries : \A h \in Wanted(n, d) :
      \A t \in Tensor(n, g, h) : t = [i \in 1..(h[2] - h[1]) |-> <<h[1] + i - 1, position>>]

\* WorldComplete: once every rank of one source world was merged, every
\* destination of every world that the heads divide into gets all its
\* tensors (PrefixShard.heads, tensor).
WorldComplete ==
  \A w \in Worlds :
    (\A r \in 0..(w - 1) : <<w, r>> \in merged) =>
      \A n \in Names, d \in Destinations : \A h \in Wanted(n, d) :
        \E g \in Geometries : Tensor(n, g, h) # {}
=============================================================================
