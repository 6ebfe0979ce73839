------------------------------ MODULE Checkpoint ------------------------------
(***************************************************************************)
(* Opening a safetensors checkpoint (huggingface.rs, huggingface/          *)
(* checkpoint.rs and checkpoint/{encoded,stacked}.rs): the files are       *)
(* discovered through the index, every header entry is admitted or the     *)
(* whole directory refused, and tensors are then cut out of the payloads,  *)
(* whole, along one axis, or as one expert of a stacked tensor.            *)
(*                                                                         *)
(* Data abstraction: a file is the set of its header entries, an entry a   *)
(* name, the extent it claims in the payload and the bytes its dtype and   *)
(* shape ask for (Size, one number per name); a read is the sequence of    *)
(* payload offsets it copies.  The JSON of the header is not modelled.     *)
(***************************************************************************)
EXTENDS Integers, Sequences, FiniteSets, SequencesExt

CONSTANTS Name,     \* tensor names
          Float8,   \* the names whose header says F8_E4M3
          Extent,   \* the extents <<begin, end>> a header entry may claim
          Payload,  \* the payload lengths a file may have
          Size,     \* the bytes a tensor's shape and dtype ask for
          MaxDim    \* bound: dimensions of the tensors that are cut

VARIABLES dir,      \* [single, index, files]: the directory on disk
          fp8,      \* open_with_fp8 rather than open
          phase,    \* "discover" "read" "opened" "refused"
          files,    \* the discovered files, in the order they are read
          at,       \* the number of files read
          tensors,  \* self.tensors: [name, file, begin, end]
          encoded,  \* the names found in E4M3 storage
          cut       \* the last slice: [kind, shape, rows, columns, expert, offsets] or {}

vars == <<dir, fp8, phase, files, at, tensors, encoded, cut>>

File == 1..2

\* A shard name of the index that has no file in the directory.
NoFile == 3

Entries(f) == dir.files[f].entries

\* <<first, last>> as Rust's first..last over offsets.
Span(first, last) == [i \in 1..(last - first) |-> first + i - 1]

-----------------------------------------------------------------------------
(* Opening. *)

\* The single file if it exists, else the set of shards the index names, in
\* order; <<>> stands for the refusals (no index entry, a shard that is missing).
Discovered ==
    IF dir.single THEN <<1>>
    ELSE LET names == {dir.index[n] : n \in DOMAIN dir.index}
         IN IF NoFile \in names THEN <<>> ELSE SetToSortSeq(names, <)

discover_weight_files ==
    /\ phase = "discover"
    /\ files' = Discovered
    /\ phase' = IF Discovered = <<>> THEN "refused" ELSE "read"
    /\ UNCHANGED <<dir, fp8, at, tensors, encoded, cut>>

\* unindexed tensor, wrong shard
Listed(e, f) ==
    \/ dir.single
    \/ e.name \in DOMAIN dir.index /\ dir.index[e.name] = f

\* invalid safetensors extent: inside the payload and exactly as long as the tensor
InPayload(e, f) ==
    /\ e.begin <= e.end
    /\ e.end <= dir.files[f].length
    /\ e.end - e.begin = Size[e.name]

\* The sorted extents follow one another from 0 to the end of the payload.
Tiled(f) ==
    LET sorted == SetToSortSeq({<<e.begin, e.end>> : e \in Entries(f)},
                               LAMBDA a, b : a[1] < b[1] \/ (a[1] = b[1] /\ a[2] < b[2]))
        starts == [i \in 1..Len(sorted) |-> IF i = 1 THEN 0 ELSE sorted[i - 1][2]]
    IN /\ Cardinality(Entries(f)) = Len(sorted)
       /\ \A i \in 1..Len(sorted) : sorted[i][1] = starts[i]
       /\ dir.files[f].length = (IF sorted = <<>> THEN 0 ELSE Last(sorted)[2])

\* duplicate tensor
Fresh(e) == \A t \in tensors : t.name # e.name

\* One file of Checkpoint::open: the external store has checked the header.
ReadPlain(f) == \A e \in Entries(f) : Listed(e, f) /\ Fresh(e)

\* One file of Checkpoint::open_with_fp8, which reads the header itself.
ReadEncoded(f) ==
    /\ \A e \in Entries(f) : InPayload(e, f) /\ Listed(e, f) /\ Fresh(e)
    /\ Tiled(f)

ReadFile ==
    /\ phase = "read" /\ at < Len(files)
    /\ LET f == files[at + 1]
       IN IF (IF fp8 THEN ReadEncoded(f) ELSE ReadPlain(f))
          THEN /\ at' = at + 1
               /\ tensors' = tensors \cup
                      {[name |-> e.name, file |-> f, begin |-> e.begin, end |-> e.end] : e \in Entries(f)}
               /\ encoded' = IF fp8 THEN encoded \cup {e.name : e \in {g \in Entries(f) : g.name \in Float8}} ELSE encoded
               /\ UNCHANGED phase
          ELSE phase' = "refused" /\ UNCHANGED <<at, tensors, encoded>>
    /\ UNCHANGED <<dir, fp8, files, cut>>

\* missing indexed tensor
Complete == dir.single \/ \A n \in DOMAIN dir.index : \E t \in tensors : t.name = n

Open ==
    /\ phase = "read" /\ at = Len(files)
    /\ phase' = IF Complete THEN "opened" ELSE "refused"
    /\ UNCHANGED <<dir, fp8, files, at, tensors, encoded, cut>>

-----------------------------------------------------------------------------
(* Cutting: shape <<r, c>> or <<experts, height, width>>, one byte per element. *)

\* tensor_slice: for each index before the axis, one run of bytes.
SliceOffsets(shape, axis, first, last) ==
    LET inner == IF axis = 1 THEN shape[2] ELSE 1
        outer == IF axis = 1 THEN 1 ELSE shape[1]
        stride == shape[axis] * inner
    IN FlattenSeq([row \in 1..outer |->
           Span((row - 1) * stride + first * inner, (row - 1) * stride + last * inner)])

tensor_slice(shape, axis, first, last) ==
    /\ phase = "opened" /\ cut = {}
    /\ first < last /\ last <= shape[axis]
    /\ cut' = {[shape |-> <<1>> \o shape, expert |-> 0,
                rows |-> IF axis = 1 THEN <<first, last>> ELSE <<0, shape[1]>>,
                columns |-> IF axis = 2 THEN <<first, last>> ELSE <<0, shape[2]>>,
                offsets |-> SliceOffsets(shape, axis, first, last)]}
    /\ UNCHANGED <<dir, fp8, phase, files, at, tensors, encoded>>

\* The bytes between the end of one selected row and the start of the next.
Skip(width, columns) == width - (columns[2] - columns[1])

\* StackedMatrixSource::matrix: one read when whole rows are wanted, else a
\* read and a relative seek per row.
MatrixOffsets(shape, expert, rows, columns) ==
    LET height == shape[2]
        width == shape[3]
        count == columns[2] - columns[1]
        start == (expert * height + rows[1]) * width + columns[1]
    IN IF columns[1] = 0 /\ columns[2] = width
       THEN Span((expert * height + rows[1]) * width,
                 (expert * height + rows[1]) * width + (rows[2] - rows[1]) * width)
       ELSE FlattenSeq([local \in 1..(rows[2] - rows[1]) |->
                LET from == start + (local - 1) * (count + Skip(width, columns))
                IN Span(from, from + count)])

matrix(shape, expert, rows, columns) ==
    /\ phase = "opened" /\ cut = {}
    /\ expert < shape[1] /\ rows[1] < rows[2] /\ rows[2] <= shape[2]
    /\ columns[1] < columns[2] /\ columns[2] <= shape[3]
    /\ cut' = {[shape |-> shape, expert |-> expert, rows |-> rows, columns |-> columns,
                offsets |-> MatrixOffsets(shape, expert, rows, columns)]}
    /\ UNCHANGED <<dir, fp8, phase, files, at, tensors, encoded>>

-----------------------------------------------------------------------------
Dim == 1..MaxDim

Bound == {<<a, b>> \in (0..MaxDim) \X (0..MaxDim) : a < b}

\* The directories on disk: each file holds some of the names, at claimed extents.
Holding == {S \in SUBSET {[name |-> n, begin |-> x[1], end |-> x[2]] : n \in Name, x \in Extent} :
                \A e, g \in S : e.name = g.name => e = g}

Directory == [single : BOOLEAN,
              index : UNION {[D -> File \cup {NoFile}] : D \in SUBSET Name},
              files : [File -> [entries : Holding, length : Payload]]]

Init == /\ dir \in Directory
        /\ fp8 \in BOOLEAN
        /\ phase = "discover"
        /\ files = <<>> /\ at = 0 /\ tensors = {} /\ encoded = {} /\ cut = {}

Next ==
    \/ discover_weight_files
    \/ ReadFile
    \/ Open
    \/ \E shape \in Dim \X Dim, axis \in 1..2, b \in Bound : tensor_slice(shape, axis, b[1], b[2])
    \/ \E shape \in Dim \X Dim \X Dim, expert \in 0..(MaxDim - 1), rows, columns \in Bound :
           matrix(shape, expert, rows, columns)

Spec == Init /\ [][Next]_vars

-----------------------------------------------------------------------------
\* A checkpoint that opened holds, for every tensor the index names, exactly one
\* tensor, read from the shard the index gives it (a single file has no index to
\* obey), and nothing the index does not name.
IndexObeyed ==
    phase = "opened" =>
        /\ \A s, t \in tensors : s.name = t.name => s = t
        /\ \/ dir.single
           \/ {<<t.name, t.file>> : t \in tensors} = {<<n, dir.index[n]>> : n \in DOMAIN dir.index}

\* In a checkpoint whose headers the crate reads itself, no two tensors share a
\* payload byte and no byte of a file that was read belongs to no tensor.
PayloadTiled ==
    (phase = "opened" /\ fp8) =>
        \A i \in 1..Len(files) :
            \A byte \in 0..(dir.files[files[i]].length - 1) :
                Cardinality({t \in tensors : t.file = files[i] /\ t.begin <= byte /\ byte < t.end}) = 1

\* What tensor_slice and the stacked reader copy is the selected block of the
\* row-major tensor, element for element and in order.
CutExact ==
    \A c \in cut :
        LET rows == c.rows[2] - c.rows[1]
            columns == c.columns[2] - c.columns[1]
        IN c.offsets = [i \in 1..(rows * columns) |->
               (c.expert * c.shape[2] + c.rows[1] + (i - 1) \div columns) * c.shape[3]
                   + c.columns[1] + ((i - 1) % columns)]
=============================================================================
