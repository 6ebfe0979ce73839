-------------------------- MODULE SpeculativeBatch --------------------------
(***************************************************************************)
(* The device batch executor around a model that speculates: it schedules  *)
(* rows, reserves pages behind them for lookahead, runs the model on a     *)
(* fork of its cache, selects a token per row, commits one token of the    *)
(* reservation and drops the pages behind it, and keeps the fork.          *)
(*                                                                         *)
(* A model is given by operators: what its forward makes of its cache, how *)
(* it drops requests, and how it takes and restores a prefix.  Tokens and  *)
(* proposals are arbitrary; a request ends with its last token or by       *)
(* Cancel, which stands for a stop token too.  A step that fails on the    *)
(* device drops the fork and the reservation: it changes nothing here.  A  *)
(* request stands for one id after the other; ids are never used again.    *)
(***************************************************************************)
EXTENDS Integers, Sequences, SequencesExt, FiniteSetsExt

(***************************************************************************)
(* DenseBatchCache: the keys and values of all requests of a batch in one  *)
(* arena of pages, a committed position and a page table per request.      *)
(*                                                                         *)
(* What a layer computes for a token depends on every token before it, so  *)
(* the entry of a position is the history up to it.  A value computed over *)
(* entries that are not those of one history is Poison.  All layers are    *)
(* written alike and stand for one.                                        *)
(***************************************************************************)
CONSTANTS Request,    \* 1..n
          Page,
          BlockSize,  \* tokens of a page
          MaxContext  \* max_sequence_length

\* What a configuration must satisfy.
DenseConstants ==
    /\ Request \subseteq Nat /\ Page \subseteq Nat
    /\ BlockSize \in Nat \ {0} /\ MaxContext \in Nat \ {0}

Unwritten == <<-1>>

Poison == <<-2>>

Absent == -1

Slot == 0..(BlockSize - 1)

EmptyDense ==
    [arena |-> [p \in Page |-> [s \in Slot |-> Unwritten]],
     position |-> [r \in Request |-> Absent],
     table |-> [r \in Request |-> <<>>]]

Smaller(a, b) == IF a < b THEN a ELSE b

Larger(a, b) == IF a < b THEN b ELSE a

PagesOf(n) == (n + BlockSize - 1) \div BlockSize

SequenceLength(c, r) == IF c.position[r] = Absent THEN 0 ELSE c.position[r]

At(c, table, position) == c.arena[table[(position \div BlockSize) + 1]][position % BlockSize]

Distinct(table) == \A i, j \in DOMAIN table : table[i] = table[j] => i = j

Owned(c, r, table) == \A o \in Request \ {r} : Range(c.table[o]) \cap Range(table) = {}

\* A row of a batch: [id, start, tokens, table].
ContextOf(row) == row.start + Len(row.tokens)

Fits(c, row) ==
    /\ ContextOf(row) <= MaxContext
    /\ SequenceLength(c, row.id) = row.start
    /\ Len(row.table) = PagesOf(ContextOf(row))
    /\ IsPrefix(c.table[row.id], row.table)
    /\ Distinct(row.table) /\ Owned(c, row.id, row.table)

\* validate: all rows advance by the same number of tokens, and no page is
\* written by two of them.
Valid(c, rows) ==
    /\ rows # {}
    /\ \A row \in rows : Fits(c, row) /\ row.tokens # <<>>
    /\ \A a, b \in rows : /\ Len(a.tokens) = Len(b.tokens)
                          /\ a.id # b.id => Range(a.table) \cap Range(b.table) = {}

\* DevicePlan::append
Stored(c, table, start, entries) ==
    [c EXCEPT !.arena = [p \in Page |-> [s \in Slot |->
        LET hit == {i \in 1..Len(entries) : /\ table[((start + i - 1) \div BlockSize) + 1] = p
                                            /\ (start + i - 1) % BlockSize = s}
        IN  IF hit = {} THEN @[p][s] ELSE entries[CHOOSE i \in hit : TRUE]]]]

\* commit, of one row
Committed(c, row) ==
    [c EXCEPT !.position[row.id] = ContextOf(row), !.table[row.id] = row.table]

\* The values of a row whose token i is combined with before[i]; attention
\* reads every earlier entry, which must be the histories of the same text.
\* shift: how far the layer's positions lie behind the text's.
Values(c, row, before, shift) ==
    LET sound == /\ Len(before[1]) + 1 = row.start + shift
                 /\ \A j \in 1..row.start :
                       At(c, row.table, j - 1) = SubSeq(before[1], 1, j + shift - 1)
    IN  [i \in 1..Len(row.tokens) |->
            IF sound /\ before[i] # Poison THEN Append(before[i], row.tokens[i]) ELSE Poison]

\* The target's forward of a row: its entries, which are its hidden states
\* and rows of logits too.
Hiddens(c, row) ==
    LET before == IF row.start = 0 THEN <<>> ELSE At(c, row.table, row.start - 1)
        text == [i \in 1..Len(row.tokens) |-> before \o SubSeq(row.tokens, 1, i - 1)]
    IN  Values(c, row, text, 1)

\* One forward: rows are stored, then committed.
Forwarded(c, row, values) == Committed(Stored(c, row.table, row.start, values), row)

\* What no request's positions cover may be anything; none of it is told
\* apart from memory never written.
Covered(c) ==
    UNION {{<<c.table[r][(i \div BlockSize) + 1], i % BlockSize>> : i \in 0..(c.position[r] - 1)} : r \in Request}

Scrubbed(c) ==
    LET covered == Covered(c)
    IN  [c EXCEPT !.arena = [p \in Page |-> [s \in Slot |->
                                IF <<p, s>> \in covered THEN @[p][s] ELSE Unwritten]]]

\* truncate
Truncate(c, r, position) ==
    Scrubbed([c EXCEPT !.position[r] = position,
                       !.table[r] = SubSeq(@, 1, Smaller(Len(@), PagesOf(position)))])

CanTruncate(c, r, position) == c.position[r] # Absent /\ position <= c.position[r]

\* capture_delta: the entries of the positions start..end-1.
Delta(c, r, start, end) ==
    [start |-> start, entries |-> [i \in 1..(end - start) |-> At(c, c.table[r], start + i - 1)]]

CanDelta(c, r, start, end) == start < end /\ end <= c.position[r]

\* append_delta: entry `offset` of the delta becomes the next position.
CanAppendDelta(c, r, table, delta, offset) ==
    LET position == delta.start + offset
    IN  /\ offset < Len(delta.entries)
        /\ c.position[r] = position /\ position < MaxContext
        /\ Len(table) = PagesOf(position + 1)
        /\ IsPrefix(c.table[r], table) /\ Distinct(table) /\ Owned(c, r, table)

AppendDelta(c, r, table, delta, offset) ==
    LET position == delta.start + offset
    IN  [Stored(c, table, position, <<delta.entries[offset + 1]>>) EXCEPT
            !.position[r] = position + 1, !.table[r] = table]

\* retain
Retain(c, live) ==
    Scrubbed([c EXCEPT !.position = [r \in Request |-> IF r \in live THEN @[r] ELSE Absent],
                       !.table = [r \in Request |-> IF r \in live THEN @[r] ELSE <<>>]])

\* capture_prefix
Prefix(c, r) == [i \in 1..c.position[r] |-> At(c, c.table[r], i - 1)]

CanRestore(c, r, table, prefix) ==
    /\ c.position[r] = Absent
    /\ Len(prefix) <= MaxContext /\ Len(table) = PagesOf(Len(prefix))
    /\ Distinct(table) /\ \A o \in Request : Range(c.table[o]) \cap Range(table) = {}

\* restore_prefix
Restored(c, r, table, prefix) ==
    [Stored(c, table, 0, prefix) EXCEPT !.position[r] = Len(prefix), !.table[r] = table]

-----------------------------------------------------------------------------
CONSTANTS Token,
          Prompt,   \* prompt of each request
          MaxNew,   \* max_new_tokens of each request
          MaxChunk  \* tokens of a prefill row

\* What a configuration must satisfy.
SpeculativeConstants ==
    /\ Token \subseteq Nat /\ MaxNew \in [Request -> Nat \ {0}] /\ MaxChunk \in Nat \ {0}
    /\ \A r \in Request : Len(Prompt[r]) > 0 /\ Len(Prompt[r]) + MaxNew[r] <= MaxContext

VARIABLES toks,    \* prompt and generated tokens of a live request, else <<>>
          prompt,  \* length of its prompt
          fed,     \* tokens in the cache
          pages,   \* page table of the KV manager
          cache,   \* the model's cache
          out,     \* the rows of logits of the last step, each with its text
          refused  \* a forward, capture or restore failed

vars == <<toks, prompt, fed, pages, cache, out, refused>>

Live == {r \in Request : toks[r] # <<>>}

FreePages == Page \ UNION {Range(pages[r]) : r \in Live}

InitWith(empty) ==
    /\ toks = [r \in Request |-> <<>>] /\ prompt = [r \in Request |-> 0]
    /\ fed = [r \in Request |-> 0] /\ pages = [r \in Request |-> <<>>]
    /\ cache = empty /\ out = {}
    /\ refused = FALSE

Submit(r) ==
    /\ toks[r] = <<>>
    /\ toks' = [toks EXCEPT ![r] = Prompt[r]] /\ prompt' = [prompt EXCEPT ![r] = Len(Prompt[r])]
    /\ out' = {} /\ UNCHANGED <<fed, pages, cache, refused>>

\* The tables of rows that grow to need[r] pages, from the free pages in
\* order; a function without rows when the pages do not suffice.
Reserved(rows, need) ==
    LET more == [r \in rows |-> need[r] - Len(pages[r])]
        before(r) == MapThenSumSet(LAMBDA o : more[o], {o \in rows : o < r})
        free == SetToSortSeq(FreePages, <)
    IN  IF MapThenSumSet(LAMBDA o : more[o], rows) > Len(free) THEN <<>>
        ELSE [r \in rows |-> pages[r] \o SubSeq(free, before(r) + 1, before(r) + more[r])]

Remaining(r) == MaxNew[r] - (Len(toks[r]) - prompt[r])

\* reserve_lookahead grants at most this, or nothing when the batch's token
\* budget or the free pages do not allow it.
MostLookahead(r, wanted) ==
    Smaller(wanted, Smaller(Larger(Remaining(r) - 1, 0), MaxContext - fed[r] - 1))

\* The rows S advance by n tokens with `extra` reserved behind them.
\* Forward(rows, look, c) is the model's [ok, out, cache]; look[r] is the
\* lookahead reservation [count, table].
Step(S, n, extra, Forward(_, _, _), Select(_, _, _), Dropped(_, _)) ==
    LET context == [r \in S |-> fed[r] + n]
        tables == Reserved(S, [r \in S |-> PagesOf(context[r] + extra[r])])
        rows == {[id |-> r, start |-> fed[r], tokens |-> SubSeq(toks[r], fed[r] + 1, fed[r] + n),
                  table |-> SubSeq(tables[r], 1, PagesOf(context[r]))] : r \in S}
        look == [r \in S |-> [count |-> IF extra[r] = 0 THEN 0 ELSE n + extra[r], table |-> tables[r]]]
        selecting == {r \in S : context[r] >= prompt[r]}
    IN  /\ DOMAIN tables = S
        /\ \E result \in {Forward(rows, look, cache)} :
           IF ~result.ok THEN refused' = TRUE /\ out' = {} /\ UNCHANGED <<toks, prompt, fed, pages, cache>>
           ELSE \E next \in [selecting -> Token] : \E settled \in Select(result.cache, selecting, next) :
                  LET done == {r \in selecting : Remaining(r) = 1}
                  IN  /\ toks' = [r \in Request |->
                            IF r \in done THEN <<>>
                            ELSE IF r \in selecting THEN Append(toks[r], next[r]) ELSE toks[r]]
                      /\ fed' = [r \in Request |-> IF r \in done THEN 0
                                                  ELSE IF r \in S THEN context[r] ELSE fed[r]]
                      /\ prompt' = [r \in Request |-> IF r \in done THEN 0 ELSE prompt[r]]
                      /\ pages' = [r \in Request |->
                            IF r \in done THEN <<>>
                            ELSE IF r \in S THEN SubSeq(tables[r], 1, PagesOf(context[r])) ELSE pages[r]]
                      /\ cache' = Dropped(settled, Live \ done)
                      /\ out' = {[row |-> result.out[r], text |-> SubSeq(toks[r], 1, context[r])] : r \in S}
                      /\ UNCHANGED refused

Prefilling(r) == toks[r] # <<>> /\ fed[r] < prompt[r]

Decoding(r) == toks[r] # <<>> /\ fed[r] >= prompt[r]

\* Prompts of one batch are all new or all continued.
Together(S) == \A a, b \in S : fed[a] = 0 <=> fed[b] = 0

Prefill(S, n, Forward(_, _, _), Select(_, _, _), Dropped(_, _)) ==
    /\ \A r \in S : Prefilling(r) /\ fed[r] + n <= prompt[r]
    /\ Together(S)
    /\ Step(S, n, [r \in S |-> 0], Forward, Select, Dropped)

Decode(S, extra, Forward(_, _, _), Select(_, _, _), Dropped(_, _)) ==
    /\ \A r \in S : Decoding(r)
    /\ Step(S, 1, extra, Forward, Select, Dropped)

Extras(S, wanted) ==
    {extra \in [S -> 0..wanted] : \A r \in S : extra[r] <= MostLookahead(r, wanted)}

Cancel(r, Dropped(_, _)) ==
    /\ toks[r] # <<>>
    /\ toks' = [toks EXCEPT ![r] = <<>>] /\ pages' = [pages EXCEPT ![r] = <<>>]
    /\ fed' = [fed EXCEPT ![r] = 0] /\ prompt' = [prompt EXCEPT ![r] = 0]
    /\ cache' = Dropped(cache, Live \ {r})
    /\ out' = {} /\ UNCHANGED refused

\* A captured prefix is a value, so nothing depends on how long it is kept:
\* a request r whose prompt continues the fed text of f starts behind it.
\* Taken(c, f) is the model's capture, [ok, prefix]; Put its restore.
Resume(r, f, token, Taken(_, _), Put(_, _, _, _)) ==
    /\ toks[r] = <<>> /\ toks[f] # <<>> /\ fed[f] > 0 /\ fed[f] + 1 + MaxNew[r] <= MaxContext
    /\ LET free == SetToSortSeq(FreePages, <)
           table == SubSeq(free, 1, PagesOf(fed[f]))
           taken == Taken(cache, f)
           put == Put(cache, r, table, taken.prefix)
       IN  /\ PagesOf(fed[f]) <= Len(free)
           /\ IF taken.ok /\ put.ok
              THEN /\ toks' = [toks EXCEPT ![r] = Append(SubSeq(toks[f], 1, fed[f]), token)]
                   /\ prompt' = [prompt EXCEPT ![r] = fed[f] + 1]
                   /\ fed' = [fed EXCEPT ![r] = fed[f]] /\ pages' = [pages EXCEPT ![r] = table]
                   /\ cache' = put.cache /\ UNCHANGED refused
              ELSE refused' = TRUE /\ UNCHANGED <<toks, prompt, fed, pages, cache>>
    /\ out' = {}

----------------------------------------------------------------------------
\* Each row of logits is the model's for exactly the request's own tokens,
\* whether it was computed now or taken from an earlier verification.
LogitsExact == \A o \in out : o.row = o.text

\* No forward, capture or restore is refused: positions, page tables and
\* reservations of all caches fit whatever was accepted, rejected or dropped.
NeverRefused == ~refused

\* The entries of a dense cache are those of the request's own text.
HoldsText(c, r, length) ==
    /\ SequenceLength(c, r) = length
    /\ \A i \in 1..length : At(c, c.table[r], i - 1) = SubSeq(toks[r], 1, i)

=============================================================================
