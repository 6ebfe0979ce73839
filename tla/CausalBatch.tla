---------------------------- MODULE CausalBatch ----------------------------
(***************************************************************************)
(* A batched target with an independent causal draft model, both hybrid:   *)
(* the draft runs the anchor and then each candidate on its own cache, the *)
(* target verifies anchor and candidates in one block, and both are cut    *)
(* back to the anchor.  Selecting a token accepts or drops the block.      *)
(***************************************************************************)
EXTENDS SpeculativeBatch

(***************************************************************************)
(* Qwen35BatchCache: full-attention layers in pages as in DenseBatch, and  *)
(* per request one recurrent state that cannot be cut back.  A speculative *)
(* forward therefore records the state after every token, the trajectory,  *)
(* from which a later position is restored.                                *)
(*                                                                         *)
(* A recurrent state is the text it has consumed, <<>> before the first    *)
(* token.  The pages live in an arena (fused) or are allocated one by one; *)
(* both know the pages they hold, and the arena its own positions.         *)
(***************************************************************************)
NoTrajectory == [states |-> <<>>, start |-> Absent]

EmptyHybrid(fused) ==
    [dense |-> EmptyDense, fused |-> fused, resident |-> {},
     lengths |-> [r \in Request |-> 0],
     state |-> [r \in Request |-> <<>>],
     trajectory |-> [r \in Request |-> NoTrajectory]]

\* retain_batch_cache
RetainHybrid(c, live) ==
    LET dense == Retain(c.dense, live)
    IN  [c EXCEPT !.dense = dense,
                  !.resident = @ \cap UNION {Range(dense.table[r]) : r \in Request},
                  !.lengths = [r \in Request |-> IF r \in live THEN @[r] ELSE 0],
                  !.state = [r \in Request |-> IF r \in live THEN @[r] ELSE <<>>],
                  !.trajectory = [r \in Request |-> IF r \in live THEN @[r] ELSE NoTrajectory]]

TrajectoryEnd(t) == t.start + Len(t.states)

\* Recurrent rows of one batch are all new or all continued.
Mixed(c, rows) == \E a, b \in rows : c.state[a.id] = <<>> /\ c.state[b.id] # <<>>

\* The positions of a row whose page must already be there: a page is made
\* when its first slot is written.
Resident(c, row) ==
    \A i \in row.start..(ContextOf(row) - 1) :
        LET page == row.table[(i \div BlockSize) + 1]
        IN  page \in c.resident \/ \E j \in row.start..i : /\ j \div BlockSize = i \div BlockSize
                                                           /\ j % BlockSize = 0

\* Every page of the table is read.
PagesReadable(c, row) ==
    \A i \in DOMAIN row.table : row.table[i] \in c.resident \/ i - 1 >= row.start \div BlockSize

RowRuns(c, row, speculative) ==
    /\ Valid(c.dense, {row})
    /\ IF c.fused THEN c.lengths[row.id] = row.start ELSE Resident(c, row) /\ PagesReadable(c, row)
    /\ ~speculative \/ c.trajectory[row.id].start = Absent \/ TrajectoryEnd(c.trajectory[row.id]) = row.start

\* Attention reads the entries before the row, the recurrence its state:
\* both must be those of one text.
RowValues(c, row) ==
    LET values == Hiddens(c.dense, row)
        before == IF row.start = 0 THEN <<>> ELSE At(c.dense, row.table, row.start - 1)
    IN  [i \in 1..Len(row.tokens) |-> IF c.state[row.id] = before THEN values[i] ELSE Poison]

\* The trajectory after a row: a speculative forward starts or extends it,
\* any other ends it.
Followed(c, row, values, speculative) ==
    LET t == c.trajectory[row.id]
    IN  CASE ~speculative -> NoTrajectory
          [] speculative /\ t.start = Absent ->
                [states |-> values, start |-> row.start, initial |-> c.state[row.id]]
          [] OTHER -> [t EXCEPT !.states = @ \o values]

\* forward_batch_impl, one row
Ran(c, row, values, speculative) ==
    [c EXCEPT !.dense = Forwarded(@, row, values),
              !.resident = @ \cup Range(row.table),
              !.lengths[row.id] = ContextOf(row),
              !.state[row.id] = values[Len(values)],
              !.trajectory[row.id] = Followed(c, row, values, speculative)]

\* begin_batch_speculation, one row
Begun(c, r) == [c EXCEPT !.trajectory[r] = NoTrajectory]

CanCapture(c, r, start, end) ==
    LET t == c.trajectory[r]
    IN  /\ t.start # Absent /\ start < end /\ start >= t.start /\ end <= TrajectoryEnd(t)
        /\ c.dense.position[r] = TrajectoryEnd(t)

\* capture_batch_delta
Captured(c, r, start, end) ==
    LET t == c.trajectory[r]
    IN  [kv |-> Delta(c.dense, r, start, end),
         states |-> SubSeq(t.states, start - t.start + 1, end - t.start)]

CanCut(c, r, position) ==
    LET t == c.trajectory[r]
    IN  /\ t.start # Absent /\ position >= t.start /\ position <= TrajectoryEnd(t)
        /\ c.dense.position[r] = TrajectoryEnd(t)
        /\ PagesOf(position) <= Len(c.dense.table[r])

CutState(t, position) == IF position = t.start THEN t.initial ELSE t.states[position - t.start]

\* truncate_batch_cache
Cut(c, r, position) ==
    LET table == c.dense.table[r]
    IN  [c EXCEPT !.dense = Truncate(@, r, position),
                  !.resident = @ \ {table[i] : i \in (PagesOf(position) + 1)..Len(table)},
                  !.lengths[r] = position,
                  !.state[r] = CutState(c.trajectory[r], position),
                  !.trajectory[r] = NoTrajectory]

\* append_batch_delta
CanGrow(c, r, table, delta, offset) == CanAppendDelta(c.dense, r, table, delta.kv, offset)

Grown(c, r, table, delta, offset) ==
    LET position == delta.kv.start + offset
    IN  [c EXCEPT !.dense = AppendDelta(@, r, table, delta.kv, offset),
                  !.resident = @ \cup {table[(position \div BlockSize) + 1]},
                  !.lengths[r] = position + 1,
                  !.state[r] = delta.states[offset + 1],
                  !.trajectory[r] = NoTrajectory]

\* capture_prefix: pages that are not there refuse it.
CanTake(c, r) ==
    /\ c.dense.position[r] # Absent /\ c.dense.position[r] > 0
    /\ c.fused \/ Range(c.dense.table[r]) \subseteq c.resident

TakenPrefix(c, r) == [entries |-> Prefix(c.dense, r), state |-> c.state[r]]

CanPut(c, r, table, p) == p.entries # <<>> /\ p.state # <<>> /\ CanRestore(c.dense, r, table, p.entries)

\* restore_prefix
PutPrefix(c, r, table, p) ==
    [c EXCEPT !.dense = Restored(@, r, table, p.entries),
              !.resident = @ \cup Range(table),
              !.lengths[r] = Len(p.entries),
              !.state[r] = p.state]

-----------------------------------------------------------------------------
CONSTANT DraftTokens

NoBlock == [tokens |-> <<>>]

EmptyCache(fused) ==
    [target |-> EmptyHybrid(fused), draft |-> EmptyHybrid(fused), verified |-> [r \in Request |-> NoBlock]]

Dropped(c, live) ==
    [target |-> RetainHybrid(c.target, live), draft |-> RetainHybrid(c.draft, live),
     verified |-> [r \in Request |-> IF r \in live THEN c.verified[r] ELSE NoBlock]]

Failed == [ok |-> FALSE]

\* ordinary, one row: both models run it.
Ordinary(c, row) ==
    LET values == RowValues(c.target, row)
    IN  IF ~RowRuns(c.target, row, FALSE) \/ ~RowRuns(c.draft, row, FALSE) THEN Failed
        ELSE [ok |-> TRUE, row |-> values[Len(values)],
              cache |-> [target |-> Ran(c.target, row, values, FALSE),
                         draft |-> Ran(c.draft, row, RowValues(c.draft, row), FALSE),
                         verified |-> [c.verified EXCEPT ![row.id] = NoBlock]]]

Hit(c, row) ==
    LET verified == c.verified[row.id]
    IN  verified # NoBlock /\ verified.accepted /\ verified.tokens[verified.cursor + 1] = row.tokens[1]

AnswerRow(verified) == verified.rows[verified.cursor + 2]

\* The row's token is the accepted candidate: both caches take it from the
\* block, and the target's next row of logits is answered.
Confirm(c, row) ==
    LET verified == c.verified[row.id]
        next == verified.cursor + 1
    IN  IF \/ ~CanGrow(c.target, row.id, row.table, verified.target, verified.cursor)
           \/ ~CanGrow(c.draft, row.id, row.table, verified.draft, verified.cursor)
        THEN Failed
        ELSE [ok |-> TRUE, row |-> AnswerRow(verified),
              cache |-> [target |-> Grown(c.target, row.id, row.table, verified.target, verified.cursor),
                         draft |-> Grown(c.draft, row.id, row.table, verified.draft, verified.cursor),
                         verified |-> [c.verified EXCEPT ![row.id] =
                            IF next < Len(verified.tokens)
                            THEN [verified EXCEPT !.cursor = next, !.accepted = FALSE] ELSE NoBlock]]]

\* How many candidates a row may propose.
Count(row, look) ==
    Smaller(Larger(look.count - 1, 0), Smaller(DraftTokens, MaxContext - ContextOf(row)))

\* The draft consumes the anchor and the candidates, one forward each.
Drafted(c, row, look, span) ==
    LET feed(was, i) ==
          LET write == [id |-> row.id, start |-> row.start + i - 1, tokens |-> <<span[i]>>,
                        table |-> SubSeq(look.table, 1, PagesOf(row.start + i))]
          IN  IF ~was.ok THEN was
              ELSE IF ~RowRuns(was.cache, write, TRUE) THEN [was EXCEPT !.ok = FALSE]
              ELSE [ok |-> TRUE, cache |-> Ran(was.cache, write, RowValues(was.cache, write), TRUE)]
    IN  FoldLeft(feed, [ok |-> TRUE, cache |-> Begun(c.draft, row.id)], [i \in 1..Len(span) |-> i])

\* A block is drafted and verified; both caches go back to the anchor.
Speculate(c, row, look, candidates) ==
    LET count == Count(row, look)
        span == row.tokens \o SubSeq(candidates, 1, count)
        drafted == Drafted(c, row, look, span)
        start == row.start + 1
        context == start + count
        verify == [row EXCEPT !.tokens = span, !.table = SubSeq(look.table, 1, PagesOf(context))]
        begun == Begun(c.target, row.id)
        values == RowValues(begun, verify)
        target == Ran(begun, verify, values, TRUE)
    IN  IF ~drafted.ok \/ ~RowRuns(begun, verify, TRUE) THEN Failed
        ELSE IF \/ ~CanCapture(target, row.id, start, context)
                \/ ~CanCapture(drafted.cache, row.id, start, context)
                \/ ~CanCut(target, row.id, start) \/ ~CanCut(drafted.cache, row.id, start)
        THEN Failed
        ELSE [ok |-> TRUE, row |-> values[1],
              cache |-> [target |-> Cut(target, row.id, start),
                         draft |-> Cut(drafted.cache, row.id, start),
                         verified |-> [c.verified EXCEPT ![row.id] =
                            [tokens |-> SubSeq(span, 2, Len(span)), rows |-> values,
                             target |-> Captured(target, row.id, start, context),
                             draft |-> Captured(drafted.cache, row.id, start, context),
                             cursor |-> 0, accepted |-> FALSE]]]]

RunRow(state, row, decode, look, candidates) ==
    IF ~state.ok THEN Failed
    ELSE LET c == state.cache
             done == IF decode /\ Hit(c, row) THEN Confirm(c, row)
                     ELSE IF decode /\ Count(row, look[row.id]) > 0
                     THEN Speculate(c, row, look[row.id], candidates[row.id])
                     ELSE Ordinary(c, row)
         IN  IF ~done.ok THEN Failed
             ELSE [ok |-> TRUE, cache |-> done.cache,
                   out |-> [r \in Request |-> IF r = row.id THEN done.row ELSE state.out[r]]]

\* The rows that run together: a prompt batch, or the rows of one count.
Grouped(rows, look, c, decode) ==
    IF ~decode THEN {rows}
    ELSE {{row \in rows : ~Hit(c, row) /\ Count(row, look[row.id]) = n} : n \in 0..DraftTokens}

\* forward_batch_sampling
Forward(rows, look, c, decode, candidates) ==
    IF \E group \in Grouped(rows, look, c, decode) : Mixed(c.target, group) \/ Mixed(c.draft, group)
    THEN Failed
    ELSE FoldLeft(LAMBDA state, row : RunRow(state, row, decode, look, candidates),
                  [ok |-> TRUE, cache |-> c, out |-> [r \in Request |-> <<>>]],
                  SetToSortSeq(rows, LAMBDA a, b : a.id < b.id))

\* select_batch_token: the candidate is accepted when it is the token chosen.
Selected(c, rows, next) ==
    {[c EXCEPT !.verified = [r \in Request |->
        LET verified == @[r]
        IN  IF r \notin rows \/ verified = NoBlock THEN verified
            ELSE IF verified.tokens[verified.cursor + 1] = next[r] THEN [verified EXCEPT !.accepted = TRUE]
            ELSE NoBlock]]}

\* validate_prefix
PrefixFits(p) ==
    Len(p.target.entries) = Len(p.draft.entries) /\ Len(p.target.entries) \in 1..MaxContext

\* capture_prefix
Taken(c, r) ==
    LET p == [target |-> TakenPrefix(c.target, r), draft |-> TakenPrefix(c.draft, r)]
    IN  [ok |-> CanTake(c.target, r) /\ CanTake(c.draft, r) /\ PrefixFits(p), prefix |-> p]

\* restore_prefix
Put(c, r, table, p) ==
    IF ~PrefixFits(p) \/ ~CanPut(c.target, r, table, p.target) \/ ~CanPut(c.draft, r, table, p.draft)
    THEN Failed
    ELSE [ok |-> TRUE,
          cache |-> [target |-> PutPrefix(c.target, r, table, p.target),
                     draft |-> PutPrefix(c.draft, r, table, p.draft),
                     verified |-> [c.verified EXCEPT ![r] = NoBlock]]]

Init == \E fused \in BOOLEAN : InitWith(EmptyCache(fused))

PrefillStep ==
    \E S \in SUBSET Request \ {{}}, n \in 1..MaxChunk :
        Prefill(S, n, LAMBDA rows, look, c : Forward(rows, look, c, FALSE, <<>>), Selected, Dropped)

DecodeStep ==
    \E S \in SUBSET Request \ {{}} : \E extra \in Extras(S, DraftTokens) :
    \E candidates \in [{r \in S : extra[r] > 0} -> [1..DraftTokens -> Token]] :
        Decode(S, extra, LAMBDA rows, look, c : Forward(rows, look, c, TRUE, candidates), Selected, Dropped)

Next ==
    \/ \E r \in Request : Submit(r) \/ Cancel(r, Dropped)
    \/ PrefillStep \/ DecodeStep
    \/ \E r, f \in Request, token \in Token : Resume(r, f, token, Taken, Put)

Spec == Init /\ [][Next]_vars

----------------------------------------------------------------------------
\* Both models' pages and recurrent states are those of the fed text, and no
\* trajectory of a block is left over.
ModelsAligned ==
    \A r \in Live : \A c \in {cache.target, cache.draft} :
        /\ HoldsText(c.dense, r, fed[r])
        /\ c.state[r] = SubSeq(toks[r], 1, fed[r])
        /\ c.trajectory[r] = NoTrajectory

\* A page is held for exactly as long as some request's table names it.
PagesHeld ==
    \A c \in {cache.target, cache.draft} :
        c.resident = UNION {Range(c.dense.table[r]) : r \in Request}

=============================================================================
