----------------------------- MODULE DraftBatch -----------------------------
(***************************************************************************)
(* The batched Qwen3 target with a block drafter that reads the target's   *)
(* features: a row whose token is the next of its verified block takes its *)
(* key, value, logits and features from there; other rows are run by the   *)
(* target alone or propose and verify a new block behind their token.      *)
(***************************************************************************)
EXTENDS SpeculativeBatch

CONSTANTS DraftBlock,       \* block_size of the drafter
          AnchorFirst,
          DraftMaxPosition

NoBlock == [tokens |-> <<>>]

Unknown == [known |-> FALSE, pending |-> <<>>, verified |-> NoBlock]

EmptyCache == [target |-> EmptyDense, draft |-> EmptyDense, requests |-> [r \in Request |-> Unknown]]

\* lookahead_tokens
Candidates == IF AnchorFirst THEN DraftBlock ELSE DraftBlock - 1

Dropped(c, live) ==
    [target |-> Retain(c.target, live), draft |-> Retain(c.draft, live),
     requests |-> [r \in Request |-> IF r \in live THEN c.requests[r] ELSE Unknown]]

Failed == [ok |-> FALSE]

\* Mutant: any next token is answered from the verified block.
Hit_Any(c, row) == c.requests[row.id].verified # NoBlock

Hit(c, row) ==
    LET verified == c.requests[row.id].verified
    IN  verified # NoBlock /\ verified.tokens[verified.next] = row.tokens[1]

Advanced(verified) ==
    IF verified.next = Len(verified.tokens) THEN NoBlock ELSE [verified EXCEPT !.next = @ + 1]

\* The row is answered from its verified block.
Confirm(c, row) ==
    LET request == c.requests[row.id]
        verified == request.verified
        step == verified.next
        value == verified.rows[step]
    IN  IF ~CanAppendDelta(c.target, row.id, row.table, verified.delta, step - 2) THEN Failed
        ELSE [ok |-> TRUE, row |-> value,
              cache |-> [c EXCEPT
                 !.target = AppendDelta(c.target, row.id, row.table, verified.delta, step - 2),
                 !.requests[row.id] = [known |-> TRUE, pending |-> Append(request.pending, value),
                                       verified |-> Advanced(verified)]]]

CanDraft(c, row, look) ==
    /\ look.count >= Candidates + 1
    /\ row.start > 0 /\ c.requests[row.id].pending # <<>>
    /\ row.start + DraftBlock <= DraftMaxPosition

\* The target alone: prompts, and tokens without room for a block.
Plain(c, row) ==
    LET values == Hiddens(c.target, row)
    IN  IF ~Valid(c.target, {row}) THEN Failed
        ELSE [ok |-> TRUE, row |-> values[Len(values)],
              cache |-> [c EXCEPT
                 !.target = Forwarded(c.target, row, values),
                 !.requests[row.id] = [known |-> TRUE, pending |-> @.pending \o values,
                                       verified |-> NoBlock]]]

DraftCut(c, row) == Truncate(c, row.id, row.start)

\* Draft::propose_batch: the pending features enter the drafter's cache,
\* followed by the block's masked positions, which are cut off again.
Propose(c, row, look) ==
    LET request == c.requests[row.id]
        old == SequenceLength(c.draft, row.id)
        end == row.start + DraftBlock
        write == [id |-> row.id, start |-> old,
                  tokens |-> [i \in 1..(Len(request.pending) + DraftBlock) |-> 0],
                  table |-> SubSeq(look.table, 1, PagesOf(end))]
        entries == request.pending \o [i \in 1..DraftBlock |-> Poison]
    IN  IF \/ old + Len(request.pending) # row.start
           \/ end > DraftMaxPosition \/ ~Valid(c.draft, {write})
        THEN Failed
        ELSE [ok |-> TRUE,
              cache |-> [c EXCEPT !.draft = DraftCut(Forwarded(@, write, entries), row),
                                  !.requests[row.id].pending = <<>>]]

\* A block is proposed and verified; the anchor alone stays committed.
Speculate(c, row, look, candidates) ==
    LET proposed == Propose(c, row, look)
        context == row.start + 1 + Candidates
        verify == [row EXCEPT !.tokens = @ \o candidates,
                              !.table = SubSeq(look.table, 1, PagesOf(context))]
        before == proposed.cache
        values == Hiddens(before.target, verify)
        target == Forwarded(before.target, verify, values)
    IN  IF ~proposed.ok THEN Failed
        ELSE IF \/ ~Valid(before.target, {verify})
                \/ ~CanDelta(target, row.id, row.start + 1, context)
                \/ ~CanTruncate(target, row.id, row.start + 1)
        THEN Failed
        ELSE [ok |-> TRUE, row |-> values[1],
              cache |-> [before EXCEPT
                 !.target = Truncate(target, row.id, row.start + 1),
                 !.requests[row.id] =
                    [known |-> TRUE, pending |-> Append(@.pending, values[1]),
                     verified |-> [tokens |-> verify.tokens, rows |-> values, next |-> 2,
                                   delta |-> Delta(target, row.id, row.start + 1, context)]]]]

\* Rows of a batch own disjoint pages, so they are run one after the other.
RunRow(state, row, decode, look, candidates) ==
    IF ~state.ok THEN Failed
    ELSE LET c == state.cache
             done == IF decode /\ Hit(c, row) THEN Confirm(c, row)
                     ELSE IF decode /\ CanDraft(c, row, look[row.id])
                     THEN Speculate(c, row, look[row.id], candidates[row.id])
                     ELSE Plain(c, row)
         IN  IF ~done.ok THEN Failed
             ELSE [ok |-> TRUE, cache |-> done.cache,
                   out |-> [r \in Request |-> IF r = row.id THEN done.row ELSE state.out[r]]]

\* forward_batch_lookahead
Forward(rows, look, c, decode, candidates) ==
    IF ~Valid(c.target, rows) THEN Failed
    ELSE FoldLeft(LAMBDA state, row : RunRow(state, row, decode, look, candidates),
                  [ok |-> TRUE, cache |-> c, out |-> [r \in Request |-> <<>>]],
                  SetToSortSeq(rows, LAMBDA a, b : a.id < b.id))

Selected(c, rows, next) == {c}

\* validate_batch_prefix
PrefixFits(p) ==
    /\ Len(p.draft) <= Len(p.target) /\ Len(p.target) <= MaxContext
    /\ Len(p.draft) <= DraftMaxPosition
    /\ Len(p.pending) = Len(p.target) - Len(p.draft)

Pending(c, r) == c.requests[r].pending

\* capture_prefix; the verified block is not part of it.
Taken(c, r) ==
    LET p == [target |-> Prefix(c.target, r),
              draft |-> IF SequenceLength(c.draft, r) > 0 THEN Prefix(c.draft, r) ELSE <<>>,
              pending |-> Pending(c, r)]
    IN  [ok |-> c.requests[r].known /\ c.target.position[r] # Absent /\ PrefixFits(p), prefix |-> p]

\* restore_prefix
Put(c, r, table, p) ==
    LET short == SubSeq(table, 1, PagesOf(Len(p.draft)))
    IN  IF \/ ~PrefixFits(p) \/ c.requests[r].known
           \/ ~CanRestore(c.target, r, table, p.target)
           \/ p.draft # <<>> /\ ~CanRestore(c.draft, r, short, p.draft)
        THEN Failed
        ELSE [ok |-> TRUE,
              cache |-> [target |-> Restored(c.target, r, table, p.target),
                         draft |-> IF p.draft = <<>> THEN c.draft
                                   ELSE Restored(c.draft, r, short, p.draft),
                         requests |-> [c.requests EXCEPT
                            ![r] = [known |-> TRUE, pending |-> p.pending, verified |-> NoBlock]]]]

Init == InitWith(EmptyCache)

PrefillStep ==
    \E S \in SUBSET Request \ {{}}, n \in 1..MaxChunk :
        Prefill(S, n, LAMBDA rows, look, c : Forward(rows, look, c, FALSE, <<>>), Selected, Dropped)

DecodeStep ==
    \E S \in SUBSET Request \ {{}} : \E extra \in Extras(S, Candidates) :
    \E candidates \in [{r \in S : extra[r] = Candidates} -> [1..Candidates -> Token]] :
        Decode(S, extra, LAMBDA rows, look, c : Forward(rows, look, c, TRUE, candidates), Selected, Dropped)

Next ==
    \/ \E r \in Request : Submit(r)
    \/ PrefillStep \/ DecodeStep
    \/ \E r \in Request : Cancel(r, Dropped)
    \/ \E r, f \in Request, token \in Token : Resume(r, f, token, Taken, Put)

Spec == Init /\ [][Next]_vars

----------------------------------------------------------------------------
\* The target's committed entries are the request's fed tokens, each in its
\* own page, whatever was verified ahead of them; and the drafter's entries
\* with the pending features are those of the fed tokens, each once.
CachesExact ==
    \A r \in Live :
        /\ HoldsText(cache.target, r, fed[r])
        /\ LET drafted == SequenceLength(cache.draft, r)
           IN  /\ HoldsText(cache.draft, r, drafted)
               /\ cache.requests[r].pending
                    = [i \in 1..(fed[r] - drafted) |-> SubSeq(toks[r], 1, drafted + i)]

\* A request that ended or was cancelled has left nothing in any cache.
NothingKept ==
    \A r \in Request \ Live :
        /\ cache.requests[r] = Unknown
        /\ cache.target.position[r] = Absent /\ cache.target.table[r] = <<>>
        /\ cache.draft.position[r] = Absent /\ cache.draft.table[r] = <<>>

==============================================================================
