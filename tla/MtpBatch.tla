------------------------------ MODULE MtpBatch ------------------------------
(***************************************************************************)
(* The batched DeepSeek target with its chain of multi-token predictors.   *)
(* Predictor d combines the token at a position with the hidden state that *)
(* level d had one position earlier; its cache lies d + 1 positions behind *)
(* the text.  Every committed token is confirmed through all predictors,   *)
(* and the last hidden state of each level is kept as its tail.            *)
(***************************************************************************)
EXTENDS SpeculativeBatch

CONSTANT Predictors

Depth == 0..(Predictors - 1)

Level == 0..Predictors

NoTail == <<>>

NoBlock == [tokens |-> <<>>]

NoRequest == [tails |-> [l \in Level |-> NoTail], verified |-> NoBlock]

EmptyCache == [target |-> EmptyDense, predictors |-> [d \in Depth |-> EmptyDense],
               requests |-> [r \in Request |-> NoRequest]]

Dropped(c, live) ==
    [target |-> Retain(c.target, live),
     predictors |-> [d \in Depth |-> Retain(c.predictors[d], live)],
     requests |-> [r \in Request |-> IF r \in live THEN c.requests[r] ELSE NoRequest]]

Failed == [ok |-> FALSE]

\* predictor_batch on one row, within the shifted context.
PredictorRuns(d, c, row) ==
    Valid(c, {row}) /\ row.start + d + 1 + Len(row.tokens) <= MaxContext

\* The hidden states of level d at the positions first-1..context-2: the old
\* tail is the one before the row.
UpstreamOf(d, row, first, was, old) ==
    [i \in 1..(ContextOf(row) - first) |->
        IF first + i - 1 = row.start THEN old[d] ELSE was.values[first + i - 2]]

ShortTable(table, length) == SubSeq(table, 1, PagesOf(length))

\* confirm_batch, one row: hidden[p] is the target's hidden state at p.
Confirmed(c, row, hidden) ==
    LET old == c.requests[row.id].tails
        context == ContextOf(row)
        confirm(was, d) ==
          LET first == Larger(row.start, d + 1)
              write == [id |-> row.id, start |-> first - d - 1,
                        tokens |-> SubSeq(row.tokens, first - row.start + 1, Len(row.tokens)),
                        table |-> ShortTable(row.table, context - d - 1)]
              upstream == UpstreamOf(d, row, first, was, old)
              values == Values(was.cache.predictors[d], write, upstream, d + 2)
          IN  IF ~was.ok \/ first >= context THEN was
              ELSE IF \/ first = row.start /\ old[d] = NoTail
                      \/ ~PredictorRuns(d, was.cache.predictors[d], write)
              THEN [was EXCEPT !.ok = FALSE]
              ELSE [ok |-> TRUE,
                    cache |-> [was.cache EXCEPT
                       !.predictors[d] = Forwarded(@, write, values),
                       !.requests[row.id].tails[d + 1] = values[Len(values)]],
                    values |-> [p \in first..(context - 1) |-> values[p - first + 1]]]
    IN  FoldLeft(confirm,
                 [ok |-> TRUE, values |-> hidden,
                  cache |-> [c EXCEPT !.requests[row.id].tails[0] = hidden[context - 1]]],
                 [i \in 1..Predictors |-> i - 1])

Depths(step) == step..(Predictors - 1)

Upstream(c, row, was) == was.tails

\* propose_batch, one row: step k feeds candidate k to the predictors from k
\* on, over a copy of their caches; predictor k selects candidate k + 1.
\* from: the hidden states the candidates are selected from.
Proposed(c, row, look, span) ==
    LET feed(was, step) ==
          LET write(d) == LET at == SequenceLength(was.predictors[d], row.id)
                          IN  [id |-> row.id, start |-> at, tokens |-> <<span[step + 1]>>,
                               table |-> SubSeq(look.table, 1, PagesOf(at + 1))]
              values == [d \in Depths(step) |->
                           Values(was.predictors[d], write(d), <<Upstream(c, row, was)[d]>>, d + 2)]
          IN  IF ~was.ok THEN was
              ELSE IF \E d \in Depths(step) : \/ was.tails[d] = NoTail
                                              \/ ~PredictorRuns(d, was.predictors[d], write(d))
              THEN [was EXCEPT !.ok = FALSE]
              ELSE [ok |-> TRUE,
                    predictors |-> [d \in Depth |-> IF d \in Depths(step)
                                      THEN Forwarded(was.predictors[d], write(d), values[d])
                                      ELSE was.predictors[d]],
                    tails |-> [l \in Level |-> IF l - 1 \in Depths(step)
                                               THEN values[l - 1][1] ELSE was.tails[l]],
                    from |-> Append(was.from, values[step][1])]
    IN  FoldLeft(feed, [ok |-> TRUE, predictors |-> c.predictors,
                        tails |-> c.requests[row.id].tails, from |-> <<>>],
                 [i \in 1..(Len(span) - 1) |-> i - 1])

Hit(c, row) ==
    LET verified == c.requests[row.id].verified
    IN  verified # NoBlock /\ verified.tokens[verified.next] = row.tokens[1]

Advanced(verified) ==
    IF verified.next = Len(verified.tokens) THEN NoBlock ELSE [verified EXCEPT !.next = @ + 1]

Value(verified) == verified.rows[verified.next]

\* The row's token is the next of its verified block.
Verified(c, row) ==
    LET verified == c.requests[row.id].verified
        delta == verified.delta
        value == Value(verified)
    IN  IF ~CanAppendDelta(c.target, row.id, row.table, delta, verified.next - 2) THEN Failed
        ELSE [ok |-> TRUE, row |-> value, hidden |-> <<value>>, from |-> <<>>,
              cache |-> [c EXCEPT
                 !.target = AppendDelta(@, row.id, row.table, delta, verified.next - 2),
                 !.requests[row.id].verified = Advanced(verified)]]

Plain(c, row) ==
    LET values == Hiddens(c.target, row)
    IN  IF ~Valid(c.target, {row}) THEN Failed
        ELSE [ok |-> TRUE, row |-> values[Len(values)], hidden |-> values, from |-> <<>>,
              cache |-> [c EXCEPT !.target = Forwarded(@, row, values),
                                  !.requests[row.id].verified = NoBlock]]

\* How many candidates a row may propose.
Available(c, row, look) ==
    IF \A l \in Level : c.requests[row.id].tails[l] # NoTail
    THEN Smaller(Larger(look.count - 1, 0), Smaller(Predictors, MaxContext - ContextOf(row)))
    ELSE 0

Speculate(c, row, look, candidates) ==
    LET count == Available(c, row, look)
        span == row.tokens \o SubSeq(candidates, 1, count)
        proposed == Proposed(c, row, look, span)
        context == row.start + 1 + count
        verify == [row EXCEPT !.tokens = span, !.table = SubSeq(look.table, 1, PagesOf(context))]
        values == Hiddens(c.target, verify)
        target == Forwarded(c.target, verify, values)
    IN  IF ~proposed.ok \/ ~Valid(c.target, {verify}) THEN Failed
        ELSE IF \/ ~CanDelta(target, row.id, row.start + 1, context)
                \/ ~CanTruncate(target, row.id, row.start + 1)
        THEN Failed
        ELSE [ok |-> TRUE, row |-> values[1], hidden |-> <<values[1]>>,
              from |-> [i \in 1..count |-> [hidden |-> proposed.from[i], span |-> SubSeq(span, 1, i)]],
              cache |-> [c EXCEPT
                 !.target = Truncate(target, row.id, row.start + 1),
                 !.requests[row.id].verified =
                    [tokens |-> span, rows |-> values, next |-> 2,
                     delta |-> Delta(target, row.id, row.start + 1, context)]]]

\* One row: the target's part, then the confirmation.
RunRow(state, row, decode, look, candidates) ==
    IF ~state.ok THEN Failed
    ELSE LET c == state.cache
             done == IF decode /\ Hit(c, row) THEN Verified(c, row)
                     ELSE IF decode /\ Available(c, row, look[row.id]) > 0
                     THEN Speculate(c, row, look[row.id], candidates[row.id])
                     ELSE Plain(c, row)
             hidden == [p \in row.start..(ContextOf(row) - 1) |-> done.hidden[p - row.start + 1]]
             confirmed == Confirmed(done.cache, row, hidden)
         IN  IF ~done.ok THEN Failed
             ELSE IF ~confirmed.ok THEN Failed
             ELSE [ok |-> TRUE, cache |-> confirmed.cache,
                   out |-> [r \in Request |-> IF r = row.id THEN [logits |-> done.row, from |-> done.from]
                                              ELSE state.out[r]]]

\* forward_batch_lookahead
Forward(rows, look, c, decode, candidates) ==
    IF ~Valid(c.target, rows) THEN Failed
    ELSE FoldLeft(LAMBDA state, row : RunRow(state, row, decode, look, candidates),
                  [ok |-> TRUE, cache |-> c, out |-> [r \in Request |-> <<>>]],
                  SetToSortSeq(rows, LAMBDA a, b : a.id < b.id))

Selected(c, rows, next) == {c}

Behind(position, d) == Larger(position - d - 1, 0)

\* validate_prefix
PrefixFits(p) ==
    /\ Len(p.target) \in 1..MaxContext
    /\ \A d \in Depth : Len(p.predictors[d]) = Behind(Len(p.target), d)
    /\ \A l \in Level : p.tails[l] # NoTail <=> Len(p.target) > l

\* capture_prefix
Taken(c, r) ==
    LET p == [target |-> Prefix(c.target, r),
              predictors |-> [d \in Depth |-> IF SequenceLength(c.predictors[d], r) > 0
                                              THEN Prefix(c.predictors[d], r) ELSE <<>>],
              tails |-> c.requests[r].tails]
    IN  [ok |-> c.target.position[r] # Absent /\ PrefixFits(p), prefix |-> p]

\* restore_prefix
Put(c, r, table, p) ==
    LET short(d) == SubSeq(table, 1, PagesOf(Len(p.predictors[d])))
    IN  IF \/ ~PrefixFits(p) \/ ~CanRestore(c.target, r, table, p.target)
           \/ \E d \in Depth : /\ p.predictors[d] # <<>>
                               /\ ~CanRestore(c.predictors[d], r, short(d), p.predictors[d])
        THEN Failed
        ELSE [ok |-> TRUE,
              cache |-> [target |-> Restored(c.target, r, table, p.target),
                         predictors |-> [d \in Depth |->
                            IF p.predictors[d] = <<>> THEN c.predictors[d]
                            ELSE Restored(c.predictors[d], r, short(d), p.predictors[d])],
                         requests |-> [c.requests EXCEPT ![r] = [tails |-> p.tails, verified |-> NoBlock]]]]

Init == InitWith(EmptyCache)

PrefillStep ==
    \E S \in SUBSET Request \ {{}}, n \in 1..MaxChunk :
        Prefill(S, n, LAMBDA rows, look, c : Forward(rows, look, c, FALSE, <<>>), Selected, Dropped)

DecodeStep ==
    \E S \in SUBSET Request \ {{}} : \E extra \in Extras(S, Predictors) :
    \E candidates \in [{r \in S : extra[r] > 0} -> [1..Predictors -> Token]] :
        Decode(S, extra, LAMBDA rows, look, c : Forward(rows, look, c, TRUE, candidates), Selected, Dropped)

Next ==
    \/ \E r \in Request : Submit(r) \/ Cancel(r, Dropped)
    \/ PrefillStep \/ DecodeStep
    \/ \E r, f \in Request, token \in Token : Resume(r, f, token, Taken, Put)

Spec == Init /\ [][Next]_vars

----------------------------------------------------------------------------
\* Each row of logits is the target's for exactly the request's own tokens.
RowsExact == \A o \in out : o.row.logits = o.text

\* Each candidate is selected from the hidden state of the request's text
\* followed by the candidates before it.
ProposalsExact ==
    \A o \in out : \A i \in DOMAIN o.row.from :
        o.row.from[i].hidden = SubSeq(o.text, 1, Len(o.text) - 1) \o o.row.from[i].span

\* The target holds the fed text; predictor d holds it from its second
\* position less d on, and the tail of each level is its state at the last
\* fed token.
PredictorsExact ==
    \A r \in Live :
        /\ HoldsText(cache.target, r, fed[r])
        /\ \A d \in Depth :
              /\ SequenceLength(cache.predictors[d], r) = Behind(fed[r], d)
              /\ \A i \in 1..Behind(fed[r], d) :
                    At(cache.predictors[d], cache.predictors[d].table[r], i - 1) = SubSeq(toks[r], 1, i + d + 1)
        /\ \A l \in Level : cache.requests[r].tails[l]
                               = IF fed[r] > l THEN SubSeq(toks[r], 1, fed[r]) ELSE NoTail

============================================================================
