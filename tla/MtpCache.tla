------------------------------ MODULE MtpCache ------------------------------
(***************************************************************************)
(* Multi-token prediction: predictor d reads, at target position p > d,    *)
(* the token at p and the hidden state of level d at p - 1 (level 0 is the *)
(* target, level d + 1 the output of predictor d).  Each predictor keeps   *)
(* its own cache, d + 1 positions shorter than the target's, and the last  *)
(* hidden state of every level is kept between calls.                      *)
(*                                                                         *)
(* A hidden state is <<level, history>>; a forward with inputs that do not *)
(* belong together yields Bad.                                             *)
(***************************************************************************)
EXTENDS Integers, Sequences

CONSTANTS Token, Predictors, MaxPosition,
          MaxFeed    \* bound: tokens of one call

\* What a configuration must satisfy.
MtpConstants ==
    /\ Predictors \in Nat \ {0} /\ MaxPosition \in Nat \ {0} /\ MaxFeed \in Nat \ {0}

VARIABLES fed,       \* the tokens the caller has fed
          target,    \* target KV: the history at each position
          layers,    \* predictor caches: layers[d][i]
          position, tails, verified, row,
          drafted,   \* ghost: the hidden states candidates were selected from
          saved

vars == <<fed, target, layers, position, tails, verified, row, drafted, saved>>

Depth == 0..(Predictors - 1)
Level == 0..Predictors
Bad == <<-1, <<>>>>
NoTail == <<>>
NoBlock == [tokens |-> <<>>, rows |-> <<>>, next |-> 1]
NoRecord == [position |-> -1]

Init ==
    /\ fed = <<>> /\ target = <<>> /\ position = 0 /\ row = <<>>
    /\ layers = [d \in Depth |-> <<>>]
    /\ tails = [l \in Level |-> NoTail]
    /\ verified = NoBlock /\ drafted = <<>> /\ saved = NoRecord

History(kv) == IF kv = <<>> THEN <<>> ELSE kv[Len(kv)]
Computed(kv, tokens) == [i \in 1..Len(tokens) |-> History(kv) \o SubSeq(tokens, 1, i)]

\* forward_hidden_aligned for one token: predictor d with its cache, rotated
\* at start + offset.  The output belongs to the token when the previous
\* hidden state, the cache and the rotary position all continue one history.
Forward(d, layer, offset, token, previous) ==
    IF /\ previous # Bad /\ previous # NoTail
       /\ previous[1] = d
       /\ Len(layer) + offset = Len(previous[2])
       /\ layer = [i \in 1..Len(layer) |-> <<d + 1, SubSeq(previous[2], 1, d + 1 + i)>>]
    THEN <<d + 1, Append(previous[2], token)>>
    ELSE Bad

\* The same for several tokens: the outputs appended to layer.
ForwardAll(d, layer, offset, tokens, previous) ==
    LET after[i \in 0..Len(tokens)] ==
          IF i = 0 THEN layer
          ELSE Append(after[i - 1], Forward(d, after[i - 1], offset, tokens[i], previous[i]))
    IN  SubSeq(after[Len(tokens)], Len(layer) + 1, Len(layer) + Len(tokens))

\* The hidden states one position before first .. first + count - 1, of which
\* the first is the kept tail when the call starts there.
Previous(start, first, count, last, upstream, from) ==
    IF first = start THEN <<last>> \o SubSeq(upstream, 1, count - 1)
    ELSE SubSeq(upstream, first - from, first - from + count - 1)

\* consume_confirmed: the levels one after the other.  upstream holds the
\* outputs of the level below from position from on, last its tail of before.
Confirmed(tokens, hidden) ==
    LET start == position
        end == start + Len(tokens)
        first(d) == IF start > d + 1 THEN start ELSE d + 1
        at[d \in 0..Predictors] ==
          IF d = 0
          THEN [layers |-> layers, tails |-> [tails EXCEPT ![0] = hidden[Len(hidden)]],
                upstream |-> hidden, from |-> start, last |-> tails[0]]
          ELSE LET below == at[d - 1]
                   k == d - 1
                   count == end - first(k)
               IN  IF count <= 0 THEN below
                   ELSE LET out == ForwardAll(k, layers[k], k + 1,
                                     SubSeq(tokens, first(k) - start + 1, Len(tokens)),
                                     Previous(start, first(k), count, below.last,
                                              below.upstream, below.from))
                        IN  [layers |-> [below.layers EXCEPT ![k] = @ \o out],
                             tails |-> [below.tails EXCEPT ![d] = out[count]],
                             upstream |-> out, from |-> first(k), last |-> tails[d]]
    IN  at[Predictors]

\* propose: step s runs the predictors from s on over a fork of the caches;
\* predictor s selects candidate s + 1.  The hidden states selected from.
Proposed(span) ==
    LET at[s \in 0..(Len(span) - 1)] ==
          IF s = 0 THEN [layers |-> layers, tails |-> tails, from |-> <<>>]
          ELSE LET was == at[s - 1]
                   k == s - 1
                   out == [d \in Depth |-> Forward(d, was.layers[d], d + 1, span[s], was.tails[d])]
               IN  [layers |-> [d \in Depth |-> IF d < k THEN was.layers[d]
                                                ELSE Append(was.layers[d], out[d])],
                    tails |-> [l \in Level |-> IF l <= k THEN was.tails[l] ELSE out[l - 1]],
                    from |-> Append(was.from, out[k])]
    IN  at[Len(span) - 1].from

Available ==
    LET room == MaxPosition - position - 1
    IN  IF room < Predictors THEN room ELSE Predictors

Accepted(tokens) == position + Len(tokens) <= MaxPosition

Misses(tokens) ==
    \/ Len(tokens) # 1 \/ verified = NoBlock
    \/ verified # NoBlock /\ verified.tokens[verified.next] # tokens[1]

Ready(tokens) ==
    /\ Len(tokens) = 1 /\ \A l \in Level : tails[l] # NoTail
    /\ position + 1 < MaxPosition

\* The history of a target row as the hidden state of level 0.
Hidden(rows) == [i \in 1..Len(rows) |-> <<0, rows[i]>>]

Commit(tokens, rows) ==
    /\ layers' = Confirmed(tokens, Hidden(rows)).layers
    /\ tails' = Confirmed(tokens, Hidden(rows)).tails
    /\ position' = position + Len(tokens)
    /\ fed' = fed \o tokens

\* The token is the next of the verified block.
Confirm(token) ==
    /\ Accepted(<<token>>)
    /\ verified # NoBlock /\ verified.tokens[verified.next] = token
    /\ row' = verified.rows[verified.next]
    /\ Commit(<<token>>, <<verified.rows[verified.next]>>)
    /\ verified' = IF verified.next = Len(verified.tokens) THEN NoBlock
                   ELSE [verified EXCEPT !.next = @ + 1]
    /\ UNCHANGED <<target, drafted, saved>>

Truncated == SubSeq(target, 1, position)

Speculate(token) ==
    /\ Accepted(<<token>>) /\ Misses(<<token>>) /\ Ready(<<token>>)
    /\ \E candidates \in [1..Available -> Token] :
          LET span == <<token>> \o candidates
              rows == Computed(Truncated, span)
          IN  /\ target' = Truncated \o rows
              /\ row' = rows[1]
              /\ drafted' = [i \in 1..Available |->
                               [hidden |-> Proposed(span)[i],
                                history |-> fed \o SubSeq(span, 1, i)]]
              /\ Commit(<<token>>, <<rows[1]>>)
              /\ verified' = IF Len(span) = 1 THEN NoBlock
                             ELSE [tokens |-> span, rows |-> rows, next |-> 2]
    /\ UNCHANGED saved

Plain(tokens) ==
    /\ Accepted(tokens) /\ Misses(tokens) /\ ~Ready(tokens)
    /\ LET rows == Computed(Truncated, tokens)
       IN  /\ target' = Truncated \o rows
           /\ row' = rows[Len(rows)]
           /\ Commit(tokens, rows)
    /\ verified' = NoBlock
    /\ UNCHANGED <<drafted, saved>>

Behind(p, d) == IF p > d + 1 THEN p - d - 1 ELSE 0

\* check_tails and the positions of the predictor caches.
Consistent(c) ==
    /\ \A d \in Depth : Len(c.layers[d]) = Behind(c.position, d)
    /\ \A l \in Level : c.tails[l] # NoTail <=> c.position > l

Current == [position |-> position, target |-> Truncated, layers |-> layers,
            tails |-> tails, fed |-> fed, row |-> row]

Capture ==
    /\ Consistent(Current)
    /\ saved' = Current
    /\ UNCHANGED <<fed, target, layers, position, tails, verified, row, drafted>>

Restore ==
    /\ saved # NoRecord /\ Consistent(saved) /\ Len(saved.target) = saved.position
    /\ target' = saved.target /\ layers' = saved.layers /\ position' = saved.position
    /\ tails' = saved.tails /\ verified' = NoBlock
    /\ fed' = saved.fed /\ row' = saved.row /\ drafted' = <<>>
    /\ UNCHANGED saved

Texts == UNION {[1..n -> Token] : n \in 1..MaxFeed}

Next ==
    \/ \E token \in Token : Confirm(token) \/ Speculate(token)
    \/ \E tokens \in Texts : Plain(tokens)
    \/ Capture \/ Restore

Spec == Init /\ [][Next]_vars

----------------------------------------------------------------------------
\* Mutant: the label of the input token.
TeacherForced_Input(text) ==
    LET n == Len(text)
        hidden == [i \in 1..n |-> <<0, SubSeq(text, 1, i)>>]
        out[d \in 0..Predictors] ==
          IF d = 0 THEN hidden
          ELSE IF d + 1 >= n THEN <<>>
          ELSE ForwardAll(d - 1, <<>>, d, SubSeq(text, d + 1, n), SubSeq(out[d - 1], 1, n - d))
    IN  [d \in Depth |->
           IF d + 2 >= n THEN <<>>
           ELSE [i \in 1..(n - d - 2) |-> [hidden |-> out[d + 1][i], label |-> text[d + 1 + i]]]]

\* teacher_forced over a whole text: the outputs of each depth with their
\* labels.
TeacherForced(text) ==
    LET n == Len(text)
        hidden == [i \in 1..n |-> <<0, SubSeq(text, 1, i)>>]
        out[d \in 0..Predictors] ==
          IF d = 0 THEN hidden
          ELSE IF d + 1 >= n THEN <<>>
          ELSE ForwardAll(d - 1, <<>>, d, SubSeq(text, d + 1, n), SubSeq(out[d - 1], 1, n - d))
    IN  [d \in Depth |->
           IF d + 2 >= n THEN <<>>
           ELSE [i \in 1..(n - d - 2) |-> [hidden |-> out[d + 1][i], label |-> text[d + 2 + i]]]]

----------------------------------------------------------------------------
\* Every answer is the target's row for exactly the tokens fed.
RowExact == row = fed

\* At every call boundary each predictor cache holds the outputs for the fed
\* history, one token behind the level below it, and each tail is the hidden
\* state of its level for the whole of it.
PredictorsAligned ==
    /\ position = Len(fed)
    /\ \A d \in Depth :
          layers[d] = [i \in 1..Behind(position, d) |-> <<d + 1, SubSeq(fed, 1, d + 1 + i)>>]
    /\ \A l \in Level : tails[l] = IF position > l THEN <<l, fed>> ELSE NoTail

\* Candidate s is selected from predictor s, over the committed text and the
\* candidates before it, although the block was never confirmed.
ProposalsAligned ==
    \A i \in 1..Len(drafted) : drafted[i].hidden = <<i, drafted[i].history>>

\* Training sees the same alignment: each output row of depth d is labelled
\* with the token d + 2 positions after the hidden state it starts from.
TeacherAligned ==
    \A d \in Depth : \A i \in 1..Len(TeacherForced(fed)[d]) :
        LET pair == TeacherForced(fed)[d][i]
        IN  /\ pair.hidden = <<d + 1, SubSeq(fed, 1, d + 1 + i)>>
            /\ pair.label = fed[Len(pair.hidden[2]) + 1]

\* No block reaches behind the target's context.
WithinContext == Len(target) <= MaxPosition
============================================================================
