---------------------------- MODULE DraftedCache ----------------------------
(***************************************************************************)
(* The cache of a Qwen3 target with a block drafter: one step may run a    *)
(* whole proposed block through the target and answer the following steps  *)
(* from it as long as the tokens fed are the proposed ones.  The drafter   *)
(* reads the target's hidden features of the committed tokens.             *)
(*                                                                         *)
(* Whatever the target computes at a position is the history up to it: its *)
(* key and value, its features and its row of logits.  What the drafter    *)
(* proposes is arbitrary.                                                  *)
(***************************************************************************)
EXTENDS Integers, Sequences

CONSTANTS Token,
          BlockSize,        \* positions of the drafter's block
          AnchorFirst,      \* the anchor's row proposes too
          MaxPosition,      \* max_position_embeddings of the target
          DraftMaxPosition, \* and of the drafter
          MaxFeed           \* bound: tokens of one call

\* What a configuration must satisfy.
DraftedConstants ==
    /\ BlockSize \in Nat /\ BlockSize >= 2 /\ BlockSize <= DraftMaxPosition
    /\ AnchorFirst \in BOOLEAN
    /\ MaxPosition \in Nat \ {0} /\ DraftMaxPosition \in Nat /\ MaxPosition <= DraftMaxPosition
    /\ MaxFeed \in Nat \ {0}

VARIABLES fed,      \* the tokens the caller has fed
          target,   \* target KV: what each position holds
          draft,    \* draft KV: the features each position was made of
          position, pending,
          verified, \* the verified block, or NoBlock
          row,      \* the row of the last call
          saved     \* a captured record, or NoRecord

vars == <<fed, target, draft, position, pending, verified, row, saved>>

NoBlock == [tokens |-> <<>>, rows |-> <<>>, next |-> 1]
NoRecord == [position |-> -1]

Init ==
    /\ fed = <<>> /\ target = <<>> /\ draft = <<>> /\ position = 0
    /\ pending = <<>> /\ verified = NoBlock /\ row = <<>> /\ saved = NoRecord

\* What the target computes for tokens after the contents of kv: at each
\* position the history that its attention saw.
History(kv) == IF kv = <<>> THEN <<>> ELSE kv[Len(kv)]

Computed(kv, tokens) == [i \in 1..Len(tokens) |-> History(kv) \o SubSeq(tokens, 1, i)]

Truncated(kv) == SubSeq(kv, 1, position)

CanDraft(tokens) ==
    /\ Len(tokens) = 1 /\ position > 0 /\ pending # <<>>
    /\ position + BlockSize + 1 <= MaxPosition
    /\ position + BlockSize + 1 <= DraftMaxPosition

Candidates == IF AnchorFirst THEN BlockSize ELSE BlockSize - 1

Accepted(tokens) == position + Len(tokens) <= MaxPosition

\* The one token is the next of the verified block: nothing is computed.
Confirm(token) ==
    /\ Accepted(<<token>>)
    /\ verified # NoBlock /\ verified.tokens[verified.next] = token
    /\ row' = verified.rows[verified.next]
    /\ pending' = Append(pending, verified.rows[verified.next])
    /\ position' = position + 1
    /\ verified' = IF verified.next = Len(verified.tokens) THEN NoBlock
                   ELSE [verified EXCEPT !.next = @ + 1]
    /\ fed' = Append(fed, token)
    /\ UNCHANGED <<target, draft, saved>>

Misses(tokens) ==
    \/ Len(tokens) # 1 \/ verified = NoBlock
    \/ verified # NoBlock /\ verified.tokens[verified.next] # tokens[1]

\* propose: the drafter's cache takes the pending features, and the block it
\* appended behind them is cut off again.
Consumed == [draft |-> draft \o pending, pending |-> <<>>]

\* A block is proposed and verified; the anchor alone is committed.
Speculate(token) ==
    /\ Accepted(<<token>>) /\ Misses(<<token>>) /\ CanDraft(<<token>>)
    /\ \E candidates \in [1..Candidates -> Token] :
          LET span == <<token>> \o candidates
              kv == Truncated(target)
              rows == Computed(kv, span)
          IN  /\ target' = kv \o rows
              /\ row' = rows[1]
              /\ pending' = Append(Consumed.pending, rows[1])
              /\ verified' = IF Len(span) = 1 THEN NoBlock
                             ELSE [tokens |-> span, rows |-> rows, next |-> 2]
    /\ draft' = Consumed.draft
    /\ position' = position + 1
    /\ fed' = Append(fed, token)
    /\ UNCHANGED saved

\* Prompt, several tokens, or no room for a block.
Plain(tokens) ==
    /\ Accepted(tokens) /\ Misses(tokens) /\ ~CanDraft(tokens)
    /\ LET kv == Truncated(target)
           rows == Computed(kv, tokens)
       IN  /\ target' = kv \o rows
           /\ row' = rows[Len(rows)]
           /\ pending' = pending \o rows
    /\ verified' = NoBlock
    /\ position' = position + Len(tokens)
    /\ fed' = fed \o tokens
    /\ UNCHANGED <<draft, saved>>

\* check_pending
PendingFits(p, rows) == Len(p) = rows

Captured == Truncated(target)

\* capture_generation; draft positions ahead of the target are refused.
Capture ==
    /\ Len(draft) <= position /\ PendingFits(pending, position - Len(draft))
    /\ saved' = [position |-> position, target |-> Captured, draft |-> draft,
                 pending |-> pending, fed |-> fed, row |-> row]
    /\ UNCHANGED <<fed, target, draft, position, pending, verified, row>>

Restorable(r) ==
    /\ Len(r.draft) <= r.position /\ PendingFits(r.pending, r.position - Len(r.draft))
    /\ Len(r.target) = r.position

\* restore_generation: the verified block is not part of the record.
Restore ==
    /\ saved # NoRecord /\ Restorable(saved)
    /\ target' = saved.target /\ draft' = saved.draft /\ position' = saved.position
    /\ pending' = saved.pending /\ verified' = NoBlock
    /\ fed' = saved.fed /\ row' = saved.row
    /\ UNCHANGED saved

Texts == UNION {[1..n -> Token] : n \in 1..MaxFeed}

Next ==
    \/ \E token \in Token : Confirm(token) \/ Speculate(token)
    \/ \E tokens \in Texts : Plain(tokens)
    \/ Capture \/ Restore

Spec == Init /\ [][Next]_vars

----------------------------------------------------------------------------
Prefixes(text, from, to) == [i \in 1..(to - from) |-> SubSeq(text, 1, from + i)]

\* The answer to every call is the target's row for exactly the tokens fed,
\* whether it was computed now, earlier in a block, or after a restore.
RowExact == row = fed

\* Committed positions of the target hold the fed history; the drafter's
\* cache and the pending features together are those of the fed tokens, each
\* once and in order.
CachesAligned ==
    /\ position = Len(fed)
    /\ Len(target) >= position /\ SubSeq(target, 1, position) = Prefixes(fed, 0, position)
    /\ draft \o pending = Prefixes(fed, 0, position)

\* A cache at a token boundary can always be recorded and its record restored.
AlwaysRecordable ==
    /\ Len(draft) <= position /\ PendingFits(pending, position - Len(draft))
    /\ saved # NoRecord => Restorable(saved)

\* Neither cache is ever asked for a position behind its context.
WithinContext == Len(target) <= MaxPosition /\ Len(draft) + Len(pending) <= DraftMaxPosition
============================================================================
