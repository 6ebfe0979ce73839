-------------------------- MODULE SpeculativeLoop --------------------------
(***************************************************************************)
(* generate_causal_speculative_stream: a draft proposes a block, the       *)
(* target verifies it in one forward, and rejected blocks are undone by    *)
(* going back to the caches of before the block and replaying what was     *)
(* committed.  A cache is the sequence of tokens it was fed, and a row of  *)
(* logits is the history it was computed from; which token a row selects   *)
(* is arbitrary, and so is what the draft proposes.                        *)
(***************************************************************************)
EXTENDS GenerationOps

CONSTANTS Token,          \* the vocabulary
          Requests,       \* requests: [prompt, maxNew, eos, stops, draft]
          Capacity,       \* positions of the target
          DraftCapacity   \* positions of the draft

VARIABLES pc, req,
          flag,           \* the shared cancellation flag
          gen,            \* generated_token_ids
          source,         \* ghost: the row each generated token came from
          matcher, reason,
          target, draft,  \* target_cache, draft_cache
          targetNext, draftNext,
          before,         \* target_before, draft_before
          candidates, rows, committed

vars == <<pc, req, flag, gen, source, matcher, reason, target, draft,
          targetNext, draftNext, before, candidates, rows, committed>>

caches == <<target, draft, targetNext, draftNext>>
output == <<gen, source, matcher, reason>>
block == <<before, candidates, rows, committed>>

Init ==
    /\ pc = "validate"
    /\ req \in Requests
    /\ flag = FALSE
    /\ gen = <<>> /\ source = <<>> /\ matcher = <<>> /\ reason = MaxNewTokens
    /\ target = <<>> /\ draft = <<>> /\ targetNext = <<>> /\ draftNext = <<>>
    /\ before = <<>> /\ candidates = <<>> /\ rows = <<>> /\ committed = <<>>

Goto(label) == pc' = label /\ UNCHANGED <<req, flag>>

\* Everything that can be refused is refused before a token is selected; an
\* already cancelled request is marked so.
Validate ==
    /\ pc = "validate"
    /\ Goto(IF /\ ValidRequest(req, Token, Capacity)
               /\ ValidRequest(req, Token, DraftCapacity)
               /\ req.draft > 0
               /\ ValidControl(req.stops, Token)
            THEN "start" ELSE "error")
    /\ reason' = IF flag /\ pc' = "start" THEN Cancelled ELSE reason
    /\ UNCHANGED <<gen, source, matcher, caches, block>>

\* The flag is read again; otherwise the prompt is fed to both models.
Start ==
    /\ pc = "start"
    /\ IF req.maxNew = 0 \/ flag
       THEN Goto("done") /\ UNCHANGED <<matcher, caches>>
       ELSE /\ Goto("head")
            /\ matcher' = NewMatcher(req.stops)
            /\ target' = req.prompt /\ draft' = req.prompt
            /\ targetNext' = req.prompt /\ draftNext' = req.prompt
    /\ UNCHANGED <<gen, source, reason, block>>

Stop(why) ==
    /\ Goto("done") /\ reason' = why
    /\ UNCHANGED <<gen, source, matcher, caches, block>>

\* The head of the loop: the caches are forked.
Round ==
    /\ pc = "head"
    /\ \/ flag /\ Stop(Cancelled)
       \/ /\ ~flag
          /\ Goto("propose")
          /\ before' = [target |-> target, draft |-> draft]
          /\ candidates' = <<>> /\ committed' = <<>> /\ rows' = <<>>
          /\ UNCHANGED <<output, caches>>

Budget == LET left == req.maxNew - Len(gen)
          IN  IF req.draft < left THEN req.draft ELSE left

BlockEnds ==
    IF candidates = <<>> THEN Budget = 0
    ELSE Len(candidates) = Budget \/ candidates[Len(candidates)] \in req.eos

\* One candidate, fed to the draft; an end token ends the block.
Propose ==
    /\ pc = "propose"
    /\ ~BlockEnds
    /\ \/ flag /\ Stop(Cancelled)
       \/ /\ ~flag
          /\ \E token \in Token :
                /\ candidates' = Append(candidates, token)
                /\ draft' = Append(draft, token)
          /\ draftNext' = draft'
          /\ Goto("propose")
          /\ UNCHANGED <<output, target, targetNext, before, rows, committed>>

\* The whole block through the target: row i follows candidate i.
Block ==
    /\ pc = "propose"
    /\ BlockEnds
    /\ target' = target \o candidates
    /\ rows' = [i \in 1..Len(candidates) |-> target \o SubSeq(candidates, 1, i)]
    /\ Goto("read")
    /\ UNCHANGED <<output, draft, targetNext, draftNext, before, candidates, committed>>

Read ==
    /\ pc = "read"
    /\ \/ flag /\ Stop(Cancelled)
       \/ ~flag /\ Goto("verify") /\ UNCHANGED <<output, caches, block>>

\* The row that candidate i is verified with.
Row(i) == IF i = 1 THEN targetNext ELSE rows[i - 1]

\* Emit token: it is kept whatever the callback and the flag say, and a
\* natural end wins over both.  The request ends or goes on at next.
Emit(token, row, next) ==
    /\ gen' = Append(gen, token)
    /\ source' = Append(source, row)
    /\ LET push == Push(req.stops, matcher, token)
           why == Natural(req, Len(gen) + 1, token, push.first)
       IN  /\ matcher' = push.matcher
           /\ \/ why # None /\ Goto("done") /\ reason' = why
              \/ \* the callback breaks, or the flag is set
                 why = None /\ Goto("done") /\ reason' = Cancelled
              \/ why = None /\ ~flag /\ Goto(next) /\ reason' = reason

\* Verify the next candidate: the target's own token is committed.
Verify ==
    /\ pc = "verify"
    /\ Len(committed) < Len(candidates)
    /\ LET i == Len(committed) + 1
       IN  \E token \in Token :
              /\ committed' = Append(committed, token)
              /\ Emit(token, Row(i), IF token = candidates[i] THEN "verify" ELSE "reject")
    /\ UNCHANGED <<caches, before, candidates, rows>>

\* Both caches go back and are fed the committed tokens, one by one.
Replay == [target |-> before.target \o committed, draft |-> before.draft \o committed]

Reject ==
    /\ pc = "reject"
    /\ target' = Replay.target /\ draft' = Replay.draft
    /\ targetNext' = target' /\ draftNext' = draft'
    /\ Goto("head")
    /\ UNCHANGED <<output, block>>

\* Every candidate was accepted: one more token from the last row.
Bonus ==
    /\ pc = "verify"
    /\ Len(committed) = Len(candidates)
    /\ \E token \in Token :
          /\ Emit(token, rows[Len(candidates)], "head")
          /\ IF pc' = "head"
             THEN /\ target' = Append(target, token) /\ draft' = Append(draft, token)
                  /\ targetNext' = target' /\ draftNext' = draft'
             ELSE UNCHANGED caches
    /\ UNCHANGED block

\* A forward, a readback or the final synchronisation fails.
Fail ==
    /\ \/ pc \in {"propose", "verify", "reject"}
       \/ pc = "start" /\ req.maxNew > 0 /\ ~flag
       \/ pc = "done" /\ target # <<>>
    /\ Goto("error")
    /\ UNCHANGED <<output, caches, block>>

Step == Validate \/ Start \/ Round \/ Propose \/ Block \/ Read \/ Verify \/ Reject \/ Bonus

\* GenerationCancellation::cancel, by another thread.
Cancel == ~flag /\ flag' = TRUE /\ UNCHANGED <<pc, req, output, caches, block>>

Next == Step \/ Fail \/ Cancel

Spec == Init /\ [][Next]_vars

----------------------------------------------------------------------------
\* Every generated token is the target's token for the prompt and the tokens
\* generated before it, as if no draft existed: rejected candidates leave no
\* trace in the rows that tokens are selected from.
OutputOrdinary ==
    \A i \in 1..Len(gen) : source[i] = req.prompt \o SubSeq(gen, 1, i - 1)

\* Generation goes on exactly as long as the ordinary loop would: no token
\* follows a natural end found by rescanning the suffix, and a natural end is
\* reported as what it is even when a cancellation comes with it.
FinishOrdinary ==
    /\ \A n \in 0..(Len(gen) - 1) : ReferenceReason(req, SubSeq(gen, 1, n)) = None
    /\ pc \in {"head", "propose", "read", "verify", "reject"} => ReferenceReason(req, gen) = None
    /\ pc = "done" /\ gen # <<>> =>
         \/ reason = ReferenceReason(req, gen)
         \/ reason = Cancelled /\ ReferenceReason(req, gen) = None

\* At the head of a round both caches hold the prompt and the generated
\* tokens, and the pending rows are theirs.
CachesCommitted ==
    pc = "head" =>
      LET history == req.prompt \o gen
      IN  target = history /\ draft = history /\ targetNext = history /\ draftNext = history

==============================================================================
