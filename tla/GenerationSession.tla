------------------------- MODULE GenerationSession -------------------------
(***************************************************************************)
(* Batch-one generation without a draft: the ordinary loop                 *)
(* (generate_with_selector_stream), the caller-driven session              *)
(* (CausalGenerationSession) and the records from which a session goes on, *)
(* in another process perhaps.  A cache is the sequence of tokens it was   *)
(* fed; a row of logits is the history it was computed from, and the token *)
(* it selects is arbitrary.  The sampler is the number of draws it made.   *)
(***************************************************************************)
EXTENDS GenerationOps

CONSTANTS Token,       \* the vocabulary
          Requests,    \* requests: [prompt, maxNew, eos, stops, sampled]
          Capacity,    \* positions of the model
          MaxRestores  \* bound: restores in a behaviour

VARIABLES req,         \* the request
          flag,        \* the cancellation flag of the live control
          s,           \* the live session or loop, NoSession when there is none
          saved,       \* the record on disk, NoRecord when there is none
          prefix,      \* a captured PrefilledPrompt: [tokens, cache, logits]
          restores

vars == <<req, flag, s, saved, prefix, restores>>

NoSession == [kind |-> "none"]
NoRecord == [kind |-> "none"]
NoRow == <<0>>
NoToken == 0
NoPrefix == [tokens |-> <<>>, cache |-> <<>>, logits |-> NoRow]

Init ==
    /\ req \in Requests
    /\ flag \in BOOLEAN
    /\ s = NoSession /\ saved = NoRecord /\ prefix = NoPrefix /\ restores = 0

\* source and draw are ghosts: the row each token came from and the draws
\* made before it.
Fresh(kind, reason) ==
    [kind |-> kind, gen |-> <<>>, source |-> <<>>, draw |-> <<>>, sampler |-> 0,
     matcher |-> NewMatcher(req.stops), cache |-> <<>>, logits |-> NoRow,
     pending |-> NoToken, processed |-> 0, reason |-> reason, fault |-> FALSE]

Acceptable == ValidRequest(req, Token, Capacity) /\ ValidControl(req.stops, Token)

\* PrefilledPrompt::validate
Extended(p) ==
    /\ p.tokens # <<>>
    /\ Len(p.tokens) <= Len(req.prompt)
    /\ p.tokens = SubSeq(req.prompt, 1, Len(p.tokens))

\* The cache and row of the prompt: the prefix's own when it is the whole
\* prompt, else the suffix is forwarded.
Prefilled(p) ==
    IF Len(p.tokens) = Len(req.prompt) THEN [cache |-> p.cache, logits |-> p.logits]
    ELSE LET cache == p.cache \o SubSeq(req.prompt, Len(p.tokens) + 1, Len(req.prompt))
         IN  [cache |-> cache, logits |-> cache]

\* new_greedy, new_sampled and their prefilled forms.
New ==
    /\ s = NoSession /\ Acceptable
    /\ LET reason == CASE flag -> Cancelled
                       [] ~flag /\ req.maxNew = 0 -> MaxNewTokens
                       [] OTHER -> None
       IN  \/ reason # None /\ s' = Fresh("session", reason)
           \/ /\ reason = None
              /\ \E p \in {NoPrefix} \cup {q \in {prefix} : Extended(q)} :
                    s' = [Fresh("session", None) EXCEPT
                             !.cache = Prefilled(p).cache,
                             !.logits = Prefilled(p).logits,
                             !.processed = Len(req.prompt)]
    /\ UNCHANGED <<req, flag, saved, prefix, restores>>

\* prefilled_prompt: only between the prefill and the first selection.
Capture ==
    /\ s.kind = "session" /\ ~s.fault
    /\ s.processed = Len(req.prompt) /\ s.gen = <<>>
    /\ Len(s.cache) = Len(req.prompt) /\ s.logits # NoRow
    /\ prefix' = [tokens |-> req.prompt, cache |-> s.cache, logits |-> s.logits]
    /\ UNCHANGED <<req, flag, s, saved, restores>>

Live(kind) == s.kind = kind /\ (kind = "session" => ~s.fault)

\* finish: nothing stays pending.
Finish(x, why) == [x EXCEPT !.reason = why, !.pending = NoToken, !.logits = NoRow]

\* The token is kept; a natural end finishes, otherwise it is the next input.
Selected(x, token) ==
    LET push == Push(req.stops, x.matcher, token)
        why == Natural(req, Len(x.gen) + 1, token, push.first)
        kept == [x EXCEPT !.gen = Append(@, token), !.source = Append(@, x.logits),
                          !.draw = Append(@, x.sampler),
                          !.sampler = IF req.sampled THEN @ + 1 ELSE @,
                          !.matcher = push.matcher, !.logits = NoRow]
    IN  IF why # None THEN Finish(kept, why) ELSE [kept EXCEPT !.pending = token]

\* The selection of the last step is forwarded when the next one is asked for.
Forwarded(x) ==
    IF x.pending = NoToken THEN x
    ELSE LET cache == Append(x.cache, x.pending)
         IN  [x EXCEPT !.cache = cache, !.logits = cache, !.pending = NoToken,
                       !.processed = @ + 1]

\* step and step_with_logits_processor.
Step ==
    /\ Live("session") /\ s.reason = None
    /\ s' \in IF flag THEN {Finish(s, Cancelled)}
              ELSE {Selected(Forwarded(s), token) : token \in Token}
    /\ UNCHANGED <<req, flag, saved, prefix, restores>>

\* The forward fails, with or without the input in the cache, or the readback,
\* the processor or the selection does: the session keeps the fault.
StepFails ==
    /\ Live("session") /\ s.reason = None /\ ~flag
    /\ \E x \in {s, Forwarded(s),
                 [s EXCEPT !.cache = Forwarded(s).cache],
                 [Forwarded(s) EXCEPT !.sampler = @ + 1]} :
          s' = [x EXCEPT !.fault = TRUE]
    /\ UNCHANGED <<req, flag, saved, prefix, restores>>

\* run_stream: the callback breaks, or the flag is set, after a token.
Break ==
    /\ Live("session") /\ s.reason = None /\ s.gen # <<>>
    /\ s' = Finish(s, Cancelled)
    /\ UNCHANGED <<req, flag, saved, prefix, restores>>

\* A synchronisation fails: the end of run_stream, or a record.
SyncFails ==
    /\ Live("session") /\ s.processed > 0
    /\ s' = [s EXCEPT !.fault = TRUE]
    /\ UNCHANGED <<req, flag, saved, prefix, restores>>

\* record
Record ==
    /\ Live("session") /\ Len(s.cache) = s.processed
    /\ saved' = [kind |-> "record", maxNew |-> req.maxNew, stops |-> req.stops,
                 promptLength |-> Len(req.prompt), tokens |-> req.prompt \o s.gen,
                 gen |-> s.gen, processed |-> s.processed, pending |-> s.pending,
                 sampler |-> s.sampler, reason |-> s.reason, cache |-> s.cache,
                 logits |-> s.logits, source |-> s.source, draw |-> s.draw]
    /\ UNCHANGED <<req, flag, s, prefix, restores>>

\* The reason found by pushing the saved tokens through a new matcher, and
\* whether a token follows it.
Replayed(gen) ==
    LET at[n \in 0..Len(gen)] ==
          IF n = 0 THEN [matcher |-> NewMatcher(req.stops), natural |-> None, ok |-> TRUE]
          ELSE LET push == Push(req.stops, at[n - 1].matcher, gen[n])
               IN  [matcher |-> push.matcher,
                    natural |-> Natural(req, n, gen[n], push.first),
                    ok |-> at[n - 1].ok /\ at[n - 1].natural = None /\ gen[n] \in Token]
    IN  at[Len(gen)]

\* Mutant: a request that ended must have consumed every token.
Consumed_All(r) == r.promptLength + Len(r.gen)

\* Inputs consumed once the saved tokens were selected: all but the last.
Consumed(r) == IF r.gen = <<>> THEN r.promptLength ELSE r.promptLength + Len(r.gen) - 1

\* The checks of restore.
Restorable(r) ==
    LET count == Len(r.gen)
        natural == Replayed(r.gen).natural
    IN  /\ r.promptLength > 0 /\ r.promptLength + count = Len(r.tokens)
        /\ count <= r.maxNew
        /\ SubSeq(r.tokens, r.promptLength + 1, Len(r.tokens)) = r.gen
        /\ Acceptable /\ r.stops = req.stops
        /\ Replayed(r.gen).ok
        /\ CASE r.reason = Cancelled -> natural = None
             [] r.reason = MaxNewTokens /\ count = 0 -> r.maxNew = 0
             [] OTHER -> r.reason = natural /\ (count > 0 \/ r.maxNew > 0)
        /\ IF r.reason = None
           THEN /\ r.processed = Consumed(r)
                /\ IF count = 0 THEN r.pending = NoToken /\ r.logits # NoRow
                   ELSE r.pending = r.gen[count] /\ r.logits = NoRow
           ELSE /\ r.pending = NoToken /\ r.logits = NoRow
                /\ r.processed = Consumed(r) \/ (count = 0 /\ r.processed = 0)
        /\ ~(count = 0 /\ r.maxNew = 0 /\ r.processed # 0)
        /\ Len(r.cache) = r.processed

Sampler(r) == r.sampler

\* The session goes on from the record, in a process whose own control has a
\* new flag; whatever ran before is gone.
Restore ==
    /\ restores < MaxRestores /\ restores' = restores + 1
    /\ saved # NoRecord /\ Restorable(saved)
    /\ s' = [kind |-> "session", gen |-> saved.gen, source |-> saved.source,
             draw |-> saved.draw, sampler |-> Sampler(saved),
             matcher |-> Replayed(saved.gen).matcher, cache |-> saved.cache,
             logits |-> saved.logits, pending |-> saved.pending,
             processed |-> saved.processed, reason |-> saved.reason, fault |-> FALSE]
    /\ flag' = FALSE
    /\ UNCHANGED <<req, saved, prefix>>

\* The caller drops the session, keeping the captured prefix, and asks for a
\* request that may extend it.
Drop ==
    /\ s # NoSession /\ restores < MaxRestores /\ restores' = restores + 1
    /\ s' = NoSession /\ saved' = NoRecord
    /\ req' \in Requests /\ flag' = FALSE
    /\ UNCHANGED prefix

Cancel == ~flag /\ flag' = TRUE /\ UNCHANGED <<req, s, saved, prefix, restores>>

----------------------------------------------------------------------------
\* generate_with_selector_stream up to its loop.
LoopStart ==
    /\ s = NoSession /\ Acceptable
    /\ s' = IF req.maxNew = 0 \/ flag
            THEN Fresh("loop", IF flag THEN Cancelled ELSE MaxNewTokens)
            ELSE [Fresh("loop", None) EXCEPT !.cache = req.prompt, !.logits = req.prompt,
                                             !.processed = Len(req.prompt)]
    /\ UNCHANGED <<req, flag, saved, prefix, restores>>

\* One round: select, tell the callback, and forward at once unless it ends.
LoopStep ==
    /\ Live("loop") /\ s.reason = None
    /\ IF flag THEN s' = Finish(s, Cancelled)
       ELSE \E token \in Token :
              LET x == Selected(s, token)
              IN  \/ x.reason # None /\ s' = x
                  \/ x.reason = None /\ s' = Finish(x, Cancelled)
                  \/ x.reason = None /\ s' = Forwarded(x)
    /\ UNCHANGED <<req, flag, saved, prefix, restores>>

Next ==
    \/ New \/ Capture \/ Step \/ StepFails \/ Break \/ SyncFails
    \/ Record \/ Restore \/ Drop \/ Cancel \/ LoopStart \/ LoopStep

Spec == Init /\ [][Next]_vars

----------------------------------------------------------------------------
\* The n-th token is selected from the row of the prompt and the n - 1 tokens
\* before it and with the n-th draw, through every record, restore and prefix:
\* nothing is replayed, skipped or drawn twice.
HistoryExact ==
    s # NoSession =>
      \A n \in 1..Len(s.gen) :
          /\ s.source[n] = req.prompt \o SubSeq(s.gen, 1, n - 1)
          /\ s.draw[n] = IF req.sampled THEN n - 1 ELSE 0

\* Restore refuses no record that record wrote: its checks on the consumed
\* inputs, pending token, row and reason hold at every token boundary,
\* cancelled, ended or not.
RecordsRestore == saved # NoRecord => Restorable(saved)

\* A request ends exactly where rescanning its suffix says, before and after
\* a restore (the matcher is rebuilt, not saved).
EndsOrdinary ==
    s # NoSession =>
      /\ \A n \in 0..(Len(s.gen) - 1) : ReferenceReason(req, SubSeq(s.gen, 1, n)) = None
      /\ s.reason \in {ReferenceReason(req, s.gen)} \cup
                      (IF s.gen = <<>> \/ ReferenceReason(req, s.gen) = None
                       THEN {Cancelled} ELSE {})
============================================================================
