--------------------------- MODULE GenerationOps ---------------------------
(***************************************************************************)
(* What the batch-one generators share: the validation of a request, the   *)
(* incremental stop-sequence matcher (one prefix function per pattern) and *)
(* the order in which the reasons to stop are considered.                  *)
(***************************************************************************)
EXTENDS Integers, Sequences, FiniteSets

Least(S) == CHOOSE x \in S : \A y \in S : x <= y

\* A request is [prompt, maxNew, eos, stops]; the model has the tokens vocab
\* and room for capacity positions.
ValidRequest(req, vocab, capacity) ==
    /\ vocab # {}
    /\ req.prompt # <<>>
    /\ \A i \in 1..Len(req.prompt) : req.prompt[i] \in vocab
    /\ Len(req.prompt) + req.maxNew <= capacity
    /\ req.eos \subseteq vocab

ValidControl(stops, vocab) ==
    \A i \in 1..Len(stops) :
        stops[i] # <<>> /\ \A j \in 1..Len(stops[i]) : stops[i][j] \in vocab

\* The longest border of pattern that token can extend.
Fall(pattern, prefix, length, token) ==
    LET fall[l \in 0..(Len(pattern) - 1)] ==
          IF l > 0 /\ pattern[l + 1] # token THEN fall[prefix[l]] ELSE l
    IN  fall[length]

\* The prefix function: the longest proper border of each prefix of pattern.
Borders(pattern) ==
    LET border[i \in 1..Len(pattern)] ==
          IF i = 1 THEN 0
          ELSE LET l == Fall(pattern, border, border[i - 1], pattern[i])
               IN  IF pattern[i] = pattern[l + 1] THEN l + 1 ELSE l
    IN  border

NewMatcher(stops) == [i \in 1..Len(stops) |-> 0]

\* The number of tokens of pattern matched once token has come.
Matched(pattern, length, token) ==
    LET l == Fall(pattern, Borders(pattern), length, token)
    IN  IF pattern[l + 1] = token THEN l + 1 ELSE l

\* The matcher after token, and the first pattern it completes (0: none).
Push(stops, matcher, token) ==
    LET now == [i \in 1..Len(stops) |-> Matched(stops[i], matcher[i], token)]
        full == {i \in 1..Len(stops) : now[i] = Len(stops[i])}
    IN  [matcher |-> [i \in 1..Len(stops) |->
                        IF i \in full THEN Borders(stops[i])[now[i]] ELSE now[i]],
         first |-> IF full = {} THEN 0 ELSE Least(full)]

None == <<"none">>
Cancelled == <<"cancelled">>
MaxNewTokens == <<"max">>
EosToken(token) == <<"eos", token>>
StopSequence(i) == <<"stop", i>>

\* Why the count-th token ends the request: end token, stop sequence, length.
Natural(req, count, token, first) ==
    CASE token \in req.eos -> EosToken(token)
      [] token \notin req.eos /\ first # 0 -> StopSequence(first)
      [] OTHER -> IF count = req.maxNew THEN MaxNewTokens ELSE None

\* The reference: the reason found by looking at the whole generated suffix,
\* never across the prompt.
Ends(gen, pattern) ==
    /\ Len(pattern) <= Len(gen)
    /\ pattern = SubSeq(gen, Len(gen) - Len(pattern) + 1, Len(gen))

ReferenceReason(req, gen) ==
    LET hits == {i \in 1..Len(req.stops) : Ends(gen, req.stops[i])}
    IN  IF gen = <<>> THEN IF req.maxNew = 0 THEN MaxNewTokens ELSE None
        ELSE CASE gen[Len(gen)] \in req.eos -> EosToken(gen[Len(gen)])
               [] gen[Len(gen)] \notin req.eos /\ hits # {} -> StopSequence(Least(hits))
               [] OTHER -> IF Len(gen) = req.maxNew THEN MaxNewTokens ELSE None
============================================================================
