--------------------------- MODULE TokenSampling ---------------------------
(***************************************************************************)
(* How a token is drawn: penalties, temperature, top-k, nucleus and min-p  *)
(* filtering, the categorical draw, and the rejection-corrected test of a  *)
(* draft token.  Numbers are exact rationals: a logit is a small integer   *)
(* or Masked (negative infinity), its weight a power of Base (the          *)
(* temperature), probabilities are weights over their sum, and a uniform   *)
(* draw is one of Grid equally likely points.  Rounding is left out.       *)
(***************************************************************************)
EXTENDS Integers, Sequences, FiniteSets, FiniteSetsExt

CONSTANTS Logit,      \* finite logits, as integers
          Vocab,      \* number of tokens
          Base,       \* exp(1 / temperature)
          Parts,      \* top_p and min_p are fractions of Parts
          Mass,       \* total of the distributions given to verify_draft
          Grid        \* points of a uniform draw, a multiple of 1..Mass

\* What a configuration must satisfy.
SamplingConstants ==
    /\ Vocab \in Nat \ {0} /\ Base \in Nat \ {0, 1} /\ Parts \in Nat \ {0}
    /\ Mass \in Nat \ {0} /\ Grid \in Nat \ {0}
    /\ \A n \in 1..Mass : Grid % n = 0

Tokens == 1..Vocab
Masked == -1000
Offset == IF Logit = {} THEN 0 ELSE 0 - Min(Logit)

\* SamplingOptions: divide positive and multiply negative logits of seen
\* tokens by rep; subtract pres + freq * count from the generated ones.
Occurrences(text, t) == Cardinality({i \in 1..Len(text) : text[i] = t})

Repeated(value, rep) == IF value > 0 THEN value \div rep ELSE value * rep

Penalized(logits, opt, prompt, generated) ==
    [t \in Tokens |->
        LET seen == Occurrences(prompt \o generated, t) > 0
            value == IF logits[t] # Masked /\ seen
                     THEN Repeated(logits[t], opt.rep) ELSE logits[t]
            count == Occurrences(generated, t)
        IN  IF value # Masked /\ count > 0
            THEN value - (opt.pres + opt.freq * count) ELSE value]

\* Order of the filters: by logit, ties by index.
Below(logits, t, u) == logits[t] < logits[u] \/ (logits[t] = logits[u] /\ t < u)

\* The k-th largest logit; every token tied with it stays.
Threshold(logits, topK) ==
    IF topK = 0 \/ topK >= Vocab THEN Masked
    ELSE LET rank == Vocab - topK
         IN  logits[CHOOSE t \in Tokens :
                      Cardinality({u \in Tokens : Below(logits, u, t)}) = rank]

\* exp((value - maximum) / temperature), over the common factor of the
\* maximum; a masked token has weight 0.
Weight(value) == IF value = Masked THEN 0 ELSE Base ^ (value + Offset)

Total(w) == MapThenSumSet(LAMBDA t : w[t], Tokens)

TopK(logits, topK) ==
    [t \in Tokens |-> IF logits[t] < Threshold(logits, topK) THEN 0 ELSE Weight(logits[t])]

\* Every token but the most likely one.
Droppable(logits, order) ==
    {t \in order : \E u \in order : Below(logits, t, u)}

\* Tokens are dropped from the least likely on while what they hold together
\* is at most 1 - top_p.
Nucleus(logits, topK, topP, w) ==
    LET order == {t \in Tokens : logits[t] >= Threshold(logits, topK)}
        held(t) == MapThenSumSet(LAMBDA u : w[u],
                                 {u \in order : u = t \/ Below(logits, u, t)})
    IN  IF topP = Parts THEN w
        ELSE [t \in Tokens |->
                IF t \in Droppable(logits, order)
                   /\ held(t) * Parts <= (Parts - topP) * Total(w)
                THEN 0 ELSE w[t]]

\* Weights below min_p of the largest are dropped.
MinP(w, top, minP) == [t \in Tokens |-> IF w[t] * Parts < minP * top THEN 0 ELSE w[t]]

\* fill_with_min_p: the weights kept, in proportion.
Filtered(logits, cfg) ==
    LET w == TopK(logits, cfg.topK)
        n == Nucleus(logits, cfg.topK, cfg.topP, w)
    IN  MinP(n, Weight(Max({logits[t] : t \in Tokens})), cfg.minP)

\* The first token whose cumulative weight passes the point u of a grid of
\* size grid; the last one with weight if rounding leaves none.
Draw(w, u, grid) ==
    LET upTo(t) == MapThenSumSet(LAMBDA v : w[v], 1..t)
        hits == {t \in Tokens : w[t] > 0 /\ u * Total(w) < upTo(t) * grid}
    IN  IF hits = {} THEN Max({t \in Tokens : w[t] > 0}) ELSE Min(hits)

\* verify_draft: the candidate is accepted at the point u.
Accepts(p, q, candidate, u) == u * q[candidate] < p[candidate] * Grid

\* What a rejected draw is replaced from.
Residual(p, q) == [t \in Tokens |-> IF p[t] > q[t] THEN p[t] - q[t] ELSE 0]

----------------------------------------------------------------------------
VARIABLES input, output

vars == <<input, output>>

Pending == <<>>
Distributions == {w \in [Tokens -> 0..Mass] : Total(w) = Mass}
Texts == UNION {[1..n -> Tokens] : n \in 0..2}

Init ==
    /\ output = Pending
    /\ input \in [kind : {"filter"}, logits : [Tokens -> Logit \cup {Masked}],
                  cfg : [topK : 0..Vocab, topP : 1..Parts, minP : 0..Parts]]
          \cup [kind : {"verify"}, p : Distributions, q : Distributions]
          \cup [kind : {"penalty"}, logits : [Tokens -> {-2, 2, Masked}], prompt : {<<>>, <<1>>},
                generated : Texts, opt : [rep : 1..2, pres : 0..1, freq : 0..1]]

\* fill_with_min_p refuses a fully masked vocabulary.
Fill ==
    /\ input.kind = "filter" /\ output = Pending
    /\ \E t \in Tokens : input.logits[t] # Masked
    /\ output' = Filtered(input.logits, input.cfg)
    /\ UNCHANGED input

\* The number of ways (draws of the candidate, of the test and of the
\* replacement, each on its grid) in which each token is emitted.
Verify ==
    /\ input.kind = "verify" /\ output = Pending
    /\ LET p == input.p
           q == input.q
           drawn(c) == Cardinality({u \in 0..(Mass - 1) : Draw(q, u, Mass) = c})
           kept(c) == IF q[c] = 0 THEN 0
                      ELSE Cardinality({u \in 0..(Grid - 1) : Accepts(p, q, c, u)})
           redrawn(t) == IF Total(Residual(p, q)) = 0 THEN 0
                         ELSE Cardinality({u \in 0..(Grid - 1) : Draw(Residual(p, q), u, Grid) = t})
       IN  output' = [t \in Tokens |->
                        drawn(t) * kept(t) * Grid
                        + MapThenSumSet(LAMBDA c : drawn(c) * (Grid - kept(c)), Tokens) * redrawn(t)]
    /\ UNCHANGED input

Penalize ==
    /\ input.kind = "penalty" /\ output = Pending
    /\ output' = Penalized(input.logits, input.opt, input.prompt, input.generated)
    /\ UNCHANGED input

Next == Fill \/ Verify \/ Penalize

Spec == Init /\ [][Next]_vars

----------------------------------------------------------------------------
Done(kind) == input.kind = kind /\ output # Pending

\* Top-k alone keeps exactly the tokens that fewer than k tokens exceed, ties
\* included; the nucleus alone keeps a set that holds at least top_p and of
\* which no least likely member can be left out.
FiltersExact ==
    Done("filter") =>
      LET cfg == input.cfg
          v == input.logits
          kept == {t \in Tokens : output[t] > 0}
          open == {t \in Tokens : v[t] # Masked}
          all == MapThenSumSet(LAMBDA t : Weight(v[t]), open)
          mass == MapThenSumSet(LAMBDA t : Weight(v[t]), kept)
      IN  /\ cfg.topP = Parts /\ cfg.minP = 0 =>
                kept = {t \in open : cfg.topK = 0
                          \/ Cardinality({u \in Tokens : v[u] > v[t]}) < cfg.topK}
          /\ cfg.topK = 0 /\ cfg.minP = 0 /\ cfg.topP < Parts =>
                /\ mass * Parts >= cfg.topP * all
                /\ Cardinality(kept) > 1 =>
                     \A t \in kept : (\A u \in kept : v[t] <= v[u]) =>
                        (mass - Weight(v[t])) * Parts < cfg.topP * all

\* Proposing from the draft and correcting by rejection emits every token
\* with exactly the target's probability, whatever the draft.
RejectionExact ==
    Done("verify") => \A t \in Tokens : output[t] = input.p[t] * Grid * Grid

==============================================================================
