--------------------------- MODULE BatchScheduler ---------------------------
(***************************************************************************)
(* The continuous-batch scheduler of src/continuous_batch.rs over the      *)
(* paged KV manager, driven by a caller that runs each scheduled batch on  *)
(* the device and then completes or fails it.  `sched` holds the fields of *)
(* ContinuousBatchScheduler, `mem` the device memory behind the pages, and *)
(* `closed` what callers have taken away (delivered or cancelled).         *)
(*                                                                         *)
(* Data abstractions:                                                      *)
(*  - request ids are their submission order; the history of an active     *)
(*    request is kept once, its generated tokens being the part after the  *)
(*    prompt;                                                              *)
(*  - at most one batch is in flight, so a batch needs no id (a call with  *)
(*    another id is refused by take_batch without effect), reservation ids *)
(*    start again at 1 for every batch, and neither u64 counter runs out;  *)
(*  - `admitted` counters are the position in `order`;                     *)
(*  - the device runs a batch when it is completed or failed: nothing else *)
(*    writes the pages of its rows while it is in flight.                  *)
(***************************************************************************)
EXTENDS PagedKvOps, SequencesExt

CONSTANTS Job,             \* the requests a caller may submit
          Predict(_, _),   \* the model: the token for a text and a sampler position
          MaxActive,       \* config.max_active_sequences
          MaxPending,      \* options.max_pending_requests, 0 for None
          BatchTokens,     \* initial config.max_batch_tokens
          TokenLimits,     \* limits a caller may set later
          ChunkTokens,     \* prefill_chunk_tokens, 0 for None
          Preemption,      \* recompute_preemption
          ReserveCapacity, \* options.kv_admission = ReserveSequenceCapacity
          Caching,         \* prefix caching is on
          DraftTokens,     \* speculative.draft_tokens, 0 for None
          Ngram,           \* speculative.ngram
          Lookahead        \* lookahead_tokens of the model adapter

ASSUME SchedulerAssumption ==
    /\ MaxActive \in Nat \ {0} /\ MaxPending \in Nat
    /\ BatchTokens \in Nat \ {0} /\ TokenLimits \subseteq Nat \ {0}
    /\ ChunkTokens \in Nat /\ DraftTokens \in Nat /\ Ngram \in Nat /\ Lookahead \in Nat
    /\ Preemption \in BOOLEAN /\ ReserveCapacity \in BOOLEAN /\ Caching \in BOOLEAN

ASSUME IdAssumption == Request \subseteq Nat /\ ReservationLimit > MaxActive

ASSUME JobAssumption ==
    \A job \in Job : job.prompt \in Seq(Token) /\ job.maxNew \in Nat /\ job.sampled \in BOOLEAN

\* The model samples tokens of its vocabulary, whatever text it is given.
ASSUME ModelAssumption ==
    \A text \in BoundedSeq(Token, MaxSequenceLength), draws \in 0..MaxSequenceLength :
        Predict(text, draws) \in Token

VARIABLES sched, mem, closed

vars == <<sched, mem, closed>>

NoBatch == [kind |-> "None", rows |-> <<>>]
NoToken == -1

NewScheduler ==
    [kv |-> SetPrefixCaching(NewManager, Caching),
     pending |-> <<>>, active |-> [r \in {} |-> 0], order |-> <<>>,
     finished |-> <<>>, inFlight |-> NoBatch,
     preferPrefill |-> TRUE, speculativeTurn |-> FALSE,
     batchTokens |-> BatchTokens, nextRequest |-> 1]

Generated(a) == SubSeq(a.history, Len(a.job.prompt) + 1, Len(a.history))
Remaining(a) == a.job.maxNew - Len(Generated(a))
InFlight(s) == s.inFlight # NoBatch
Ids(S) == CHOOSE ids \in SetToSeqs(S) : \A i, j \in DOMAIN ids : i < j => ids[i] < ids[j]
Least(a, b) == IF a < b THEN a ELSE b

\* f with entry x set to y
With(f, x, y) == [z \in DOMAIN f \cup {x} |-> IF z = x THEN y ELSE f[z]]

-----------------------------------------------------------------------------
(* Admission                                                               *)

\* Mutant: only the prompt is budgeted.
PageBudget_Prompt(job) == PagesFor(Len(job.prompt))

\* request_page_budget: the last token is returned, never fed to the model
PageBudget(job) == PagesFor(Len(job.prompt) + job.maxNew - 1)

\* submit accepts the job
Acceptable(s, job) ==
    /\ job.prompt # <<>>
    /\ ChunkTokens = 0 => Len(job.prompt) <= s.batchTokens
    /\ Len(job.prompt) + job.maxNew <= MaxSequenceLength
    /\ job.maxNew > 0 =>
          /\ (IF ReserveCapacity THEN PageBudget(job) ELSE PagesFor(Len(job.prompt)))
                <= NumPages
          /\ MaxPending > 0 => Len(s.pending) < MaxPending

Submit(s, job) ==
    LET id == s.nextRequest
        n  == [s EXCEPT !.nextRequest = id + 1]
    IN  IF job.maxNew = 0
        THEN [n EXCEPT !.finished = Append(@, [request |-> id, job |-> job, output |-> <<>>])]
        ELSE [n EXCEPT !.pending = Append(@, [request |-> id, job |-> job])]

\* Pages that the admission budgets of the active requests leave.
Unbudgeted(s) ==
    NumPages - FoldSet(LAMBDA r, sum : PageBudget(s.active[r].job) + sum, 0, DOMAIN s.active)

\* How many pending requests promote_pending admits: it stops at the active
\* limit and at the first request whose budget does not fit.
Promotable(s) ==
    LET budget(k) == FoldLeft(LAMBDA sum, p : sum + PageBudget(p.job), 0,
                              SubSeq(s.pending, 1, k))
        fits(k) == /\ Cardinality(DOMAIN s.active) + k <= MaxActive
                   /\ ReserveCapacity => budget(k) <= Unbudgeted(s)
    IN  Max({k \in 0..Len(s.pending) : k = 0 \/ fits(k)})

\* One pending request becomes active.
Admit(s, p) ==
    LET r == p.request
        m == CHOOSE m \in Matches(s.kv, p.job.prompt) : TRUE
    IN  [s EXCEPT
            !.kv = CreateSequenceWithPrefix(@, r, p.job.prompt, m),
            !.active = With(@, r, [job |-> p.job, history |-> p.job.prompt,
                                   phase |-> "NeedsPrefill", token |-> NoToken,
                                   draws |-> 0]),
            !.order = Append(@, r)]

\* promote_pending
PromotePending(s) ==
    LET k == Promotable(s)
    IN  [FoldLeft(Admit, s, SubSeq(s.pending, 1, k)) EXCEPT
            !.pending = SubSeq(s.pending, k + 1, Len(s.pending))]

-----------------------------------------------------------------------------
(* Building a batch                                                        *)

\* scheduled_sequence: the row of r that feeds `tokens`, kv being the manager
\* after begin_append
Row(kv, r, tokens) ==
    [request |-> r, tokens |-> tokens, start |-> kv.seqs[r].committed,
     context |-> kv.seqs[r].committed + Len(tokens), table |-> kv.seqs[r].pages,
     reservation |-> kv.seqs[r].pending]

\* Pages for `end` tokens of r, as allocate_page picks them.
NewPages(kv, r, end) == CHOOSE x \in Allocations(kv, Additional(kv, r, end)) : TRUE

WithRow(rows, kv, r, tokens) == [kv |-> kv, rows |-> Append(rows, Row(kv, r, tokens))]

\* begin_append and scheduled_sequence for a row of r that feeds `tokens`
AddRow(built, r, tokens) ==
    WithRow(built.rows,
            BeginAppend(built.kv, r, Len(tokens),
                        NewPages(built.kv, r, built.kv.seqs[r].committed + Len(tokens))),
            r, tokens)

\* Rows for the candidates in id order, at most `limit`, skipping those whose
\* pages the earlier rows used up.
BuildRows(s, candidates, tokens, limit) ==
    FoldLeft(LAMBDA built, r :
                IF Len(built.rows) < limit /\ CanAppend(built.kv, r, Len(tokens[r]))
                THEN AddRow(built, r, tokens[r])
                ELSE built,
             [kv |-> s.kv, rows |-> <<>>], Ids(candidates))

RequestsOf(rows) == {rows[i].request : i \in DOMAIN rows}

\* finish_schedule: without rows nothing is scheduled
FinishSchedule(s, kind, built) ==
    IF built.rows = <<>>
    THEN s
    ELSE [s EXCEPT
            !.kv = built.kv,
            !.inFlight = [kind |-> kind, rows |-> built.rows],
            !.active = [r \in DOMAIN @ |->
                          IF r \in RequestsOf(built.rows)
                          THEN [@[r] EXCEPT !.phase = "InFlight", !.token = NoToken]
                          ELSE @[r]]]

InPhase(s, phase) == {r \in DOMAIN s.active : s.active[r].phase = phase}

\* schedule_decode
ScheduleDecode(s) ==
    LET ready == InPhase(s, "AwaitingDecode")
    IN  FinishSchedule(s, "Decode",
            BuildRows(s, ready, [r \in ready |-> <<s.active[r].token>>], s.batchTokens))

\* prefill_chunk: the length of the next chunk of r
ChunkLength(s, r) ==
    LET remaining == Len(s.active[r].history) - s.kv.seqs[r].committed
        chunk     == IF ChunkTokens = 0 THEN remaining ELSE Least(remaining, ChunkTokens)
    IN  IF remaining < 0 THEN 0 ELSE Least(chunk, s.batchTokens)

\* Requests whose next chunk fits, and the bucket each of them is in.
Prefillable(s) ==
    {r \in InPhase(s, "NeedsPrefill") :
        ChunkLength(s, r) > 0 /\ CanAppend(s.kv, r, ChunkLength(s, r))}
Bucket(s, r) == <<ChunkLength(s, r), s.kv.seqs[r].committed # 0>>
Bucketed(s, b) == {r \in Prefillable(s) : Bucket(s, r) = b}

\* Tokens that a batch of bucket b carries.
Useful(s, b) == Least(Cardinality(Bucketed(s, b)), s.batchTokens \div b[1]) * b[1]

\* The fullest bucket is scheduled; of equally full ones, the one with the
\* oldest request.
Fuller(s, b, c) ==
    \/ Useful(s, b) > Useful(s, c)
    \/ Useful(s, b) = Useful(s, c) /\ Min(Bucketed(s, b)) < Min(Bucketed(s, c))

Fullest(s, buckets) == CHOOSE b \in buckets : \A c \in buckets \ {b} : Fuller(s, b, c)

\* A batch of the next chunks of the requests in bucket b.
PrefillBucket(s, b) ==
    FinishSchedule(s, "Prefill",
        BuildRows(s, Bucketed(s, b),
                  [r \in Bucketed(s, b) |->
                      SubSeq(s.active[r].history, s.kv.seqs[r].committed + 1,
                             s.kv.seqs[r].committed + b[1])],
                  s.batchTokens \div b[1]))

\* schedule_prefill
SchedulePrefill(s) ==
    IF Prefillable(s) = {}
    THEN s
    ELSE PrefillBucket(s, Fullest(s, {Bucket(s, r) : r \in Prefillable(s)}))

\* The places <<n, i>> where the last n tokens of a history occur earlier, at
\* offset i, with a token after them.
Occurrences(history) ==
    {x \in (1 .. Least(Ngram, Len(history) - 1)) \X (0 .. Len(history) - 1) :
        /\ x[2] + x[1] < Len(history)
        /\ \A k \in 1..x[1] : history[x[2] + k] = history[Len(history) - x[1] + k]}

\* ngram_draft: the longest match, of those the most recent
NgramDraft(history) ==
    LET later(x, y) == y[1] < x[1] \/ (y[1] = x[1] /\ y[2] <= x[2])
        after(x) == SubSeq(history, x[2] + x[1] + 1,
                           Least(x[2] + x[1] + DraftTokens, Len(history)))
    IN  IF Occurrences(history) = {}
        THEN <<>>
        ELSE after(CHOOSE x \in Occurrences(history) :
                       \A y \in Occurrences(history) : later(x, y))

\* The draft, padded with its last token.
Padded(draft) == [i \in 1..DraftTokens |-> draft[Least(i, Len(draft))]]

\* A verify row: the last token, then the draft.
VerifyTokens(a) == <<a.token>> \o Padded(NgramDraft(a.history))

Verifiable(s) ==
    {r \in InPhase(s, "AwaitingDecode") :
        /\ ~s.active[r].job.sampled
        /\ Remaining(s.active[r]) >= 2
        /\ NgramDraft(s.active[r].history) # <<>>
        /\ CanAppend(s.kv, r, DraftTokens + 1)}

\* schedule_verify
ScheduleVerify(s) ==
    IF DraftTokens = 0 \/ s.batchTokens \div (DraftTokens + 1) = 0
    THEN s
    ELSE FinishSchedule(s, "Verify",
            BuildRows(s, Verifiable(s),
                      [r \in Verifiable(s) |-> VerifyTokens(s.active[r])],
                      s.batchTokens \div (DraftTokens + 1)))

\* The first of two attempts that scheduled a batch.
OrElse(first, second) == IF InFlight(first) THEN first ELSE second

\* An attempt that scheduled a batch also sets whose turn is next.
Preferring(attempt, prefill) ==
    IF InFlight(attempt) THEN [attempt EXCEPT !.preferPrefill = prefill] ELSE attempt

\* try_schedule after the prefill turn; `turned` has the next speculative turn
TryDecode(turned) ==
    OrElse(Preferring(OrElse(IF turned.speculativeTurn THEN ScheduleVerify(turned) ELSE turned,
                             ScheduleDecode(turned)),
                      TRUE),
           Preferring(SchedulePrefill(turned), FALSE))

\* try_schedule
TrySchedule(s) ==
    OrElse(Preferring(IF s.preferPrefill THEN SchedulePrefill(s) ELSE s, FALSE),
           TryDecode([s EXCEPT !.speculativeTurn = ~@]))

\* Active requests that hold pages, none being in flight when it matters.
Holders(s) ==
    {r \in DOMAIN s.active :
        s.active[r].phase # "InFlight" /\ s.kv.seqs[r].pages # <<>>}

CanPreempt(s) == Preemption /\ Cardinality(Holders(s)) > 1

\* The victim of a preemption: the holder admitted last.
Newest(s) == s.order[SelectLastInSeq(s.order, LAMBDA r : r \in Holders(s))]

\* s with the request r to be prefilled again over a fresh sequence of kv
Restarted(s, r, kv) ==
    [s EXCEPT !.kv = CreateSequence(kv, r),
              !.active[r].phase = "NeedsPrefill", !.active[r].token = NoToken,
              !.preferPrefill = FALSE]

\* preempt_newest: the victim's KV is dropped and its history recomputed later
Preempt(s, victim) == Restarted(s, victim, RemoveSequence(s.kv, victim))

Settled(s) == InFlight(s) \/ ~CanPreempt(s)

\* schedule: preempt until a batch fits or nothing can be gained; every
\* preemption leaves one holder less
Schedule(s) ==
    LET attempt[k \in 0..MaxActive] ==
          LET last == attempt[k - 1]
          IN  IF k > 0 /\ Settled(last)
              THEN last
              ELSE TrySchedule(IF k = 0 THEN PromotePending(s)
                               ELSE Preempt(last, Newest(last)))
    IN  attempt[MaxActive]

\* The tokens by which reserve_lookahead extends a decode row.
ExtraTokens(s, row, budget) ==
    LET most == Min({Lookahead, budget, Remaining(s.active[row.request]) - 1,
                     MaxSequenceLength - row.context})
    IN  IF /\ most > 0
           /\ PagesFor(row.context + most) - Len(row.table) <= AvailablePages(s.kv)
        THEN most ELSE 0

\* a.s with a row extended by `extra` tokens, out of a.budget
Extended(a, row, extra) ==
    IF extra = 0
    THEN a
    ELSE [s |-> [a.s EXCEPT !.kv = ExtendAppend(@, row.reservation, extra,
                    NewPages(@, row.request, row.context + extra))],
          budget |-> a.budget - extra]

\* reserve_lookahead
ReserveLookahead(s) ==
    IF Lookahead = 0 \/ s.inFlight.kind # "Decode"
    THEN s
    ELSE FoldLeft(LAMBDA a, row : Extended(a, row, ExtraTokens(a.s, row, a.budget)),
                  [s |-> s, budget |-> s.batchTokens - Len(s.inFlight.rows)],
                  s.inFlight.rows).s

-----------------------------------------------------------------------------
(* The device                                                              *)

\* What the attention of a row sees before its own tokens: the text whose KV
\* the table holds, or Garbage when the slots do not belong together.
Context(row) ==
    LET text == Held(mem, row.table, row.start)
    IN  IF row.start = 0 THEN <<>>
        ELSE IF /\ Len(text) = row.start
                /\ \A i \in 1..row.start : Held(mem, row.table, i) = SubSeq(text, 1, i)
             THEN text ELSE Garbage

\* The text that position k of a row's tokens is computed from.
TextAt(row, k) ==
    IF row.start > 0 /\ Context(row) = Garbage
    THEN Garbage ELSE Context(row) \o SubSeq(row.tokens, 1, k)

\* Memory after the rows of the batch wrote the KV of their tokens through
\* their tables and (ok = FALSE: the batch failed; lookahead drafts) anything
\* to the other positions they reserved.
Written(s, ok) ==
    LET rows  == s.inFlight.rows
        end(i) == rows[i].start + s.kv.resv[rows[i].reservation].count
        table(i) == s.kv.seqs[rows[i].request].pages
        places == {x \in (DOMAIN rows) \X (1..MaxSequenceLength) :
                      rows[x[1]].start < x[2] /\ x[2] <= end(x[1])}
        at(p, t) == {x \in places : PageOf(table(x[1]), x[2]) = p /\ SlotOf(x[2]) = t}
    IN  [p \in Page |-> [t \in Slot |->
            IF at(p, t) = {} THEN mem[p][t]
            ELSE LET x   == CHOOSE x \in at(p, t) : TRUE
                     row == rows[x[1]]
                 IN  IF ok /\ x[2] <= row.context
                     THEN TextAt(row, x[2] - row.start) ELSE Garbage]]

\* The token of position k of a row, for a request's sampler position.
TokenAt(row, k, a) ==
    Predict(TextAt(row, k), IF a.job.sampled THEN a.draws ELSE 0)

-----------------------------------------------------------------------------
(* Completing, failing and cancelling                                      *)

Reservations(s) == {s.inFlight.rows[i].reservation : i \in DOMAIN s.inFlight.rows}

\* take_batch leaves nothing in flight; reservation ids start again.
Landed(s) == [s EXCEPT !.inFlight = NoBatch, !.kv.nextResv = 1]

Drop(s, r) ==
    [s EXCEPT !.kv = RemoveSequence(@, r),
              !.active = Restrict(@, DOMAIN @ \ {r}),
              !.order = RemoveFirst(@, r)]

\* The request of a row produced tokens: it finishes, or awaits its next decode.
Advance(s, r, produced) ==
    LET a    == s.active[r]
        done == [a EXCEPT !.history = @ \o produced]
    IN  IF \/ Last(produced) \in a.job.eos
           \/ Len(Generated(done)) >= a.job.maxNew
        THEN [Drop(s, r) EXCEPT
                !.finished = Append(@, [request |-> r, job |-> a.job,
                                        output |-> Generated(done)])]
        ELSE [s EXCEPT !.active[r] = [done EXCEPT
                !.phase = "AwaitingDecode", !.token = Last(produced),
                !.draws = IF a.job.sampled THEN @ + 1 ELSE @]]

Register(s, row) ==
    [s EXCEPT !.kv = RegisterPrefix(@, row.request, s.active[row.request].history)]

\* The rows' own tokens are committed, lookahead is returned.
CommittedBatch(s) ==
    LET rows == s.inFlight.rows
        consumed == [i \in Reservations(s) |->
                       Len((CHOOSE row \in Range(rows) : row.reservation = i).tokens)]
    IN  [s EXCEPT !.kv = CommitPrefixes(@, Reservations(s), consumed)]

\* complete_batch, with the samplers of complete_selected_batch: a row that
\* did not reach the end of its history produces no token
CompleteBatch(s) ==
    LET rows == s.inFlight.rows
        settle(n, row) ==
          LET a == s.active[row.request]
          IN  IF row.context < Len(a.history)
              THEN [n EXCEPT !.active[row.request].phase = "NeedsPrefill"]
              ELSE Advance(n, row.request, <<TokenAt(row, Len(row.tokens), a)>>)
    IN  Landed(FoldLeft(settle, FoldLeft(Register, CommittedBatch(s), rows), rows))

\* Mutant: a prediction after a wrong draft token is kept.
Produced_AcceptsDraft(a, row) ==
    [k \in 1 .. Least(Remaining(a), Len(row.tokens)) |-> TokenAt(row, k, a)]

\* The tokens a verify row yields: predictions up to the first that ends the
\* request or that the next draft token differs from.
Produced(a, row) ==
    LET guess(k) == TokenAt(row, k, a)
        stop(k) == \/ k = Remaining(a)
                   \/ guess(k) \in a.job.eos
                   \/ k + 1 > Len(row.tokens)
                   \/ row.tokens[k + 1] # guess(k)
    IN  [k \in 1 .. Min({k \in DOMAIN row.tokens : stop(k)}) |-> guess(k)]

\* complete_verify_batch: row by row, commit what the verification accepted
CompleteVerifyBatch(s) ==
    LET settle(n, row) ==
          LET r == row.request
              produced == Produced(n.active[r], row)
              kept == [n EXCEPT
                        !.kv = CommitPrefixes(@, {row.reservation},
                                              [i \in {row.reservation} |-> Len(produced)])]
              published == [kept EXCEPT
                             !.kv = RegisterPrefix(@, r, n.active[r].history \o produced)]
          IN  Advance(published, r, produced)
    IN  Landed(FoldLeft(settle, s, s.inFlight.rows))

\* Mutant: the requests are restored but their reservations stay.
FailBatch_KeepsReservations(s) ==
    [s EXCEPT !.inFlight = NoBatch,
              !.active = [r \in DOMAIN @ |->
                            IF r \in RequestsOf(s.inFlight.rows)
                            THEN [@[r] EXCEPT !.phase = "NeedsPrefill"] ELSE @[r]]]

\* Mutant: the reservations are cancelled but the phases are not restored.
FailBatch_KeepsPhase(s) == Landed([s EXCEPT !.kv = CancelAppends(@, Reservations(s))])

\* fail_batch: cancel the reservations and restore every row's phase
FailBatch(s) ==
    LET rows == s.inFlight.rows
        row(r) == CHOOSE x \in Range(rows) : x.request = r
    IN  Landed([s EXCEPT
            !.kv = CancelAppends(@, Reservations(s)),
            !.active = [r \in DOMAIN @ |->
                IF r \notin RequestsOf(rows) THEN @[r]
                ELSE IF s.inFlight.kind = "Prefill"
                THEN [@[r] EXCEPT !.phase = "NeedsPrefill"]
                ELSE [@[r] EXCEPT !.phase = "AwaitingDecode", !.token = row(r).tokens[1]]]])

\* minimum_batch_token_limit
MinimumTokens(s) ==
    IF ChunkTokens # 0 THEN 1
    ELSE Max({1} \cup {Len(s.pending[i].job.prompt) : i \in DOMAIN s.pending}
                 \cup {Len(s.active[r].job.prompt) : r \in InPhase(s, "NeedsPrefill")})


-----------------------------------------------------------------------------
(* The state machine                                                       *)

Init ==
    /\ sched = NewScheduler
    /\ mem = NewMemory
    /\ closed = [r \in {} |-> 0]

SubmitJob(job) ==
    /\ sched.nextRequest \in Request
    /\ Acceptable(sched, job)
    /\ sched' = Submit(sched, job)
    /\ UNCHANGED <<mem, closed>>

HasWork == sched.pending # <<>> \/ DOMAIN sched.active # {}

\* The executor steps only when there is work; schedule may still find none.
\* What reserve_lookahead adds belongs to the same executor step.
StartBatch ==
    /\ ~InFlight(sched)
    /\ HasWork
    /\ sched' = ReserveLookahead(Schedule(sched))
    /\ UNCHANGED <<mem, closed>>

FinishBatch ==
    /\ InFlight(sched)
    /\ sched' = IF sched.inFlight.kind = "Verify"
                THEN CompleteVerifyBatch(sched) ELSE CompleteBatch(sched)
    /\ mem' = Written(sched, TRUE)
    /\ UNCHANGED closed

\* The device failed after leaving anything in the reserved slots.
LoseBatch ==
    /\ InFlight(sched)
    /\ sched' = FailBatch(sched)
    /\ mem' = Written(sched, FALSE)
    /\ UNCHANGED closed

\* cancel of a queued request
CancelPending(i) ==
    LET p == sched.pending[i]
    IN  /\ sched' = [sched EXCEPT !.pending = RemoveAt(@, i)]
        /\ closed' = With(closed, p.request,
                          [job |-> p.job, output |-> <<>>, cancelled |-> TRUE])
        /\ UNCHANGED mem

\* cancel of an active request: refused while it is in flight
CancelActive(r) ==
    /\ sched.active[r].phase # "InFlight"
    /\ sched' = Drop(sched, r)
    /\ closed' = With(closed, r, [job |-> sched.active[r].job,
                                  output |-> Generated(sched.active[r]),
                                  cancelled |-> TRUE])
    /\ UNCHANGED mem

PopFinished ==
    /\ sched.finished # <<>>
    /\ sched' = [sched EXCEPT !.finished = Tail(@)]
    /\ LET f == Head(sched.finished)
       IN  closed' = With(closed, f.request,
                          [job |-> f.job, output |-> f.output, cancelled |-> FALSE])
    /\ UNCHANGED mem

SetBatchTokenLimit(limit) ==
    /\ ~InFlight(sched)
    /\ limit >= MinimumTokens(sched)
    /\ sched' = [sched EXCEPT !.batchTokens = limit]
    /\ UNCHANGED <<mem, closed>>

Cancel ==
    \/ \E i \in DOMAIN sched.pending : CancelPending(i)
    \/ \E r \in DOMAIN sched.active : CancelActive(r)

Next ==
    \/ \E job \in Job : SubmitJob(job)
    \/ StartBatch
    \/ FinishBatch
    \/ LoseBatch
    \/ Cancel
    \/ PopFinished
    \/ \E limit \in TokenLimits : SetBatchTokenLimit(limit)

Spec == Init /\ [][Next]_vars

\* The executor keeps stepping while there is work and finishes what it
\* started, callers take results, and the device stops losing batches at some
\* point.  The first two conjuncts are weak fairness of StartBatch and of
\* FinishBatch \/ LoseBatch with ENABLED written out.
Fairness ==
    /\ []<>(InFlight(sched) \/ ~HasWork) \/ []<><<StartBatch>>_vars
    /\ []<>~InFlight(sched)
    /\ WF_vars(PopFinished)
    /\ <>[][~LoseBatch]_vars

FairSpec == Spec /\ Fairness

-----------------------------------------------------------------------------
(* Properties                                                              *)

Accepted ==
    LET waiting == Range(sched.pending) \cup Range(sched.finished)
    IN  [r \in {x.request : x \in waiting} \cup DOMAIN sched.active \cup DOMAIN closed |->
            IF r \in DOMAIN closed THEN closed[r].job
            ELSE IF r \in DOMAIN sched.active THEN sched.active[r].job
            ELSE (CHOOSE x \in waiting : x.request = r).job]

OutputOf(r) ==
    IF r \in DOMAIN closed THEN closed[r].output
    ELSE IF r \in DOMAIN sched.active THEN Generated(sched.active[r])
    ELSE IF \E f \in Range(sched.finished) : f.request = r
    THEN (CHOOSE f \in Range(sched.finished) : f.request = r).output
    ELSE <<>>

Open == {p.request : p \in Range(sched.pending)} \cup DOMAIN sched.active

Service == INSTANCE GenerationService
             WITH jobs <- Accepted, out <- [r \in DOMAIN Accepted |-> OutputOf(r)],
                  open <- Open

\* The scheduler implements the generation service: whatever is batched,
\* chunked, preempted, shared, drafted, failed or cancelled, every request's
\* output is the one it would have if decoded alone.
ServiceRefined == Service!ServiceSpec

\* One step of the scheduler, under the fences of a device as well, is a step
\* of the generation service or leaves what callers see alone.
ServiceStep == [Service!ServiceNext]_(Service!svars)

\* No KV sequence, page or reservation outlives or misses its request: sequences
\* belong to the active requests, the reservations are those of the rows in
\* flight, whose requests are exactly the ones marked so, and pages, index,
\* reservations and tails of the manager that the scheduler drives are sound.
NothingLeaks ==
    /\ Live(sched.kv) = DOMAIN sched.active
    /\ ToSet(sched.order) = DOMAIN sched.active
    /\ DOMAIN sched.kv.resv = Reservations(sched)
    /\ InPhase(sched, "InFlight") = RequestsOf(sched.inFlight.rows)
    /\ Accounted(sched.kv) /\ Indexed(sched.kv)
    /\ Reserved(sched.kv) /\ ExclusiveTails(sched.kv)

\* Phase and KV agree: a request that awaits a decode has everything but its
\* last token committed and carries that token; one that needs prefill still
\* has a token to feed, so prefill_chunk never returns an empty chunk.
PhaseAgrees ==
    \A r \in DOMAIN sched.active :
        LET a == sched.active[r] committed == sched.kv.seqs[r].committed
        IN  /\ a.phase = "AwaitingDecode" =>
                  committed = Len(a.history) - 1 /\ a.token = Last(a.history)
            /\ a.phase = "NeedsPrefill" => committed < Len(a.history)
            /\ Remaining(a) > 0

\* A batch stays within max_batch_tokens, counting lookahead, and its rows are
\* equally wide, as the device requires.
BatchWithinLimit ==
    InFlight(sched) =>
        LET rows == sched.inFlight.rows
            reserved(r) == sched.kv.resv[r].count
        IN  /\ FoldSet(LAMBDA r, sum : reserved(r) + sum, 0, Reservations(sched))
                 <= sched.batchTokens
            /\ \A i, j \in DOMAIN rows : Len(rows[i].tokens) = Len(rows[j].tokens)

\* Committed positions hold the KV of the request's own history, its phase says
\* how much of it is committed, and the batch in flight stays within its limit.
ContextIntact ==
    /\ \A r \in DOMAIN sched.active :
          \A i \in 1..sched.kv.seqs[r].committed :
              Held(mem, sched.kv.seqs[r].pages, i) = SubSeq(sched.active[r].history, 1, i)
    /\ PhaseAgrees
    /\ BatchWithinLimit

\* run_until_idle never stalls: when every job fits the pool on its own,
\* schedule finds a batch whenever there is work.
NeverStalls ==
    ~InFlight(sched) /\ Open # {} => InFlight(Schedule(sched))

\* The budgets of the active requests always fit the pool, so promote_pending
\* never fails, and no request ever holds more than its budget between batches.
BudgetsFit ==
    ReserveCapacity =>
        /\ Unbudgeted(sched) >= 0
        /\ \A r \in DOMAIN sched.active \ RequestsOf(sched.inFlight.rows) :
              Len(sched.kv.seqs[r].pages) <= PageBudget(sched.active[r].job)

\* "Step until every submitted request has finished": every accepted request is
\* eventually delivered or cancelled (run_until_idle).
EveryRequestCloses ==
    \A r \in Request : r \in DOMAIN Accepted ~> r \in DOMAIN closed

=============================================================================
