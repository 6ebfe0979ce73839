------------------------- MODULE GenerationService -------------------------
(***************************************************************************)
(* What the continuous batcher promises its callers, without pages,        *)
(* batches, preemption, prefix reuse, drafts or failures: every accepted   *)
(* request produces, a run of tokens at a time, the tokens that decoding   *)
(* it alone would produce, until it is complete or cancelled.              *)
(***************************************************************************)
EXTENDS Integers, Sequences

CONSTANTS Request,        \* request ids
          Job,            \* what a caller may submit
          Predict(_, _)   \* the token for a text and a sampler position

\* A job is [prompt, maxNew, eos, sampled].  The sampler of a sampled job
\* advances once per token; a greedy job has none.
SamplerPosition(job, n) == IF job.sampled THEN n ELSE 0

\* Tokens after which the generation of job stops.
Complete(job, out) ==
    \/ Len(out) >= job.maxNew
    \/ Len(out) > 0 /\ out[Len(out)] \in job.eos

\* The output of job decoded alone, one token at a time.
Reference(job) ==
    LET out[n \in 0..job.maxNew] ==
          IF n = 0 THEN <<>>
          ELSE IF Complete(job, out[n - 1]) THEN out[n - 1]
          ELSE Append(out[n - 1],
                      Predict(job.prompt \o out[n - 1],
                              SamplerPosition(job, n - 1)))
    IN  out[job.maxNew]

VARIABLES jobs,    \* accepted requests: id -> job
          out,     \* the tokens produced for each
          open     \* the requests still being served

svars == <<jobs, out, open>>

ServiceInit ==
    /\ jobs = [r \in {} |-> 0]
    /\ out = [r \in {} |-> <<>>]
    /\ open = {}

\* A request that asks for no token is complete at once.
Accept(r, job) ==
    /\ r \notin DOMAIN jobs
    /\ jobs' = [q \in DOMAIN jobs \cup {r} |-> IF q = r THEN job ELSE jobs[q]]
    /\ out' = [q \in DOMAIN out \cup {r} |-> IF q = r THEN <<>> ELSE out[q]]
    /\ open' = IF job.maxNew = 0 THEN open ELSE open \cup {r}

\* new is a longer prefix of the reference output than old.
Extends(old, new, whole) ==
    /\ Len(old) < Len(new) /\ Len(new) <= Len(whole)
    /\ new = SubSeq(whole, 1, Len(new))

\* One step of the batcher extends the outputs of the requests of S, each by
\* at least one token of its reference output, and closes the complete ones.
Produce(S) ==
    /\ UNCHANGED jobs
    /\ DOMAIN out' = DOMAIN out
    /\ \A r \in DOMAIN out \ S : out'[r] = out[r]
    /\ \A r \in S : Extends(out[r], out'[r], Reference(jobs[r]))
    /\ open' = open \ {r \in S : out'[r] = Reference(jobs[r])}

\* The caller gives up; what was produced stands.
Withdraw(r) ==
    /\ open' = open \ {r}
    /\ UNCHANGED <<jobs, out>>

ServiceNext ==
    \/ \E r \in Request, job \in Job : Accept(r, job)
    \/ \E S \in SUBSET open \ {{}} : Produce(S)
    \/ \E r \in open : Withdraw(r)

ServiceSpec == ServiceInit /\ [][ServiceNext]_svars

=============================================================================
