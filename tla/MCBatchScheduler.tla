-------------------------- MODULE MCBatchScheduler --------------------------
(* Small instances of BatchScheduler. *)
EXTENDS BatchScheduler

\* A model whose next token depends on every token of the text; unrelated KV
\* yields a token that no reference output contains.
MCPredict(text, draws) ==
    IF text = Garbage
    THEN 0
    ELSE 1 + (FoldLeftDomain(LAMBDA sum, i : sum + i * text[i], draws, text) % 2)

MCRequest2 == 1..2
MCRequest3 == 1..3

\* Drafts of Repeats are accepted, those of Breaks rejected, Samples stops on
\* its end token, Long needs the whole pool and the budget of Short fits
\* beside its like.  All but Breaks and Short share their first block.
Repeats == [prompt |-> <<1, 2>>, maxNew |-> 4, eos |-> {}, sampled |-> FALSE]
Breaks  == [prompt |-> <<2, 1, 2>>, maxNew |-> 3, eos |-> {}, sampled |-> FALSE]
Samples == [prompt |-> <<1, 2, 1>>, maxNew |-> 3, eos |-> {2}, sampled |-> TRUE]
Long    == [prompt |-> <<1, 2, 1, 1>>, maxNew |-> 3, eos |-> {}, sampled |-> FALSE]
Short   == [prompt |-> <<1>>, maxNew |-> 4, eos |-> {}, sampled |-> TRUE]
Empty   == [prompt |-> <<1>>, maxNew |-> 0, eos |-> {}, sampled |-> FALSE]

MCJobs == {Repeats, Breaks, Samples, Long}
MCThreeJobs == {Repeats, Breaks, Long}

==============================================================================
