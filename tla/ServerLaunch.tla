----------------------------- MODULE ServerLaunch -----------------------------
(***************************************************************************)
(* The serving binary: what it accepts of a command line, how it hands the *)
(* checkpoint to a worker thread, which of the loaders and services the    *)
(* worker picks, the identity its stored prefixes carry, and the readiness *)
(* handshake between the two threads (src/bin/ruda-serve.rs,               *)
(* src/bin/ruda-serve/worker.rs), built with all its features.             *)
(***************************************************************************)
EXTENDS Naturals, FiniteSets, Sequences, TLC

CONSTANTS Commands    \* the command lines and checkpoints considered

VARIABLES
    options,    \* the command line and the checkpoint it points at
    main,       \* the main thread
    worker,     \* the inference thread
    ready,      \* the one-shot channel: "pending", "ok", "err" or "dropped"
    plan        \* what the worker loaded

vars == <<options, main, worker, ready, plan>>

Mla == "mla"          \* deepseek_v2, deepseek_v3, kimi_k2

Batchable == {"llama", "qwen2", "qwen3", "qwen3_moe", "qwen35", Mla, "kimi_linear"}

Refused == [service |-> "refused"]

-----------------------------------------------------------------------------
(* main: the checks after parsing.  An optional value is {} or {value}.    *)

DevicesAccepted(o) ==
    /\ o.devices > 0 /\ ~o.repeated
    /\ o.backend \in {"native", "libtorch"}
    /\ o.torch \subseteq {"cpu", "cuda", "mps"}
    /\ o.backend = "native" => o.torch = {}
    /\ o.backend = "libtorch" /\ o.torch \cap {"cpu", "mps"} # {} => o.devices = 1

\* Mutant: only a surplus address is refused.
RoleAccepted_Surplus(o) == o.role = "integrated" => o.address = {}

RoleAccepted(o) ==
    /\ o.role \in {"integrated", "prefill", "decode"}
    /\ (o.role = "integrated") = (o.address = {})

TransportAccepted(o) ==
    /\ o.transport = "host" => ~o.library
    /\ o.transport = "ucx" =>
           /\ o.role # "integrated" /\ o.backend = "native" /\ o.batch # {}
           /\ ~o.multimodal /\ o.library

DraftAccepted(o) ==
    /\ (o.draft = {}) = (o.draftId = {})
    /\ o.causal # {} => 0 \notin o.causal /\ o.draft # {}

BatchAccepted(o) ==
    /\ 0 \notin o.batch /\ (o.batch = {} => ~o.batchExtras)
    /\ (o.multimodal \/ o.batch # {}) => o.backend = "native"
    /\ o.multimodal => o.role = "integrated" /\ o.devices = 1 /\ o.batch = {}

Accepted(o) ==
    /\ DevicesAccepted(o) /\ RoleAccepted(o) /\ TransportAccepted(o)
    /\ DraftAccepted(o) /\ BatchAccepted(o)

-----------------------------------------------------------------------------
(* Worker::new: what the checkpoint's architecture supports.               *)

Supported(o) ==
    /\ o.mtp => o.kind = Mla /\ o.nextn /\ o.draft = {} /\ o.causal = {}
    /\ o.multimodal =>
           o.kind = "qwen35" /\ o.devices = 1 /\ o.role # "prefill" /\ o.address = {}
    /\ o.batch # {} => o.kind \in Batchable
    /\ o.absorbed => o.kind = Mla
    /\ o.causal # {} => o.batch # {} /\ ~o.multimodal /\ o.kind \in Batchable
    /\ o.draft # {} /\ o.causal = {} =>
           o.kind = "qwen3" /\ (o.devices = 1 \/ o.batch # {})

\* The identity that prefix caches and prefill peers compare.
Identity(o) ==
    <<o.modelId>>
    \o (IF o.dtype = "fp16" THEN <<"dtype-fp16">> ELSE <<>>)
    \o (IF o.mtp THEN <<"mtp">> ELSE <<>>)
    \o (IF o.kind = Mla THEN <<"mla", o.absorbed>> ELSE <<>>)
    \o (IF o.draftId # {} THEN <<IF o.causal # {} THEN "causal-draft" ELSE "draft", o.draftId>>
        ELSE <<>>)
    \o (IF o.batch # {} /\ o.devices > 1 THEN <<"ranks", o.devices>> ELSE <<>>)

-----------------------------------------------------------------------------
(* Dispatch.  A loaded model and the service it is given to; `expects` is  *)
(* what the branch unwraps with expect().                                  *)

Model(o, ranks) ==
    [service |-> "", ranks |-> ranks, dtype |-> o.dtype, absorbed |-> FALSE,
     mtp |-> FALSE, draft |-> {}, causal |-> {}, images |-> FALSE, batch |-> FALSE,
     remote |-> FALSE, gpu |-> FALSE, expects |-> {}]

launch(o, model) ==
    IF o.role = "prefill"
    THEN [model EXCEPT !.service = "prefill", !.expects = @ \cup {"address"}]
    ELSE [model EXCEPT !.service = "generate", !.remote = o.address # {},
                       !.expects = @ \cup {"tokenizer"}]

launch_batch(o, model) ==
    [model EXCEPT !.batch = TRUE, !.gpu = o.transport = "ucx",
        !.service = IF o.role = "prefill" THEN "prefill" ELSE "generate",
        !.remote = o.role # "prefill" /\ o.address # {},
        !.expects = @ \cup
            (IF o.role = "prefill" THEN {"address"}
             ELSE {"tokenizer"} \cup (IF o.transport = "ucx" THEN {"address"} ELSE {}))]

MlaModel(o, ranks) == [Model(o, ranks) EXCEPT !.absorbed = o.absorbed, !.mtp = o.mtp]

run_single(o) ==
    CASE o.kind = Mla -> launch(o, MlaModel(o, 1))
      [] o.kind \in {"qwen3", "qwen3_moe"} ->
             launch(o, [Model(o, 1) EXCEPT !.draft = IF o.draft # {} THEN o.draftId ELSE {}])
      [] o.kind \in {"qwen2", "llama", "qwen35"} -> launch(o, Model(o, 1))
      [] OTHER -> Refused

run_parallel(o) ==
    CASE o.kind = Mla -> launch(o, MlaModel(o, o.devices))
      [] o.kind \in {"llama", "qwen2", "qwen3", "qwen3_moe", "qwen35"} ->
             launch(o, Model(o, o.devices))
      [] OTHER -> Refused

\* The draft of a causal pair: another checkpoint, on the root device, whose
\* token ids must mean the same.
CausalBatch(o) ==
    IF ~o.sameTokenizer THEN Refused
    ELSE launch_batch(o,
             [IF o.kind = Mla THEN MlaModel(o, o.devices) ELSE Model(o, o.devices)
                 EXCEPT !.draft = o.draftId, !.causal = o.causal,
                        !.expects = {"draft"}])

Batch(o) ==
    CASE o.causal # {} -> CausalBatch(o)
      [] o.causal = {} /\ o.kind = Mla -> launch_batch(o, MlaModel(o, o.devices))
      [] o.causal = {} /\ o.kind \in {"qwen3", "qwen3_moe"} ->
             launch_batch(o, [Model(o, o.devices) EXCEPT
                                  !.draft = IF o.draft # {} THEN o.draftId ELSE {}])
      [] o.causal = {} /\ o.kind \in {"llama", "qwen2", "qwen35", "kimi_linear"} ->
             launch_batch(o, Model(o, o.devices))
      [] OTHER -> Refused

Images(o) ==
    [Model(o, 1) EXCEPT !.images = TRUE, !.service = "generate", !.expects = {"tokenizer"}]

run_cuda(o) ==
    CASE o.multimodal -> Images(o)
      [] ~o.multimodal /\ o.batch # {} -> Batch(o)
      [] ~o.multimodal /\ o.batch = {} /\ o.kind = "kimi_linear" ->
             launch(o, Model(o, o.devices))
      [] OTHER -> IF o.devices = 1 THEN run_single(o) ELSE run_parallel(o)

run_libtorch(o) == IF o.devices > 1 THEN run_parallel(o) ELSE run_single(o)

Dispatch(o) == IF o.backend = "native" THEN run_cuda(o) ELSE run_libtorch(o)

Provided(o) ==
    (IF o.address # {} THEN {"address"} ELSE {})
    \cup (IF o.role # "prefill" THEN {"tokenizer"} ELSE {})
    \cup (IF o.draft # {} THEN {"draft"} ELSE {})

-----------------------------------------------------------------------------

Init ==
    /\ options \in Commands
    /\ main = "parsed" /\ worker = "none" /\ ready = "pending" /\ plan = Refused

\* main validates, opens the request channel and starts the worker.
Spawn ==
    /\ main = "parsed"
    /\ IF Accepted(options) THEN main' = "await" /\ worker' = "new"
       ELSE main' = "failed" /\ worker' = worker
    /\ UNCHANGED <<options, ready, plan>>

\* The worker returns an error; before readiness main hears of it.
Fail ==
    /\ worker' = "ended"
    /\ ready' = IF ready = "pending" THEN "err" ELSE ready
    /\ UNCHANGED <<options, main, plan>>

\* Worker::new reads the configuration and, unless it only prefills, the
\* tokenizer.
WorkerNew ==
    /\ worker = "new" /\ Supported(options)
    /\ worker' = "load"
    /\ UNCHANGED <<options, main, ready, plan>>

WorkerUnsupported == worker = "new" /\ ~Supported(options) /\ Fail

WorkerLoad ==
    /\ worker = "load" /\ Dispatch(options) # Refused
    /\ plan' = Dispatch(options)
    /\ worker' = "loaded"
    /\ UNCHANGED <<options, main, ready>>

WorkerNoAdapter == worker = "load" /\ Dispatch(options) = Refused /\ Fail

\* The service starts: it calls on_ready and runs.  An expect() without its
\* value unwinds the thread instead, and the sender is dropped.
WorkerLaunch ==
    /\ worker = "loaded"
    /\ IF plan.expects \subseteq Provided(options)
       THEN ready' = "ok" /\ worker' = "running"
       ELSE ready' = "dropped" /\ worker' = "panicked"
    /\ UNCHANGED <<options, main, plan>>

\* A file, a device, an address or the running service fails.
WorkerFails == worker \in {"new", "load", "loaded", "running"} /\ Fail

MainReady ==
    /\ main = "await" /\ ready \in {"ok", "err", "dropped"}
    /\ main' = IF ready # "ok" THEN "failed"
               ELSE IF options.role = "prefill" THEN "join" ELSE "bind"
    /\ UNCHANGED <<options, worker, ready, plan>>

MainBind ==
    /\ main = "bind" /\ main' \in {"serving", "failed"}
    /\ UNCHANGED <<options, worker, ready, plan>>

MainJoin ==
    /\ main = "join" /\ worker \in {"ended", "panicked"}
    /\ main' = IF worker = "panicked" THEN "failed" ELSE "returned"
    /\ UNCHANGED <<options, worker, ready, plan>>

WorkerStep ==
    WorkerNew \/ WorkerUnsupported \/ WorkerLoad \/ WorkerNoAdapter
        \/ WorkerLaunch

MainStep == Spawn \/ MainReady \/ MainBind \/ MainJoin

Next == WorkerStep \/ MainStep \/ WorkerFails

Spec == Init /\ [][Next]_vars

-----------------------------------------------------------------------------
(* Properties.                                                             *)

\* Whatever main and Worker::new let through, no branch unwraps an option the
\* command line did not give.
NeverPanics == worker # "panicked"

\* A server that takes requests runs what was asked for: every rank, the draft
\* or predictor, the attention mode, the precision, images, batching, the role
\* and the transport.  No option is accepted and then ignored.
OptionsHonoured ==
    main \in {"serving", "join"} =>
        /\ plan.service = (IF options.role = "prefill" THEN "prefill" ELSE "generate")
        /\ plan.ranks = options.devices
        /\ plan.dtype = options.dtype
        /\ plan.absorbed = options.absorbed
        /\ plan.mtp = options.mtp
        /\ plan.draft = options.draftId /\ plan.causal = options.causal
        /\ plan.images = options.multimodal
        /\ plan.batch = (options.batch # {})
        /\ plan.remote = (options.role = "decode")
        /\ plan.gpu = (options.transport = "ucx")

\* What decides the numbers in a stored prefix.
Meaning(o, p) == <<o.modelId, p.dtype, p.absorbed, p.mtp, p.draft, p.causal # {}>>

\* Servers with the same identity store prefixes that mean the same: sharing
\* a disk directory or a prefill peer never feeds one server the keys and
\* values of another precision, attention mode, predictor or draft.
IdentitySeparates ==
    worker = "running" =>
        \A o \in Commands :
            Identity(o) = Identity(options) /\ Accepted(o) /\ Supported(o) /\ Dispatch(o) # Refused
                => Meaning(o, Dispatch(o)) = Meaning(options, plan)

==============================================================================
