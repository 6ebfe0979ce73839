----------------------------- MODULE MCProtocol ------------------------------
(***************************************************************************)
(* What the clients see: the texts, tool calls and conversations of the    *)
(* two HTTP interfaces, the generation loops that select the tokens, the   *)
(* OpenAI-compatible server that runs them and the command lines that      *)
(* start one, each on a small instance of its own. A behaviour runs one    *)
(* component, the one `part` names; the variables it does not use stay     *)
(* Off.                                                                    *)
(***************************************************************************)
EXTENDS Integers, Sequences, FiniteSets, TLC

VARIABLES part,  \* the component this behaviour runs
          v1, v2, v3, v4, v5, v6, v7, v8, v9, v10, v11, v12, v13, v14, v15

vars == <<part, v1, v2, v3, v4, v5, v6, v7, v8, v9, v10, v11, v12, v13, v14,
                v15>>

Off == "off"

-----------------------------------------------------------------------------
(* OpenAiServer: two connections: one request for every answer that does   *)
(* not need the engine, and jobs with and without a stream.                *)

Body(prompt, n, temperature, sampling, stops, stream) ==
  [prompt |-> prompt, n |-> n, temperature |-> temperature, sampling |-> sampling,
   stops |-> stops, stream |-> stream]
Good(stream) == Body(TRUE, 1, 1, TRUE, 4, stream)

Http(read, authorized, method, path, json, body) ==
  [read |-> read, authorized |-> authorized, method |-> method, path |-> path,
   json |-> json, body |-> body]
Post(body) == Http(200, TRUE, "POST", "generate", TRUE, body)

HttpRequests == {Post(Good(TRUE)), Post(Body(TRUE, 1, 0, FALSE, 0, FALSE)),
               Post(Body(TRUE, 1, 1, FALSE, 0, TRUE)), Http(413, TRUE, "POST", "generate", TRUE, Good(TRUE)),
               Http(200, FALSE, "POST", "generate", TRUE, Good(TRUE)),
               Http(200, TRUE, "GET", "generate", FALSE, Good(TRUE)), Http(200, TRUE, "GET", "info", FALSE, Good(TRUE)),
               Http(200, TRUE, "POST", "other", TRUE, Good(TRUE))}

Reports == {<<"text">>, <<"held">>, <<"stop">>, <<"eos">>, <<"stop", "text">>}

OpenAi == INSTANCE OpenAiServer WITH
    Connections <- 1..2, Requests <- HttpRequests, MaxNew <- 2, Reports <-
    Reports, MaxFailures <- 1, conn <- v1, client <- v2, events <- v3,
    incoming <- v4, engine <- v5, jobs <- v6, runner <- v7, finished <- v8,
    report <- v9, failures <- v10

OpenAiOn == part = "openai" /\ UNCHANGED <<part, v11, v12, v13, v14, v15>>

OpenAiInit ==
    /\ part = "openai" /\ OpenAi!Init
    /\ v11 = Off /\ v12 = Off /\ v13 = Off /\ v14 = Off /\ v15 = Off

OpenAiNext == OpenAiOn /\ OpenAi!Next

-----------------------------------------------------------------------------
(* ServerLaunch: complete command lines in every combination, and          *)
(* incomplete or contradictory ones.                                       *)

Optional(S) == {{}} \cup {{v} : v \in S}

DefaultOptions ==
    [kind |-> "qwen3", nextn |-> FALSE, sameTokenizer |-> TRUE, modelId |-> "qwen3",
     backend |-> "native", torch |-> {}, devices |-> 1, repeated |-> FALSE,
     dtype |-> "bf16", role |-> "integrated", address |-> {}, transport |-> "host",
     library |-> FALSE, absorbed |-> FALSE, draft |-> {}, draftId |-> {}, causal |-> {},
     mtp |-> FALSE, multimodal |-> FALSE, batch |-> {}, batchExtras |-> FALSE]

\* Complete command lines: every combination of what they may ask for.  The
\* model id names the weights, as the option demands.
WellFormed ==
    {[DefaultOptions EXCEPT !.kind = kind[1], !.modelId = kind[1], !.nextn = kind[2],
         !.backend = backend, !.devices = n, !.dtype = numbers[1], !.absorbed = numbers[2],
         !.role = place[1], !.address = IF place[1] = "integrated" THEN {} ELSE {"peer"},
         !.transport = place[2], !.library = place[2] = "ucx",
         !.draft = IF d[1] = {} THEN {} ELSE {"path"}, !.draftId = d[1], !.causal = d[2],
         !.mtp = d[3] = "mtp", !.multimodal = d[3] = "images", !.batch = batch] :
        kind \in {<<"llama", FALSE>>, <<"qwen3", FALSE>>, <<"qwen35", FALSE>>, <<"mla", TRUE>>,
                  <<"kimi_linear", FALSE>>, <<"other", FALSE>>},
        backend \in {"native", "libtorch"}, n \in 1 .. 2, batch \in {{}, {8}},
        numbers \in {<<"bf16", FALSE>>, <<"fp16", FALSE>>, <<"bf16", TRUE>>},
        place \in {<<"integrated", "host">>, <<"decode", "host">>, <<"prefill", "ucx">>,
                   <<"decode", "ucx">>},
        d \in {<<{}, {}, "none">>, <<{}, {}, "mtp">>, <<{}, {}, "images">>, <<{"a"}, {}, "none">>,
               <<{"a"}, {2}, "none">>, <<{"a"}, {2}, "mtp">>}}

\* Incomplete or contradictory ones.
Malformed ==
    UNION {
        {[DefaultOptions EXCEPT !.role = r, !.address = a] :
            r \in {"integrated", "prefill", "decode", "both"}, a \in Optional({"peer"})},
        {[DefaultOptions EXCEPT !.draft = p, !.draftId = i, !.causal = c, !.batch = b] :
            p \in Optional({"path"}), i \in Optional({"a"}), c \in Optional({0, 2}),
            b \in {{}, {8}}},
        {[DefaultOptions EXCEPT !.batch = b, !.batchExtras = e, !.multimodal = i, !.kind = "qwen35"] :
            b \in Optional({0, 8}), e \in BOOLEAN, i \in BOOLEAN},
        {[DefaultOptions EXCEPT !.devices = n, !.repeated = r, !.backend = b, !.torch = t] :
            n \in 0 .. 2, r \in BOOLEAN, b \in {"native", "libtorch", "none"},
            t \in Optional({"cpu", "cuda", "tpu"})},
        {[DefaultOptions EXCEPT !.draft = {"path"}, !.draftId = {"a"}, !.causal = {2},
             !.batch = {8}, !.sameTokenizer = s] : s \in BOOLEAN}}

Commands == WellFormed \cup Malformed

Launch == INSTANCE ServerLaunch WITH
    Commands <- Commands, options <- v1, main <- v2, worker <- v3, ready <-
    v4, plan <- v5

LaunchOn == part = "launch" /\ UNCHANGED <<part, v6, v7, v8, v9, v10, v11, v12, v13, v14, v15>>

LaunchInit ==
    /\ part = "launch" /\ Launch!Init
    /\ v6 = Off /\ v7 = Off /\ v8 = Off /\ v9 = Off /\ v10 = Off /\ v11 = Off
    /\ v12 = Off /\ v13 = Off /\ v14 = Off /\ v15 = Off

LaunchNext == LaunchOn /\ Launch!Next

-----------------------------------------------------------------------------
(* ResponsesStream: pieces that split reasoning, text and tool calls at    *)
(* every place.                                                            *)

Pieces == {<<"t">>, <<"O">>, <<"t", "O">>, <<"P", "f">>, <<"P", "g">>,
             <<"Z", "C">>, <<"D">>, <<"Z", "C", "D", "t">>}

EventStops == {{}, {<<"t", "t">>}, {<<"t", "O">>}}

Events == INSTANCE ResponsesStream WITH
    Pieces <- Pieces, Declared <- {"f"}, StopSets <- EventStops, MaxLen <- 7,
    stops <- v1, parallel <- v2, text <- v3, output <- v4, status <- v5

EventsOn == part = "events" /\ UNCHANGED <<part, v6, v7, v8, v9, v10, v11, v12, v13, v14, v15>>

EventsInit ==
    /\ part = "events" /\ Events!Init
    /\ v6 = Off /\ v7 = Off /\ v8 = Off /\ v9 = Off /\ v10 = Off /\ v11 = Off
    /\ v12 = Off /\ v13 = Off /\ v14 = Off /\ v15 = Off

EventsNext == EventsOn /\ Events!Next

-----------------------------------------------------------------------------
(* ResponsesInput: conversations with nested tools and two calls.          *)

Function(name) == [type |-> "function", name |-> name, namespace |-> {}]

Custom(name) == [type |-> "custom", name |-> name, namespace |-> {}]

Namespace(name, tools) == [type |-> "namespace", name |-> name, tools |-> tools]

ToolLists ==
    {<<>>,
     <<Function(<<"run">>), Namespace(<<"ns">>, <<Function(<<"run">>), Custom(<<"edit">>)>>)>>,
     \* one wire name twice
     <<Namespace(<<"a">>, <<Function(<<"b", "c">>)>>), Namespace(<<"a", "b">>, <<Custom(<<"c">>)>>)>>,
     <<Namespace(<<"a">>, <<[Function(<<"b">>) EXCEPT !.type = "namespace"]>>)>>}

Items == INSTANCE ResponsesInput WITH
    ToolLists <- ToolLists, Instructions <- {{}, {<<"be", "brief">>}},
    ToolChoices <- {"auto", "required"}, Limits <- {{}, {0}, {8}}, Window
    <- 8, Output <- 7, CallIds <- {"c1", "c2"}, Texts <- {<<"x">>}, MaxItems
    <- 4, body <- v1, history <- v2, said <- v3, honest <- v4, result <- v5

ItemsOn == part = "items" /\ UNCHANGED <<part, v6, v7, v8, v9, v10, v11, v12, v13, v14, v15>>

ItemsInit ==
    /\ part = "items" /\ Items!Init
    /\ v6 = Off /\ v7 = Off /\ v8 = Off /\ v9 = Off /\ v10 = Off /\ v11 = Off
    /\ v12 = Off /\ v13 = Off /\ v14 = Off /\ v15 = Off

ItemsNext == ItemsOn /\ Items!Next

-----------------------------------------------------------------------------
(* StopStream: stop strings that overlap each other and themselves, and    *)
(* split characters.                                                       *)

StopSets ==
  {{}, {<<"a", "b">>}, {<<"a", "a", "b">>}, {<<"a", "b", "a">>, <<"b", "b">>},
   {<<"e", "a">>, <<"a", "e">>}, {<<"a", "b", "a", "b">>, <<"b", "a">>}}

Stops == INSTANCE StopStream WITH
    Tokens <- {"a", "b", "h", "z"}, StopSets <- StopSets, MaxTokens <- 4,
    server <- v1, stops <- v2, generated <- v3, text <- v4, emitted <- v5,
    sent <- v6, status <- v7

StopsOn == part = "stop" /\ UNCHANGED <<part, v8, v9, v10, v11, v12, v13, v14, v15>>

StopsInit ==
    /\ part = "stop" /\ Stops!Init
    /\ v8 = Off /\ v9 = Off /\ v10 = Off /\ v11 = Off /\ v12 = Off /\ v13 = Off
    /\ v14 = Off /\ v15 = Off

StopsNext == StopsOn /\ Stops!Next

-----------------------------------------------------------------------------
(* XmlArguments: every symbol of an argument, and CR LF as one token, in   *)
(* texts of up to eight symbols.                                           *)

XmlTokens == {<<c>> : c \in {"s", "o", "i", "C", "D", "E", "x", "n", "r"}} \cup {<<"r", "n">>}

Xml == INSTANCE XmlArguments WITH
    Tokens <- XmlTokens, MaxLen <- 8, body <- v1, sent <- v2, status <- v3

XmlOn == part = "xml" /\ UNCHANGED <<part, v4, v5, v6, v7, v8, v9, v10, v11, v12, v13, v14, v15>>

XmlInit ==
    /\ part = "xml" /\ Xml!Init
    /\ v4 = Off /\ v5 = Off /\ v6 = Off /\ v7 = Off /\ v8 = Off /\ v9 = Off
    /\ v10 = Off /\ v11 = Off /\ v12 = Off /\ v13 = Off /\ v14 = Off /\ v15 = Off

XmlNext == XmlOn /\ Xml!Next

-----------------------------------------------------------------------------
(* StructuredDecoding: tokens that split and join the tool tags.           *)

Piece(id, special, chars) == [id |-> id, special |-> special, chars |-> chars]

OpenTag == <<"<", "t", ">">>

CloseTag == <<"<", "/">>

Reply == <<"x", "t">>

Payload ==
    "first ok" :> [name |-> "first", args |-> "object"]
    @@ "first 9" :> [name |-> "first", args |-> "other"]
    @@ "second s" :> [name |-> "second", args |-> "string"]
    @@ "none ok" :> [name |-> "none", args |-> "object"]

Plain ==
    {Piece("T_x", FALSE, <<"x">>), Piece("T_close", FALSE, CloseTag),
     Piece("ignored", TRUE, <<"i">>),
     Piece("eos1", TRUE, <<"e">>), Piece("eos2", TRUE, <<"f">>)}
    \cup {Piece(p, FALSE, <<p>>) : p \in DOMAIN Payload}

\* No special tags: the opening tag is ordinary text, whole or in pieces.
Split ==
    Plain \cup {Piece("T_ltt", FALSE, <<"<", "t">>), Piece("T_gt", FALSE, <<">">>),
                Piece("T_t", FALSE, <<"t">>), Piece("T_open", FALSE, OpenTag)}

\* Special tags, and a piece that ends the text in a prefix of the tag.
Special ==
    {Piece("T_x", FALSE, <<"x">>), Piece("T_ltt", FALSE, <<"<", "t">>),
     Piece("open", TRUE, OpenTag), Piece("close", TRUE, CloseTag),
     Piece("eos2", TRUE, <<"f">>), Piece("eos1", TRUE, <<"e">>)}
    \cup {Piece(p, FALSE, <<p>>) : p \in {"first ok", "second s"}}

Eos == <<"eos1", "eos2">>

Tool(name, strict, schema) == [name |-> name, strict |-> strict, schema |-> schema]

First == Tool("first", "true", TRUE)

Second == Tool("second", "absent", FALSE)

All == {t.id : t \in Split \cup Special}

R(tools, choice, parallel, format, grammar, vocabulary) ==
    [tools |-> tools, choice |-> choice, parallel |-> parallel,
     format |-> format, grammar |-> grammar, vocabulary |-> vocabulary]

Refused ==
    {R(<<First, First>>, "auto", "absent", "none", FALSE, All),
     R(<<Tool("", "true", TRUE)>>, "auto", "absent", "none", FALSE, All),
     R(<<Tool("first", "true", FALSE)>>, "auto", "absent", "none", FALSE, All),
     R(<<First, Tool("second", "bad", FALSE)>>, "auto", "absent", "none", FALSE, All),
     R(<<First>>, "second", "absent", "none", FALSE, All),
     R(<<First>>, "auto", "absent", "object", FALSE, All),
     R(<<>>, "auto", "absent", "object", TRUE, All),
     R(<<>>, "auto", "absent", "bad_schema", FALSE, All)}

Tooled ==
    {R(<<First, Second>>, c[1], c[2], "none", FALSE, All) :
        c \in {<<"auto", "true">>, <<"auto", "false">>, <<"required", "true">>,
               <<"required", "false">>, <<"first", "true">>, <<"second", "false">>}}

\* A model vocabulary without the payloads, a disabled choice and plain
\* constraints of the response.
Others ==
    {R(<<First>>, "required", "absent", "none", FALSE, All \ DOMAIN Payload),
     R(<<First>>, "none", "false", "text", FALSE, {"T_x", "ignored", "eos1"}),
     R(<<Second>>, "auto", "absent", "none", FALSE, {"T_x", "eos2", "T_ltt", "T_gt", "open"}),
     R(<<>>, "auto", "absent", "schema", FALSE, All),
     R(<<>>, "auto", "absent", "none", TRUE, All)}

ToolRequests == Refused \cup Tooled \cup Others

Decode == INSTANCE StructuredDecoding WITH
    Tokens <- Split, Eos <- Eos, Requests <- ToolRequests, Payload <- Payload,
    OpenTag <- OpenTag, CloseTag <- CloseTag, Reply <- Reply, StructuredOutput
    <- TRUE, MaxTokens <- 4, request <- v1, phase <- v2, matcher <- v3, text
    <- v4, length <- v5, outcome <- v6

DecodeOn == part = "split" /\ UNCHANGED <<part, v7, v8, v9, v10, v11, v12, v13, v14, v15>>

DecodeInit ==
    /\ part = "split" /\ Decode!Init
    /\ v7 = Off /\ v8 = Off /\ v9 = Off /\ v10 = Off /\ v11 = Off /\ v12 = Off
    /\ v13 = Off /\ v14 = Off /\ v15 = Off

DecodeNext == DecodeOn /\ Decode!Next

-----------------------------------------------------------------------------
(* StructuredDecoding: special tag tokens, and a piece that ends in a      *)
(* prefix of a tag.  As with any byte-level tokenizer, the tokens can spell *)
(* the constrained reply.                                                  *)

Tags == INSTANCE StructuredDecoding WITH
    Tokens <- Special, Eos <- Eos, Requests <- ToolRequests, Payload <-
    Payload, OpenTag <- OpenTag, CloseTag <- CloseTag, Reply <- <<"x", "x">>,
    StructuredOutput <- TRUE, MaxTokens <- 6, request <- v1, phase <- v2,
    matcher <- v3, text <- v4, length <- v5, outcome <- v6

TagsOn == part = "tags" /\ UNCHANGED <<part, v7, v8, v9, v10, v11, v12, v13, v14, v15>>

TagsInit ==
    /\ part = "tags" /\ Tags!Init
    /\ v7 = Off /\ v8 = Off /\ v9 = Off /\ v10 = Off /\ v11 = Off /\ v12 = Off
    /\ v13 = Off /\ v14 = Off /\ v15 = Off

TagsNext == TagsOn /\ Tags!Next

-----------------------------------------------------------------------------
(* SpeculativeLoop: a draft and a target, with eos, stop sequences and     *)
(* full caches.                                                            *)

LoopRequest(prompt, max, eos, stops, d) ==
    [prompt |-> prompt, maxNew |-> max, eos |-> eos, stops |-> stops, draft |-> d]
LoopRequests ==
    {LoopRequest(<<1>>, 5, {3}, <<<<1, 1, 2>>, <<2, 1, 2>>>>, 2),
     LoopRequest(<<2, 1>>, 4, {3}, <<<<2, 3>>, <<1, 2, 2>>, <<2, 2>>>>, 3),
     LoopRequest(<<1>>, 0, {}, <<>>, 1),
     LoopRequest(<<1>>, 2, {3}, <<<<>>>>, 1),
     LoopRequest(<<1>>, 7, {3}, <<>>, 1),
     LoopRequest(<<1>>, 2, {3}, <<>>, 0)}

Loop == INSTANCE SpeculativeLoop WITH
    Token <- 1..3, Requests <- LoopRequests, Capacity <- 8, DraftCapacity <-
    7, pc <- v1, req <- v2, flag <- v3, gen <- v4, source <- v5, matcher <-
    v6, reason <- v7, target <- v8, draft <- v9, targetNext <- v10, draftNext
    <- v11, before <- v12, candidates <- v13, rows <- v14, committed <- v15

LoopOn == part = "loop" /\ UNCHANGED part

LoopInit ==
    /\ part = "loop" /\ Loop!Init

LoopNext == LoopOn /\ Loop!Next

-----------------------------------------------------------------------------
(* GenerationSession: loops and sessions saved and restored at any moment. *)

SessionRequests ==
    {[prompt |-> <<1>>, maxNew |-> 4, eos |-> {3}, stops |-> <<<<1, 1, 2>>, <<2, 2>>>>, sampled |-> FALSE],
     [prompt |-> <<1, 2>>, maxNew |-> 3, eos |-> {3}, stops |-> <<<<2, 3>>, <<2, 1>>>>, sampled |-> TRUE],
     [prompt |-> <<1>>, maxNew |-> 0, eos |-> {}, stops |-> <<>>, sampled |-> FALSE],
     [prompt |-> <<2>>, maxNew |-> 9, eos |-> {}, stops |-> <<>>, sampled |-> TRUE]}

Session == INSTANCE GenerationSession WITH
    Token <- 1..3, Requests <- SessionRequests, Capacity <- 6, MaxRestores <-
    2, req <- v1, flag <- v2, s <- v3, saved <- v4, prefix <- v5, restores <-
    v6

SessionOn == part = "session" /\ UNCHANGED <<part, v7, v8, v9, v10, v11, v12, v13, v14, v15>>

SessionInit ==
    /\ part = "session" /\ Session!Init
    /\ v7 = Off /\ v8 = Off /\ v9 = Off /\ v10 = Off /\ v11 = Off /\ v12 = Off
    /\ v13 = Off /\ v14 = Off /\ v15 = Off

SessionNext == SessionOn /\ Session!Next

-----------------------------------------------------------------------------
(* TokenSampling: every filter over three tokens and every pair of         *)
(* distributions of six parts.                                             *)

Sampling == INSTANCE TokenSampling WITH
    Logit <- {0, 1, 2}, Vocab <- 3, Base <- 2, Parts <- 4, Mass <- 6, Grid <-
    60, input <- v1, output <- v2

SamplingOn == part = "sampling" /\ UNCHANGED <<part, v3, v4, v5, v6, v7, v8, v9, v10, v11, v12, v13, v14, v15>>

SamplingInit ==
    /\ part = "sampling" /\ Sampling!Init
    /\ v3 = Off /\ v4 = Off /\ v5 = Off /\ v6 = Off /\ v7 = Off /\ v8 = Off
    /\ v9 = Off /\ v10 = Off /\ v11 = Off /\ v12 = Off /\ v13 = Off /\ v14 = Off
    /\ v15 = Off

SamplingNext == SamplingOn /\ Sampling!Next

-----------------------------------------------------------------------------
Init ==
    \/ OpenAiInit
    \/ LaunchInit
    \/ EventsInit
    \/ ItemsInit
    \/ StopsInit
    \/ XmlInit
    \/ DecodeInit
    \/ TagsInit
    \/ LoopInit
    \/ SessionInit
    \/ SamplingInit

Next ==
    \/ OpenAiNext
    \/ LaunchNext
    \/ EventsNext
    \/ ItemsNext
    \/ StopsNext
    \/ XmlNext
    \/ DecodeNext
    \/ TagsNext
    \/ LoopNext
    \/ SessionNext
    \/ SamplingNext

Fairness ==
    /\ WF_vars(OpenAiOn /\ (OpenAi!Engine \/ (v5 = "step" /\ v6 = <<>> /\ OpenAi!StepFails)))
    /\ \A c \in 1..2 :
          /\ WF_vars(OpenAiOn /\ (\/ OpenAi!Collect(c) \/ OpenAi!Stream(c)
                                 \/ \E r \in HttpRequests : OpenAi!HandleConnection(c, r)))
          /\ SF_vars(OpenAiOn /\ \E B \in SUBSET (1..2) : c \in B /\ OpenAi!Step(B))

Spec == Init /\ [][Next]_vars /\ Fairness

-----------------------------------------------------------------------------
(* Properties                                                              *)

\* Whenever the loop comes around, the runner holds exactly the requests of the
\* engine's jobs, and a connection that closed with its client still there
\* wrote one whole answer (cancel errors are ignored in on_token,
\* drop_disconnected and fail_all).
RunnerMatchesJobs ==
    part = "openai" => OpenAi!RunnerMatchesJobs /\ OpenAi!AnswerComplete

\* A server that takes requests runs what was asked for: none of the options for
\* model, weights and identity, backend, devices, data type, attention, role,
\* address and transport, drafts, MTP, images and batching is accepted and then
\* ignored, no branch unwraps one that was not given, and servers with the same
\* identity store prefixes that mean the same.
OptionsHonoured ==
    part = "launch" =>
        Launch!OptionsHonoured /\ Launch!NeverPanics /\ Launch!IdentitySeparates

\* What is streamed is what the whole text says, however it is split into
\* tokens: a client that applies the events holds the server's items, deltas
\* add up to the text cut at its stop string and are never taken back, and the
\* arguments streamed for an XML call are a prefix of those of the complete call
\* (the test of xml_prefix asserts arguments.starts_with(&partial)).  One split
\* of XML arguments is excepted: a line feed that comes in the token behind a
\* carriage return already streamed makes it part of a line end that unpad
\* strips, and the call is refused (tool_calls.rs:73).  A client that replays
\* what it was given and answers every call is never refused, and the replayed
\* chat is the one the model took part in.
StreamExact ==
    /\ part = "events" => Events!EventsReplay /\ Events!StreamEqualsWhole
    /\ part = "stop" => Stops!StreamExact /\ Stops!NeverRetracts
    /\ part = "xml" => Xml!PrefixPreserved /\ Xml!ArgumentsExact
    /\ part = "items" => Items!ReplayExact /\ Items!NeverRefused /\ Items!WellPaired

\* A constrained generation that ends its turn is a text the parser reads, with
\* calls the request allows; the one text the grammar allows and the parser
\* does not read is a string given as the arguments of a function that is not
\* strict.  No opening tag comes into the visible text but as the start of such
\* a call, ordinary text is not restricted, and the decoder never fails of
\* itself: only for a model that cannot emit all tokens of the tokenizer may the
\* mask be empty.
EndsReadable ==
    /\ part = "split" => /\ Decode!EndsReadable /\ Decode!MarkersValidated
                         /\ Decode!TextFree /\ Decode!DecoderSound /\ Decode!ReplyExact
    /\ part = "tags" => /\ Tags!EndsReadable /\ Tags!MarkersValidated
                        /\ Tags!TextFree /\ Tags!DecoderSound /\ Tags!ReplyExact

\* The n-th token is selected from the row of the prompt and the n - 1 tokens
\* before it and with the n-th draw, as if no draft existed and through every
\* record and restore; generation ends where rescanning its suffix says; and
\* every token comes with exactly the target's probability, whatever the draft.
HistoryExact ==
    /\ part = "loop" => /\ Loop!OutputOrdinary /\ Loop!FinishOrdinary
                        /\ Loop!CachesCommitted
    /\ part = "session" => /\ Session!HistoryExact /\ Session!RecordsRestore
                           /\ Session!EndsOrdinary
    /\ part = "sampling" => Sampling!FiltersExact /\ Sampling!RejectionExact

\* Whatever clients leave and steps fail, every connection thread ends, so
\* every client that stayed has its answer.
EveryConnectionCloses ==
    part = "openai" ~> (part = "openai" /\ \A c \in 1..2 : v1[c].pc = "closed")

=============================================================================
