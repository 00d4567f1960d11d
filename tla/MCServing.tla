----------------------------- MODULE MCServing ------------------------------
(* Bodies around a plain one per endpoint, each family varying the fields  *)
(* that are read together, on servers with and without the parsers.        *)
EXTENDS Serving

Xargs == [NoArgs EXCEPT !.pow = {"payload"}]

Body == [ChatDefaults EXCEPT !.stream = TRUE]
Completion == [CompletionDefaults EXCEPT !.stream = TRUE]
Responses == ResponsesDefaults

Server == [reasoning |-> FALSE, tool_parser |-> FALSE, harmony |-> FALSE,
           force_usage |-> FALSE, continuous |-> TRUE, lag |-> 0, faults |-> FALSE,
           unknown_model |-> FALSE, beams_scored |-> FALSE, details |-> "every",
           defaults |-> [temperature |-> {}]]

On(servers, bodies) == [server : servers, body : bodies]

Choice(tag, name) == {[tag |-> tag, name |-> name]}
Tool(tag) == [Body EXCEPT !.tools = {{"f"}}, !.tool_choice = Choice(tag, {"f"})]

(* Plain chat: two choices, faults, echo, usage, log-probabilities.        *)
Plain ==
    On({[Server EXCEPT !.faults = TRUE]}, {[Body EXCEPT !.n = 2]}) \cup
    On({Server, [Server EXCEPT !.force_usage = TRUE, !.continuous = FALSE]},
       {[Body EXCEPT !.echo = e, !.stream = s, !.stream_options = o, !.include_usage = TRUE,
                     !.max_completion_tokens = m, !.max_tokens = {1}] :
            e \in BOOLEAN, s \in BOOLEAN, o \in BOOLEAN, m \in {{}, {2}, {30}}})

Logprobs ==
    On({Server},
       {[Body EXCEPT !.logprobs = l, !.top_logprobs = t, !.prompt_logprobs = p, !.echo = e,
                     !.stream = s] :
            l \in {{}, {1}}, t \in {{}, {-2}, {-1}, {0}, {1}}, p \in {{}, {-2}, {-1}, {0}, {1}},
            e \in BOOLEAN, s \in BOOLEAN} \cup
       {[Completion EXCEPT !.logprobs = l, !.prompt_logprobs = p, !.echo = e, !.stream = s,
                           !.max_tokens = m, !.return_token_ids = r] :
            l \in {{}, {-1}, {1}}, p \in {{}, {-1}, {0}, {1}}, e \in BOOLEAN,
            s \in BOOLEAN, m \in {{}, {0}, {2}}, r \in BOOLEAN}) \cup
    On({[Server EXCEPT !.beams_scored = u] : u \in BOOLEAN},
       {[b EXCEPT !.use_beam_search = TRUE, !.logprobs = {1}, !.top_logprobs = {1},
                  !.stream = s] : b \in {Body, Completion}, s \in BOOLEAN})

(* The ways a body is refused, rewritten or constrained.                   *)
Shapes ==
    On({Server, [Server EXCEPT !.tool_parser = TRUE]},
       {[Body EXCEPT !.tools = t, !.tool_choice = c, !.reasoning_effort = r] :
            t \in {{}, {{}}, {{"f"}}},
            c \in {{}} \cup {Choice(g, {"f"}) : g \in {"none", "null", "auto", "required", "other"}}
                  \cup {Choice("named", n) : n \in {{}, {"f"}, {"g"}}},
            r \in {{}, {"none"}}}) \cup
    On({Server, [Server EXCEPT !.unknown_model = TRUE]},
       {[b EXCEPT !.structured = s, !.response_format = f, !.stream = FALSE,
                  !.cache_salt = c] :
            b \in {Body, Completion, Responses}, s \in {{}, {{"regex"}}, {{"json", "regex"}}},
            f \in {{}} \cup {{[type |-> t, schema |-> h]} :
                              t \in {"json_schema", "text"}, h \in BOOLEAN},
            c \in {{}, {""}, {"salt"}}}) \cup
    On({[Server EXCEPT !.defaults.temperature = {"0.6"}]},
       {[Body EXCEPT !.continue_final_message = c, !.add_generation_prompt = g,
                     !.temperature = t] :
            c \in BOOLEAN, g \in BOOLEAN, t \in {{}, {"0.2"}}} \cup
       {[Completion EXCEPT !.prompts = p, !.prompt_embeds = e, !.use_beam_search = b,
                           !.stream = s] :
            p \in {{}, {1}}, e \in {FALSE}, b \in BOOLEAN, s \in BOOLEAN} \cup
       {[Responses EXCEPT !.background = b, !.store = s, !.prompt_template = p,
                          !.max_tokens = m, !.include_logprobs = i] :
            b \in BOOLEAN, s \in BOOLEAN, p \in BOOLEAN, m \in {{}, {1}}, i \in BOOLEAN})

(* The PoW payload, alone and beside other arguments.                      *)
Payloads ==
    On({Server},
       {[b EXCEPT !.vllm_xargs = x, !.kv = k, !.use_beam_search = m, !.stream = FALSE,
                  !.prompts = IF b.kind = "completion" THEN {2} ELSE {1}] :
            b \in {Body, Completion}, x \in {{}, {NoArgs}, {Xargs}}, k \in {{}, {"kv"}},
            m \in BOOLEAN} \cup
       {[Responses EXCEPT !.vllm_xargs = x, !.extra_sampling_params = e, !.kv = k] :
            x \in {{}, {Xargs}}, e \in {{}, {[NoArgs EXCEPT !.pow = {"alias"}]}},
            k \in {{}, {"kv"}}})

(* Tools and reasoning, streamed and in one piece.                         *)
Parsers ==
    On({[Server EXCEPT !.reasoning = r, !.tool_parser = TRUE, !.lag = l] :
            r \in BOOLEAN, l \in {0, 1}},
       {[b EXCEPT !.stream = s, !.thinking_off = o] :
            b \in {Tool("auto"), Tool("named"), Tool("required"), Body}, s \in BOOLEAN,
            o \in BOOLEAN}) \cup
    On({[Server EXCEPT !.tool_parser = TRUE]},
       {[Tool("auto") EXCEPT !.n = 2, !.return_token_ids = TRUE],
        [Tool("named") EXCEPT !.n = 2, !.parallel_tool_calls = FALSE],
        [Tool("required") EXCEPT !.parallel_tool_calls = FALSE, !.n = 1],
        [Tool("required") EXCEPT !.max_tokens = {7}]}) \cup
    On({[Server EXCEPT !.harmony = TRUE, !.tool_parser = t] : t \in BOOLEAN},
       {[Body EXCEPT !.stream = s, !.include_reasoning = i, !.parallel_tool_calls = p] :
            s \in BOOLEAN, i \in BOOLEAN, p \in BOOLEAN}) \cup
    On({[Server EXCEPT !.reasoning = TRUE, !.tool_parser = TRUE]},
       {[Tool("named") EXCEPT !.stream = s, !.max_tokens = {1}] : s \in BOOLEAN})

(* Completions over two prompts with two choices each.                     *)
Completions ==
    On({[Server EXCEPT !.force_usage = TRUE]},
       {[Completion EXCEPT !.prompts = {2}, !.n = 2, !.echo = e, !.max_tokens = {1},
                           !.vllm_xargs = {Xargs}, !.stream = s] :
            e \in BOOLEAN, s \in BOOLEAN} \cup
       {[Completion EXCEPT !.n = 2, !.echo = e] : e \in BOOLEAN} \cup
       {[Completion EXCEPT !.prompts = {}, !.prompt_embeds = TRUE, !.echo = e,
                           !.return_token_ids = r, !.stream = s] :
            e \in BOOLEAN, r \in BOOLEAN, s \in BOOLEAN}) \cup
    On({[Server EXCEPT !.details = "first"]},
       {[Completion EXCEPT !.prompts = {2}, !.echo = TRUE, !.max_tokens = {1}],
        [Completion EXCEPT !.n = 2, !.echo = TRUE],
        [Completion EXCEPT !.n = 2, !.return_token_ids = TRUE],
        [Completion EXCEPT !.n = 2, !.echo = TRUE, !.stream = FALSE]})

MCInputs == Plain \cup Logprobs \cup Shapes \cup Payloads \cup Parsers \cup Completions

JsonTool == <<"{", "n", "p", "{", "a", "}", "}">>
MCTexts(m) ==
    LET answer ==
          CASE m.mode = "required" -> {<<"[">> \o JsonTool \o <<"]">>,
                                       <<"[">> \o JsonTool \o <<",">> \o JsonTool \o <<"]">>}
            [] m.mode = "named"    -> {<<"A", "A">>}
            [] m.mode = "auto"     -> {<<"w", "N", "A", "A">>, <<"w", "w">>}
            [] m.mode = "harmony"  -> {<<"w", "E", "w">>, <<"w", "N", "A", "N", "A">>}
            [] OTHER               -> {<<"w", "w">>}
    IN  IF m.reasoning /\ ~m.off /\ m.mode # "completion"
        THEN {<<"w", "E">> \o a : a \in answer} ELSE answer
=============================================================================
