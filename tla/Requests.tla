------------------------------ MODULE Requests ------------------------------
(***************************************************************************)
(* What the three endpoints make of a request body before anything runs    *)
(* (the protocol.py of chat_completion, completion and responses): the     *)
(* validators that refuse or rewrite it, and to_sampling_params, which     *)
(* says what the engine is asked for.  Each validator is an operator of    *)
(* the body; they touch different fields, so their order does not matter.  *)
(*                                                                         *)
(* A body is one record for the three endpoints.  An optional field is the *)
(* set of its value, {} when it is null or absent.                         *)
(***************************************************************************)
EXTENDS Integers, Sequences, FiniteSets

(* A vllm_xargs dictionary by the keys that matter: the PoW payload, the   *)
(* ids that are added for it and the key-value transfer parameters.        *)
NoArgs == [pow |-> {}, completion_id |-> {}, request_item_id |-> {}, kv |-> {}]

(* dict.update: the keys the second one has win.                           *)
Updated(args, more) ==
    [key \in DOMAIN args |-> IF more[key] # {} THEN more[key] ELSE args[key]]

(* The fields of the request classes that matter, with their defaults.  An *)
(* endpoint does not read the fields of the others.                        *)
Common ==
    [id |-> "r1", stream |-> FALSE, stream_options |-> FALSE, include_usage |-> FALSE,
     logprobs |-> {}, top_logprobs |-> {}, prompt_logprobs |-> {}, tools |-> {},
     tool_choice |-> {}, structured |-> {}, response_format |-> {},
     continue_final_message |-> FALSE, add_generation_prompt |-> FALSE, cache_salt |-> {},
     reasoning_effort |-> {}, include_reasoning |-> TRUE, echo |-> FALSE,
     vllm_xargs |-> {}, extra_sampling_params |-> {}, kv |-> {},
     use_beam_search |-> FALSE, n |-> 1, max_tokens |-> {}, max_completion_tokens |-> {},
     return_token_ids |-> FALSE, parallel_tool_calls |-> TRUE, temperature |-> {},
     prompts |-> {1}, prompt_embeds |-> FALSE, background |-> FALSE, store |-> FALSE,
     prompt_template |-> FALSE, include_logprobs |-> FALSE, thinking_off |-> FALSE]

WithKind(kind, body) ==
    [f \in {"kind"} \cup DOMAIN body |-> IF f = "kind" THEN kind ELSE body[f]]

ChatDefaults == WithKind("chat", [Common EXCEPT !.top_logprobs = {0}])
CompletionDefaults == WithKind("completion", [Common EXCEPT !.max_tokens = {16}])
ResponsesDefaults == WithKind("responses", [Common EXCEPT !.top_logprobs = {0}, !.store = TRUE])

(* What a body that parses looks like: optional fields have at most one    *)
(* value, counts are positive, dictionaries have the keys that matter.     *)
Optional(value) == \A x, y \in value : x = y

WellFormed(d) ==
    /\ DOMAIN d = DOMAIN ChatDefaults
    /\ d.kind \in {"chat", "completion", "responses"}
    /\ \A f \in {"stream", "echo", "use_beam_search", "parallel_tool_calls", "thinking_off",
                  "return_token_ids"} : d[f] \in BOOLEAN
    /\ d.n \in Nat \ {0}
    /\ Optional(d.prompts) /\ d.prompts \subseteq Nat \ {0}
    /\ \A dicts \in {d.vllm_xargs, d.extra_sampling_params} :
          Optional(dicts) /\ \A x \in dicts : DOMAIN x = DOMAIN NoArgs

NoneChoice == [tag |-> "none", name |-> {}]
AutoChoice == [tag |-> "auto", name |-> {}]

-----------------------------------------------------------------------------
(* The validators.                                                         *)

(* A JSON schema response format has to bring its schema.                  *)
validate_response_format(d) ==
    \A f \in d.response_format : f.type = "json_schema" => f.schema

validate_stream_options(d) == d.stream_options => d.stream

(* Log-probability counts are not negative, -1 meaning all, and those of   *)
(* the prompt are not streamed.                                            *)
PromptLogprobsValid(d) ==
    \A p \in d.prompt_logprobs : p >= -1 /\ (d.stream => p = 0)

chat_check_logprobs(d) ==
    /\ PromptLogprobsValid(d)
    /\ \A t \in d.top_logprobs : t >= -1 /\ (t # 0 => d.logprobs # {})

completion_check_logprobs(d) ==
    /\ PromptLogprobsValid(d)
    /\ \A l \in d.logprobs : l >= 0

(* At most one of json, regex and choice.                                  *)
check_structured_outputs_count(d) ==
    \A s \in d.structured : Cardinality(s \cap {"json", "regex", "choice"}) <= 1

(* The tool choice: defaulted to auto when there are tools, refused when   *)
(* it names no tool, and turned off when a tool is required of an empty    *)
(* list.  The result is {} when the body is refused.                       *)
check_tool_usage(d) ==
    LET choice == IF d.tool_choice = {} /\ UNION d.tools # {}
                  THEN {AutoChoice} ELSE d.tool_choice
        checked == {c \in choice : c.tag \notin {"none", "null"}}
        emptied == /\ d.tools = {{}}
                   /\ \E c \in checked : c.tag = "required"
    IN  IF checked = {} THEN {[d EXCEPT !.tool_choice = choice]}
        ELSE IF \/ d.tools = {}
                \/ \E c \in checked :
                      \/ c.tag \notin {"auto", "required", "named"}
                      \/ c.tag = "named" /\ ~(c.name # {} /\ c.name \subseteq UNION d.tools)
        THEN {}
        ELSE IF emptied
        THEN {[d EXCEPT !.tool_choice = {NoneChoice}, !.tools = {}]}
        ELSE {[d EXCEPT !.tool_choice = choice]}

check_generation_prompt(d) == ~(d.continue_final_message /\ d.add_generation_prompt)

(* A cache salt is a non-empty string.                                     *)
check_cache_salt_support(d) == \A salt \in d.cache_salt : salt # ""

(* reasoning_effort "none" hides the reasoning.                            *)
set_include_reasoning_for_none_effort(d) ==
    [d EXCEPT !.include_reasoning = @ /\ d.reasoning_effort # {"none"}]

validate_prompt_and_prompt_embeds(d) == d.prompts # {} \/ d.prompt_embeds

validate_background(d) == d.background => d.store

validate_prompt(d) == ~d.prompt_template

(* The bodies that pass, as they are afterwards: {} or {body}.             *)
ChatRequest(d) ==
    IF /\ validate_response_format(d) /\ validate_stream_options(d)
       /\ chat_check_logprobs(d) /\ check_structured_outputs_count(d)
       /\ check_generation_prompt(d) /\ check_cache_salt_support(d)
    THEN {set_include_reasoning_for_none_effort(e) : e \in check_tool_usage(d)}
    ELSE {}

CompletionRequest(d) ==
    IF /\ validate_response_format(d) /\ validate_stream_options(d)
       /\ completion_check_logprobs(d) /\ check_structured_outputs_count(d)
       /\ validate_prompt_and_prompt_embeds(d) /\ check_cache_salt_support(d)
    THEN {d} ELSE {}

ResponsesRequest(d) ==
    IF validate_background(d) /\ validate_prompt(d) /\ check_cache_salt_support(d)
    THEN {d} ELSE {}

Validated(d) ==
    CASE d.kind = "chat"       -> ChatRequest(d)
      [] d.kind = "completion" -> CompletionRequest(d)
      [] d.kind = "responses"  -> ResponsesRequest(d)

-----------------------------------------------------------------------------
(* What the engine is asked for.                                           *)

(* The output tokens the prompt has to leave room for.                     *)
chat_tok_params(d) ==
    LET asked == IF d.max_completion_tokens # {} THEN d.max_completion_tokens ELSE d.max_tokens
    IN  IF asked = {} THEN 0 ELSE CHOOSE m \in asked : TRUE

completion_tok_params(d) == IF d.max_tokens = {} THEN 0 ELSE CHOOSE m \in d.max_tokens : TRUE

responses_tok_params(d) == IF d.max_tokens = {} THEN 0 ELSE CHOOSE m \in d.max_tokens : TRUE

(* A sampling parameter: the request's, else the server's, else the        *)
(* endpoint's own default.                                                 *)
Chosen(requested, default, own) ==
    IF requested # {} THEN requested ELSE IF default # {} THEN default ELSE {own}

(* The constraint a response format stands for, beside the request's own.  *)
chat_structured_outputs(d) ==
    UNION d.structured
      \cup {IF f.type = "json_schema" THEN "json" ELSE f.type :
               f \in {f \in d.response_format : f.type # "text"}}

responses_structured_outputs(d) ==
    UNION d.structured \cup
        {"json" : f \in {f \in d.response_format : f.type = "json_schema" /\ f.schema}}

(* The log-probabilities of the output and of the prompt: echo asks for    *)
(* those of the prompt unless they were asked for.                         *)
chat_logprobs(d) == IF d.logprobs # {} THEN d.top_logprobs ELSE {}

chat_prompt_logprobs(d) ==
    IF d.prompt_logprobs = {} /\ d.echo THEN d.top_logprobs ELSE d.prompt_logprobs

(* Mutant: those of the prompt only when asked for.                        *)
PromptLogprobsAsAsked(d) == d.prompt_logprobs

completion_prompt_logprobs(d) ==
    IF d.prompt_logprobs = {} /\ d.echo THEN d.logprobs ELSE d.prompt_logprobs

responses_logprobs(d) == IF d.include_logprobs THEN d.top_logprobs ELSE {}

(* The dictionary passed as extra_args.  Chat and completion hand on the   *)
(* request's own dictionary when it is not empty, with the key-value       *)
(* transfer parameters written into it; responses build a new one, the     *)
(* older alias winning over vllm_xargs.                                    *)
ExtraArgs(d) ==
    LET given == UNION {{x} : x \in d.vllm_xargs \ {NoArgs}}
        own == IF given = {} THEN NoArgs ELSE CHOOSE x \in given : TRUE
    IN  [shared |-> given # {}, args |-> [own EXCEPT !.kv = IF d.kv # {} THEN d.kv ELSE @]]

_build_extra_args(d) ==
    LET Or(s) == IF s = {} THEN NoArgs ELSE CHOOSE x \in s : TRUE
    IN  Updated(Or(d.vllm_xargs), Or(d.extra_sampling_params))

(* Streams take deltas of the output, the others its final state.          *)
chat_sampling_params(d, max_tokens, defaults) ==
    [temperature |-> Chosen(d.temperature, defaults.temperature, "1.0"),
     max_tokens |-> max_tokens, delta |-> d.stream,
     logprobs |-> chat_logprobs(d), prompt_logprobs |-> chat_prompt_logprobs(d),
     structured |-> chat_structured_outputs(d)]

(* Echoing without generating still generates one token.                   *)
completion_sampling_params(d, max_tokens, defaults) ==
    [temperature |-> Chosen(d.temperature, defaults.temperature, "1.0"),
     max_tokens |-> IF d.echo /\ d.max_tokens = {0} THEN 1 ELSE max_tokens,
     delta |-> d.stream,
     logprobs |-> d.logprobs, prompt_logprobs |-> completion_prompt_logprobs(d),
     structured |-> chat_structured_outputs(d)]

responses_sampling_params(d, default_max_tokens, defaults) ==
    [temperature |-> Chosen(d.temperature, defaults.temperature, "1.0"),
     max_tokens |-> IF \E m \in d.max_tokens : m < default_max_tokens
                    THEN CHOOSE m \in d.max_tokens : TRUE ELSE default_max_tokens,
     delta |-> d.stream,
     logprobs |-> responses_logprobs(d), prompt_logprobs |-> {},
     structured |-> responses_structured_outputs(d)]

(* A beam search carries no extra arguments and no log-probabilities.      *)
to_beam_search_params(d, max_tokens, defaults) ==
    [temperature |-> Chosen(d.temperature, defaults.temperature, "1.0"),
     max_tokens |-> max_tokens, delta |-> FALSE, logprobs |-> {},
     prompt_logprobs |-> {}, structured |-> {}]

(* responses: a text format beside structured_outputs is refused.          *)
TextFormatRefused(d) == d.response_format # {} /\ d.structured # {}
=============================================================================
