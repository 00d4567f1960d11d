------------------------------ MODULE Serving -------------------------------
(***************************************************************************)
(* One request through the OpenAI endpoints (chat_completion/serving.py    *)
(* and completion/serving.py): it is validated, turned into one engine     *)
(* request per prompt, and answered as a stream of chunks or as one        *)
(* response.  A lane is one choice of one prompt, numbered as in the       *)
(* answer.  The engine generates for the lanes in any order; outputs that  *)
(* are not taken in time are merged, so a delta holds one or more tokens.  *)
(* The generator takes what there is for one prompt and works through it   *)
(* output by output, with a chunk sent to the client in between.           *)
(*                                                                         *)
(* The engine, its output collector and the parsers are not part of this   *)
(* repository; they are modelled from how the endpoints use them.          *)
(***************************************************************************)
EXTENDS Requests, ToolStream, FiniteSetsExt

CONSTANTS
    Inputs,        \* pairs [server, body] of a configuration and a request
    Texts(_),      \* the texts, as classes, a mode's lane may generate
    MaxModelLen,   \* tokens the model has room for beside the prompt
    PromptLen      \* tokens of a prompt

Modes == {"completion", "harmony", "named", "required", "auto", "reasoning", "plain"}

ASSUME ServingAssumption == MaxModelLen \in Nat \ {0} /\ PromptLen \in Nat

(* What an endpoint can be given, and what the model may answer: text, and *)
(* a constrained one where a tool is required, with a call to it.          *)
ASSUME InputAssumption ==
    \A x \in Inputs :
        /\ {"force_usage", "continuous", "reasoning"} \subseteq DOMAIN x.server
        /\ x.server.reasoning \in BOOLEAN
        /\ WellFormed(x.body)

ASSUME TextAssumption ==
    \A mode \in Modes : \A reasoning, off \in BOOLEAN :
        LET classes == Texts([mode |-> mode, reasoning |-> reasoning, off |-> off])
        IN  /\ classes \subseteq Seq(STRING)
            /\ mode = "required" =>
                  \A t \in classes :
                     LET start == IF reasoning /\ ~off THEN {k \in DOMAIN t : t[k] = "E"} ELSE {0}
                     IN  \E k \in DOMAIN t : t[k] = "p" /\ \E j \in start : j < k

VARIABLES
    phase,     \* where the request is
    server,    \* the endpoint's configuration
    req,       \* the body, as validated
    heap,      \* dictionaries by identity: 0 is the request's own vllm_xargs
    subs,      \* engine requests, one per prompt: [id, obj, params]
    saw,       \* extra_args as the engine read them, by engine request
    text,      \* what each lane will generate
    made,      \* tokens it has generated
    ended,     \* its finish reason, or ""
    pending,   \* its output that is not taken yet: {} or {[toks, fin]}
    res,       \* outputs of the result that are still to be worked through
    first,     \* first_iteration
    known,     \* prompts that num_prompt_tokens has been filled in for
    lane,      \* the generator's own lists, by lane
    parser,    \* the tool parser
    sent,      \* chunks sent
    usage,     \* final_usage_info reported, {} before
    merged,    \* lanes that had a delta of several tokens
    failed     \* an assertion of the endpoint failed

engineVars == <<text, made, ended, pending, merged>>
localVars == <<first, known, lane, parser>>
vars == <<phase, server, req, heap, subs, saw, engineVars, res, localVars, sent,
          usage, failed>>

-----------------------------------------------------------------------------
(* Lanes and modes.                                                        *)

(* Prompt embeddings are one prompt; they do not come beside others here.  *)
NumPrompts == IF req.prompts = {} THEN 1 ELSE CHOOSE k \in req.prompts : TRUE
Prompts == 0 .. NumPrompts - 1
Lanes == 0 .. req.n * NumPrompts - 1
PromptOf(i) == i \div req.n
LanesOf(p) == {i \in Lanes : PromptOf(i) = p}

(* The last message of the conversation, or the prompt, as echoed.         *)
Echoed(i) == <<[c |-> "P", k |-> 0, lane |-> PromptOf(i)]>>

ToolChoice == IF req.tool_choice = {} THEN "none" ELSE (CHOOSE c \in req.tool_choice : TRUE).tag

_should_stream_with_auto_tool_parsing ==
    UNION req.tools # {} /\ server.tool_parser /\ ToolChoice \in {"auto", "null"}

(* The branch of the generator that turns text into messages.              *)
Mode ==
    IF req.kind = "completion" THEN "completion"
    ELSE IF server.harmony THEN "harmony"
    ELSE IF ToolChoice \in {"named", "required"} THEN ToolChoice
    ELSE IF _should_stream_with_auto_tool_parsing THEN "auto"
    ELSE IF server.reasoning THEN "reasoning" ELSE "plain"

(* The prompt has already closed the reasoning.                            *)
prompt_is_reasoning_end == req.thinking_off

should_include_usage == server.force_usage \/ (req.stream_options /\ req.include_usage)

-----------------------------------------------------------------------------
(* Validation and scheduling.                                              *)

NewLane == [num |-> 0, sent |-> FALSE, tools |-> FALSE, named |-> FALSE,
            prev |-> <<>>, ids |-> <<>>, rend |-> FALSE, added |-> FALSE,
            echoed |-> FALSE, len |-> 0]

Init ==
    /\ \E input \in Inputs : server = input.server /\ req = input.body
    /\ phase = "raw"
    /\ heap = <<>> /\ subs = <<>> /\ saw = <<>>
    /\ text = <<>> /\ made = <<>> /\ ended = <<>> /\ pending = <<>> /\ merged = {}
    /\ res = {} /\ first = TRUE /\ known = {} /\ lane = <<>> /\ parser = NewParser
    /\ sent = <<>> /\ usage = {} /\ failed = FALSE

Validate ==
    /\ phase = "raw"
    /\ \/ /\ Validated(req) = {}
          /\ phase' = "refused"
          /\ UNCHANGED req
       \/ \E body \in Validated(req) :
            /\ req' = body
            /\ phase' = "admitted"
    /\ UNCHANGED <<server, heap, subs, saw, engineVars, res, localVars, sent, usage, failed>>

(* External get_max_tokens: what was asked for, within the model's room.   *)
get_max_tokens(asked) ==
    IF \E m \in asked : m < MaxModelLen THEN CHOOSE m \in asked : TRUE ELSE MaxModelLen

(* External: the renderer refuses a prompt that leaves too little room.    *)
render_chat_request ==
    LET output == CASE req.kind = "chat"       -> chat_tok_params(req)
                    [] req.kind = "completion" -> completion_tok_params(req)
                    [] req.kind = "responses"  -> responses_tok_params(req)
    IN  ~server.unknown_model /\ output <= MaxModelLen

SamplingParams ==
    LET asked == IF req.max_completion_tokens # {} THEN req.max_completion_tokens
                 ELSE req.max_tokens
    IN  CASE req.use_beam_search ->
               to_beam_search_params(req, get_max_tokens(asked), server.defaults)
          [] req.kind = "chat" /\ ~req.use_beam_search ->
               chat_sampling_params(req, get_max_tokens(asked), server.defaults)
          [] req.kind = "completion" /\ ~req.use_beam_search ->
               completion_sampling_params(req, get_max_tokens(req.max_tokens), server.defaults)
          [] req.kind = "responses" ->
               responses_sampling_params(req, MaxModelLen, server.defaults)

(* The engine request of a prompt: chat has one, under the request's own   *)
(* id; completion numbers them.                                            *)
SubId(p) == IF req.kind = "completion" THEN <<req.id, p>> ELSE <<req.id>>

(* Mutant: the ids are written into the dictionary that is there.          *)
InjectInPlace(objects, obj, p) ==
    IF req.use_beam_search \/ objects[obj].pow = {} \/ req.kind = "responses"
    THEN [objects |-> objects, obj |-> obj]
    ELSE [objects |-> [objects EXCEPT ![obj].completion_id = {<<req.id>>},
                          ![obj].request_item_id =
                              IF req.kind = "completion" THEN {SubId(p)} ELSE @],
          obj |-> obj]

(* A dictionary written under identity o. *)
Put(objects, o, args) ==
    [x \in {o} \cup DOMAIN objects |-> IF x = o THEN args ELSE objects[x]]

(* With a PoW payload the extra arguments are copied and given the ids     *)
(* that a proof is reported under.                                         *)
ChatIds(args) == [args EXCEPT !.completion_id = {<<req.id>>}]

CompletionIds(args, p) ==
    [args EXCEPT !.completion_id = {<<req.id>>}, !.request_item_id = {SubId(p)}]

InjectIds(objects, obj, p) ==
    IF req.use_beam_search \/ objects[obj].pow = {} \/ req.kind = "responses"
    THEN [objects |-> objects, obj |-> obj]
    ELSE [objects |-> Put(objects, p + 1, IF req.kind = "chat" THEN ChatIds(objects[obj])
                                          ELSE CompletionIds(objects[obj], p)),
          obj |-> p + 1]

(* One turn of the loop over the prompts.                                  *)
AddSub(acc, p) ==
    LET extra == ExtraArgs(req)
        own == IF req.kind = "responses" \/ ~extra.shared THEN p + 1 ELSE 0
        args == IF req.kind = "responses"
                THEN [_build_extra_args(req) EXCEPT !.kv = IF req.kv # {} THEN req.kv ELSE @]
                ELSE IF own \in DOMAIN acc.objects
                THEN [acc.objects[own] EXCEPT !.kv = extra.args.kv] ELSE extra.args
        with == InjectIds(Put(acc.objects, own, args), own, p)
    IN  [objects |-> with.objects,
         subs |-> Append(acc.subs, [id |-> SubId(p), obj |-> with.obj])]

(* The loop: the dictionaries and the engine requests of all prompts.      *)
Prepared ==
    LET after[k \in 0 .. NumPrompts] ==
            IF k = 0 THEN [objects |-> <<>>, subs |-> <<>>] ELSE AddSub(after[k - 1], k - 1)
    IN  after[NumPrompts]

(* Streams and beams do not go together, nor a text format and constraints.*)
CompletionRefused == req.kind = "completion" /\ req.stream /\ req.use_beam_search

Refused ==
    \/ ~render_chat_request
    \/ CompletionRefused
    \/ req.kind = "responses" /\ TextFormatRefused(req)
    \/ Cardinality(SamplingParams.structured) > 1

(* create_chat_completion, create_completion: refused when the model or    *)
(* the constraints do not fit, or the engine is dead.  The engine reads    *)
(* the parameters when the results are first asked for, after the loop.    *)
Create ==
    /\ phase = "admitted"
    /\ \/ /\ Refused
          /\ phase' = "refused"
          /\ UNCHANGED <<heap, subs, saw, engineVars, lane>>
       \/ /\ ~Refused
          /\ heap' = Prepared.objects
          /\ subs' = Prepared.subs
          /\ saw' = [k \in DOMAIN Prepared.subs |->
                       IF req.use_beam_search THEN NoArgs
                       ELSE Prepared.objects[Prepared.subs[k].obj]]
          /\ phase' = IF req.kind = "responses" THEN "handed"
                      ELSE IF req.stream THEN "streaming" ELSE "collecting"
          /\ \E choice \in [Lanes -> Texts([mode |-> Mode, reasoning |-> server.reasoning,
                                           off |-> req.thinking_off])] :
               text' = [i \in Lanes |->
                          [k \in DOMAIN choice[i] |-> [c |-> choice[i][k], k |-> k, lane |-> i]]]
          /\ made' = [i \in Lanes |-> 0]
          /\ ended' = [i \in Lanes |-> ""]
          /\ pending' = [i \in Lanes |-> {}]
          /\ lane' = [i \in Lanes |-> NewLane]
          /\ UNCHANGED merged
    /\ UNCHANGED <<server, req, res, first, known, parser, sent, usage, failed>>

-----------------------------------------------------------------------------
(* External: the engine.                                                   *)

Serving == phase \in {"streaming", "collecting"}

(* A token that is the last one carries the finish reason.                 *)
FinishAt(i, k) ==
    IF k = Len(text[i]) THEN "stop"
    ELSE IF k = SamplingParams.max_tokens THEN "length" ELSE ""

Deposit(i, toks, fin) ==
    LET old == IF pending[i] = {} THEN <<>> ELSE (CHOOSE o \in pending[i] : TRUE).toks
    IN  /\ pending' = [pending EXCEPT ![i] = {[toks |-> old \o toks, fin |-> fin]}]
        /\ merged' = IF Len(old \o toks) > 1 THEN merged \cup {i} ELSE merged

Generate(i) ==
    /\ Serving /\ ended[i] = "" /\ made[i] < Len(text[i])
    /\ Deposit(i, <<text[i][made[i] + 1]>>, FinishAt(i, made[i] + 1))
    /\ made' = [made EXCEPT ![i] = @ + 1]
    /\ ended' = [ended EXCEPT ![i] = FinishAt(i, made[i] + 1)]
    /\ UNCHANGED <<phase, server, req, heap, subs, saw, text, res, localVars, sent, usage,
                   failed>>

(* A result without tokens, while the prompt is still being read.          *)
Prefill(i) ==
    /\ phase = "streaming" /\ ended[i] = "" /\ made[i] = 0 /\ pending[i] = {} /\ first
    /\ Deposit(i, <<>>, "")
    /\ UNCHANGED <<phase, server, req, heap, subs, saw, text, made, ended, res, localVars,
                   sent, usage, failed>>

(* The engine gives up on a lane.                                          *)
Fail(i) ==
    /\ Serving /\ ended[i] = "" /\ server.faults
    /\ Deposit(i, <<>>, "error")
    /\ ended' = [ended EXCEPT ![i] = "error"]
    /\ UNCHANGED <<phase, server, req, heap, subs, saw, text, made, res, localVars, sent,
                   usage, failed>>

-----------------------------------------------------------------------------
(* The messages of the chat stream.                                        *)

(* A delta's message and what it leaves: the lane's lists, the parser and  *)
(* the texts kept for the next delta.                                      *)
Delta(msg, s, pz, prev, ids) ==
    [msg |-> msg, lane |-> [s EXCEPT !.prev = prev, !.ids = ids], parser |-> pz]

HideContent(msg) == {[m EXCEPT !.c = <<>>] : m \in msg}

ReasoningDelta(s, toks) ==
    Delta(IF prompt_is_reasoning_end THEN Message(<<>>, toks, <<>>)
          ELSE extract_reasoning_streaming(s.ids, toks),
          s, parser, s.prev \o toks, s.ids \o toks)

(* Reasoning, the end of which keeps the content back for the next delta.  *)
ReasoningFirst(s, toks) ==
    LET msg == extract_reasoning_streaming(s.ids, toks)
    IN  IF is_reasoning_end(toks)
        THEN Delta(HideContent(msg), [s EXCEPT !.rend = TRUE], parser,
                   extract_content_ids(toks), s.ids \o toks)
        ELSE Delta(msg, s, parser, s.prev \o toks, s.ids \o toks)

(* The call of a named tool is numbered as its choice is, from 0 in the    *)
(* code; here calls are numbered from 1.                                   *)
NamedDelta(i, s0, toks) ==
    LET s == [s0 EXCEPT !.rend = @ \/ (server.reasoning /\ prompt_is_reasoning_end)]
        kept == IF server.reasoning THEN s.prev \o toks ELSE toks
    IN  IF server.reasoning /\ ~s.rend /\ ~is_reasoning_end(s.ids)
        THEN ReasoningFirst(s, toks)
        ELSE Delta(Message(<<>>, <<>>, <<[idx |-> i + 1, name |-> ~s.named, args |-> kept]>>),
                   [s EXCEPT !.named = TRUE, !.tools = TRUE], parser,
                   IF server.reasoning THEN <<>> ELSE s.prev \o toks, s.ids \o toks)

RequiredDelta(s0, toks) ==
    LET s == [s0 EXCEPT !.rend = @ \/ (server.reasoning /\ prompt_is_reasoning_end)]
        got == extract_tool_call_required_streaming(s.prev, s.prev \o toks, toks, s.named)
    IN  IF server.reasoning /\ ~s.rend
        THEN ReasoningFirst(s, toks)
        ELSE Delta(got.msg,
                   [s EXCEPT !.named = got.named,
                             !.tools = @ \/ \E m \in got.msg : m.tools[1].name],
                   parser, s.prev \o toks, s.ids \o toks)

(* Tools are parsed once the reasoning is over, beginning with what the    *)
(* delta that ended it left over.                                          *)
AutoDelta(s0, toks) ==
    LET ends == ~prompt_is_reasoning_end /\ is_reasoning_end(toks)
        s == [s0 EXCEPT !.rend = @ \/ prompt_is_reasoning_end \/ ends]
        current == IF ends /\ ~s0.rend THEN extract_content_ids(toks) ELSE s0.prev \o toks
        ids == IF s0.rend \/ ~s.rend THEN s0.ids \o toks
               ELSE IF ends THEN extract_content_ids(toks) ELSE toks
        feed == IF ~server.reasoning \/ s.added THEN toks ELSE current
        got == extract_tool_calls_streaming(parser, feed, server.lag)
        called(m) == \E x \in m : x.tools # <<>>
    IN  IF ~server.reasoning
        THEN Delta(got.msg, [s0 EXCEPT !.tools = @ \/ called(got.msg)], got.parser,
                   s0.prev \o toks, s0.ids \o toks)
        ELSE IF ~s.rend
        THEN Delta(extract_reasoning_streaming(s0.ids, toks), s, parser, current, ids)
        ELSE Delta(got.msg, [s EXCEPT !.added = TRUE, !.tools = @ \/ called(got.msg)],
                   got.parser, current, ids)

(* External: the harmony parser keeps reasoning, answer and tools apart.   *)
HarmonyDelta(s, toks) ==
    LET r == IF is_reasoning_end(s.prev) THEN <<>> ELSE Words(Reasoning(toks))
        c == IF is_reasoning_end(s.prev) THEN Words(toks) ELSE Words(extract_content_ids(toks))
        tools == extract_tool_calls_streaming([calls |-> ParsedCalls(<<>>, s.prev),
                                               streamed |-> ParsedCalls(<<>>, s.prev)], toks, 0)
        calls == {m.tools : m \in tools.msg} \ {<<>>}
        shown == IF req.include_reasoning THEN r ELSE <<>>
    IN  Delta(IF shown = <<>> /\ c = <<>> /\ calls = {} THEN {}
              ELSE Message(shown, c, IF calls = {} THEN <<>> ELSE CHOOSE t \in calls : TRUE),
              [s EXCEPT !.tools = @ \/ calls # {}], parser, s.prev \o toks, s.ids \o toks)

ChatDelta(i, s, toks) ==
    CASE Mode = "harmony"   -> HarmonyDelta(s, toks)
      [] Mode = "named"     -> NamedDelta(i, s, toks)
      [] Mode = "required"  -> RequiredDelta(s, toks)
      [] Mode = "auto"      -> AutoDelta(s, toks)
      [] Mode = "reasoning" -> ReasoningDelta(s, toks)
      [] Mode = "plain"     -> Delta(Message(<<>>, toks, <<>>), s, parser,
                                     s.prev \o toks, s.ids \o toks)

(* External: only the first tool call, unless several are allowed.         *)
maybe_filter_parallel_tool_calls(tools) ==
    IF req.parallel_tool_calls \/ tools = <<>> THEN tools
    ELSE SelectSeq(tools, LAMBDA t : t.idx <= 1)

(* Mutant: only what the last delta brought.                               *)
LastDelta(m, pz) == m

(* At the finish of a lane that ends in a tool call, what the parser has   *)
(* parsed of the last call but not yet streamed goes out instead.          *)
Unstreamed(m, pz) ==
    LET index == Len(pz.calls)
        latest == Len(m.tools[1].args)
        actual == SubSeq(pz.streamed[index], 1, Len(pz.streamed[index]) - latest)
        expected == pz.calls[index]
        remaining == IF IsPrefix(actual, expected)
                     THEN SubSeq(expected, Len(actual) + 1, Len(expected)) ELSE expected
        named == \E k \in DOMAIN m.tools : m.tools[k].idx = index /\ m.tools[k].name
    IN  IF Mode = "auto" /\ m.tools # <<>> /\ pz.calls # <<>>
        THEN [r |-> <<>>, c |-> <<>>,
              tools |-> <<[idx |-> index, name |-> named, args |-> remaining]>>]
        ELSE m

FinishReason(s, pz, fin) ==
    IF (Mode = "auto" /\ pz.calls # <<>>) \/ (s.tools /\ Mode # "named")
    THEN "tool_calls" ELSE fin

-----------------------------------------------------------------------------
(* Chunks.                                                                 *)

Chunk(kind, i, m, fin, count) ==
    [kind |-> kind, i |-> i, m |-> m, fin |-> fin, logprobs |-> <<>>,
     usage |-> IF server.continuous /\ i >= 0
               THEN {[prompt |-> PromptLen, completion |-> count]} ELSE {}]

Empty == [r |-> <<>>, c |-> <<>>, tools |-> <<>>]

Done == Chunk("done", -1, Empty, "", 0)
Error == Chunk("error", -1, Empty, "", 0)

(* Mutant: the error chunk is the last one.                                *)
AbortWithoutDone ==
    /\ sent' = Append(sent, Error)
    /\ phase' = "broken"

(* Log-probabilities: an entry per token; those of a completion say where  *)
(* the token's text starts.  Texts differ in length.                       *)
TextLen(t) == 1 + (t.k % 2)
TextLength(toks) == FoldLeft(LAMBDA n, t : n + TextLen(t), 0, toks)

_create_chat_logprobs(toks) ==
    IF req.logprobs = {} \/ req.top_logprobs = {} THEN <<>>
    ELSE [k \in DOMAIN toks |-> [token |-> toks[k], offset |-> 0]]

_create_completion_logprobs(toks, initial_text_offset) ==
    IF req.logprobs = {} THEN <<>>
    ELSE [k \in DOMAIN toks |->
            [token |-> toks[k],
             offset |-> initial_text_offset + TextLength(SubSeq(toks, 1, k - 1))]]

(* The stream ends with an error chunk and [DONE].                         *)
Abort ==
    /\ sent' = sent \o <<Error, Done>>
    /\ phase' = "broken"

(* The role of every choice and, with echo, the last message.              *)
Opening ==
    LET choices == 1 .. req.n * NumPrompts
        roles == [k \in choices |-> Chunk("role", k - 1, Empty, "", 0)]
        echoes == [k \in choices |->
                     Chunk("delta", k - 1, [Empty EXCEPT !.c = Echoed(k - 1)], "", 0)]
    IN  IF req.echo THEN roles \o echoes ELSE roles

(* The next result: what is pending for one prompt.  The first one opens a *)
(* chat stream.  External: the results of a completion may tell the token  *)
(* ids of the prompt every time or only the first time.                    *)
TakeResult(p) ==
    LET there == {i \in LanesOf(p) : pending[i] # {}}
    IN  /\ phase = "streaming" /\ res = {} /\ there # {}
        /\ res' = UNION {{[i |-> i, toks |-> o.toks, fin |-> o.fin,
                            prompted |-> server.details = "every" \/ p \notin known] :
                              o \in pending[i]} : i \in there}
        /\ known' = known \cup {p}
        /\ pending' = [i \in Lanes |-> IF i \in there THEN {} ELSE pending[i]]
        /\ sent' = IF first /\ req.kind = "chat" THEN sent \o Opening ELSE sent
        /\ first' = FALSE
        /\ UNCHANGED <<phase, server, req, heap, subs, saw, text, made, ended, merged, lane,
                       parser, usage, failed>>

(* A result's outputs are worked through in the order of its choices.      *)
NextOutput == {o \in res : \A x \in res : o.i <= x.i}

(* The log-probabilities an output needs are not there: the engine was not *)
(* asked for them, and upstream's beam search does not add them by itself. *)
LogprobsMissing(echoing) ==
    LET p == SamplingParams
        unscored == p.logprobs = {} /\ ~(req.use_beam_search /\ server.beams_scored)
    IN  IF req.kind = "chat"
        THEN req.logprobs # {} /\ req.top_logprobs # {} /\ unscored
        ELSE /\ req.logprobs # {}
             /\ \/ (~echoing \/ req.max_tokens # {0}) /\ unscored
                \/ echoing /\ p.prompt_logprobs = {}

(* An output of the chat stream: dropped after the lane's finish, and as   *)
(* long as nothing has been generated; otherwise a chunk, unless the       *)
(* parsers have nothing to say yet.                                        *)
ChatOutput ==
    /\ phase = "streaming" /\ req.kind = "chat"
    /\ \E o \in NextOutput : \E d \in {ChatDelta(o.i, lane[o.i], o.toks)} :
         LET s == lane[o.i]
             told == [d.lane EXCEPT !.num = @ + Len(o.toks)]
             m == IF d.msg = {} THEN Empty ELSE CHOOSE x \in d.msg : TRUE
             out == IF o.fin = "" THEN m ELSE Unstreamed(m, d.parser)
             fin == IF o.fin = "" THEN "" ELSE FinishReason(told, d.parser, o.fin)
             unread == o.toks = <<>> /\ s.num = 0
         IN  /\ res' = res \ {o}
             /\ \/ /\ s.sent
                   /\ UNCHANGED <<phase, lane, parser, sent, failed>>
                \/ /\ ~s.sent /\ ~LogprobsMissing(FALSE) /\ unread
                   /\ UNCHANGED <<phase, lane, parser, sent, failed>>
                \/ /\ ~s.sent
                   /\ LogprobsMissing(FALSE) \/ (o.fin = "error" /\ ~unread)
                   /\ failed' = LogprobsMissing(FALSE)
                   /\ Abort
                   /\ UNCHANGED <<lane, parser>>
                \/ /\ ~s.sent /\ ~LogprobsMissing(FALSE) /\ ~unread /\ o.fin # "error"
                   /\ parser' = d.parser
                   /\ lane' = [lane EXCEPT ![o.i] = [told EXCEPT !.sent = o.fin # ""]]
                   /\ sent' = IF d.msg = {} /\ o.fin = "" /\ ~req.return_token_ids THEN sent
                              ELSE Append(sent,
                                     [Chunk("delta", o.i,
                                         [out EXCEPT !.tools = maybe_filter_parallel_tool_calls(@)],
                                         fin, told.num)
                                      EXCEPT !.logprobs = _create_chat_logprobs(o.toks)])
                   /\ UNCHANGED <<phase, failed>>
    /\ UNCHANGED <<server, req, heap, subs, saw, engineVars, first, known, usage>>

(* Embeddings have no text to echo; none is needed with the token ids.     *)
NoText == req.prompts = {} /\ ~req.return_token_ids

(* An output of the completion stream, the prompt before the first one     *)
(* with echo.                                                              *)
CompletionOutput ==
    /\ phase = "streaming" /\ req.kind = "completion"
    /\ \E o \in NextOutput :
         LET s == lane[o.i]
             echoing == req.echo /\ ~s.echoed
             shown == IF req.return_token_ids THEN <<>> ELSE Echoed(o.i)
             c == IF ~echoing THEN o.toks
                  ELSE IF req.max_tokens = {0} THEN shown ELSE shown \o o.toks
             skipped == ~echoing /\ o.toks = <<>> /\ s.num = 0
             told == [s EXCEPT !.num = @ + Len(o.toks), !.len = @ + TextLength(o.toks),
                               !.echoed = @ \/ req.echo \/ req.return_token_ids]
             scored == IF echoing
                       THEN Echoed(o.i) \o (IF req.max_tokens = {0} THEN <<>> ELSE o.toks)
                       ELSE o.toks
             fails == \/ req.max_tokens = {}
                      \/ echoing /\ (~o.prompted \/ NoText)
                      \/ ~skipped /\ LogprobsMissing(echoing)
         IN  /\ res' = res \ {o}
             /\ \/ /\ fails
                   /\ failed' = TRUE
                   /\ Abort
                   /\ UNCHANGED lane
                \/ /\ ~fails /\ skipped
                   /\ lane' = [lane EXCEPT ![o.i].echoed = told.echoed]
                   /\ UNCHANGED <<phase, sent, failed>>
                \/ /\ ~fails /\ ~skipped
                   /\ lane' = [lane EXCEPT ![o.i] = told]
                   /\ IF o.fin = "error" THEN Abort
                      ELSE /\ sent' = Append(sent,
                                 [Chunk("delta", o.i, [Empty EXCEPT !.c = c], o.fin, told.num)
                                  EXCEPT !.logprobs = _create_completion_logprobs(scored, s.len)])
                           /\ UNCHANGED phase
                   /\ UNCHANGED failed
    /\ UNCHANGED <<server, req, heap, subs, saw, engineVars, first, known, parser, usage>>

AllEnded == \A i \in Lanes : ended[i] # "" /\ pending[i] = {}

Total(counts) == MapThenSumSet(LAMBDA i : counts[i], DOMAIN counts)

UsageOf(counts) == [prompt |-> PromptLen * NumPrompts, completion |-> Total(counts)]

StreamUsage == UsageOf([i \in Lanes |-> lane[i].num])

(* The engine has no more results: the usage, if wanted, and [DONE].       *)
EndStream ==
    /\ phase = "streaming" /\ res = {} /\ AllEnded
    /\ usage' = {StreamUsage}
    /\ sent' = sent \o IF should_include_usage
                       THEN <<[Chunk("usage", -1, Empty, "", 0) EXCEPT !.usage = {StreamUsage}],
                              Done>>
                       ELSE <<Done>>
    /\ phase' = "closed"
    /\ UNCHANGED <<server, req, heap, subs, saw, engineVars, res, localVars, failed>>

-----------------------------------------------------------------------------
(* The answer in one piece.                                                *)

(* What parse_chat_output makes of a lane's tokens; the tools come from    *)
(* the tool parser, if there is one.                                       *)
HarmonyMessage(toks) ==
    [r |-> Words(Reasoning(toks)), c |-> Words(extract_content_ids(toks)),
     calls |-> IF server.tool_parser THEN ParsedCalls(<<>>, toks) ELSE <<>>]

(* The answer begins with reasoning, for the parser to split off.          *)
Thinks == Mode # "plain" /\ server.reasoning /\ ~req.thinking_off

(* Reasoning split off, then the tools the tool choice lets be taken from  *)
(* the content.                                                            *)
ChatMessage(toks) ==
    LET content == IF Thinks THEN extract_content_ids(toks) ELSE toks
    IN  [r |-> IF Thinks THEN Reasoning(toks) ELSE <<>>,
         c |-> CASE Mode \in {"named", "required"} -> <<>>
                 [] Mode = "auto" -> Words(content)
                 [] OTHER         -> content,
         calls |-> CASE Mode = "named"    -> <<content>>
                     [] Mode = "required" -> RequiredCalls(content)
                     [] Mode = "auto" /\ ToolChoice = "auto" -> ParsedCalls(<<>>, content)
                     [] OTHER             -> <<>>]

(* The text of a completion, after the prompt with echo.                   *)
request_output_to_completion_response(i, toks) ==
    [r |-> <<>>,
     c |-> (IF req.echo /\ ~req.return_token_ids THEN Echoed(i) ELSE <<>>) \o
           (IF req.echo /\ req.max_tokens = {0} THEN <<>> ELSE toks),
     calls |-> <<>>]

(* The echo and the filters that the messages of a chat go through; those  *)
(* of harmony do not get to the filter of parallel tool calls.             *)
FullMessage(i, toks) ==
    LET m == IF Mode = "harmony" THEN HarmonyMessage(toks) ELSE ChatMessage(toks)
    IN  IF Mode = "completion" THEN request_output_to_completion_response(i, toks)
        ELSE [r |-> IF req.include_reasoning THEN m.r ELSE <<>>,
              c |-> (IF req.echo THEN Echoed(i) ELSE <<>>) \o m.c,
              calls |-> IF Mode = "harmony" \/ req.parallel_tool_calls \/ m.calls = <<>>
                        THEN m.calls ELSE <<m.calls[1]>>]

FullFinish(i, m) ==
    IF \/ Mode \in {"auto", "harmony"} /\ m.calls # <<>>
       \/ Mode = "required" /\ ended[i] = "stop"
    THEN "tool_calls" ELSE ended[i]

Tokens(i) == SubSeq(text[i], 1, made[i])

FullLogprobs(i) ==
    IF req.kind = "chat" THEN _create_chat_logprobs(Tokens(i))
    ELSE _create_completion_logprobs(
             (IF req.echo THEN Echoed(i) ELSE <<>>) \o
             (IF req.echo /\ req.max_tokens = {0} THEN <<>> ELSE Tokens(i)), 0)

FullUsage == UsageOf([i \in Lanes |-> Len(Tokens(i))])

(* A named tool is not called when nothing follows the reasoning.          *)
Uncalled(i) == Mode = "named" /\ Thinks /\ extract_content_ids(Tokens(i)) = <<>>

(* What the answer in one piece asserts of the request and its result.     *)
AnswerFails ==
    \/ req.kind = "completion" /\ (req.max_tokens = {} \/ (req.echo /\ NoText))
    \/ LogprobsMissing(req.kind = "completion" /\ req.echo)
    \/ \E i \in Lanes : Uncalled(i)

(* The final results of all prompts are there.                             *)
Respond ==
    /\ phase = "collecting" /\ \A i \in Lanes : ended[i] # ""
    /\ \/ /\ \E i \in Lanes : ended[i] = "error"
          /\ phase' = "broken"
          /\ UNCHANGED <<sent, usage, failed>>
       \/ /\ \A i \in Lanes : ended[i] # "error"
          /\ AnswerFails
          /\ failed' = TRUE
          /\ phase' = "broken"
          /\ UNCHANGED <<sent, usage>>
       \/ /\ \A i \in Lanes : ended[i] # "error"
          /\ ~AnswerFails
          /\ usage' = {FullUsage}
          /\ sent' = [k \in 1 .. req.n * NumPrompts |->
                        LET m == FullMessage(k - 1, Tokens(k - 1))
                        IN  [kind |-> "choice", i |-> k - 1, m |-> m,
                             fin |-> FullFinish(k - 1, m), usage |-> {},
                             logprobs |-> FullLogprobs(k - 1)]]
          /\ phase' = "closed"
          /\ UNCHANGED failed
    /\ UNCHANGED <<server, req, heap, subs, saw, engineVars, res, localVars>>

-----------------------------------------------------------------------------
(* The engine's generator raises: an error chunk and [DONE], or an error   *)
(* response.                                                               *)
EngineDies ==
    /\ Serving /\ server.faults /\ res = {}
    /\ IF phase = "streaming" THEN Abort ELSE phase' = "broken" /\ UNCHANGED sent
    /\ UNCHANGED <<server, req, heap, subs, saw, engineVars, res, localVars, usage, failed>>

(* The client goes away: the generator is closed where it stands.          *)
Disconnect ==
    /\ Serving /\ server.faults
    /\ phase' = "gone"
    /\ UNCHANGED <<server, req, heap, subs, saw, engineVars, res, localVars, sent, usage, failed>>

Next ==
    \/ Validate
    \/ Create
    \/ Serving /\ \E i \in Lanes : Generate(i) \/ Prefill(i) \/ Fail(i)
    \/ Serving /\ \E p \in Prompts : TakeResult(p)
    \/ ChatOutput
    \/ CompletionOutput
    \/ EndStream
    \/ Respond
    \/ EngineDies
    \/ Disconnect

Spec == Init /\ [][Next]_vars

-----------------------------------------------------------------------------
(* Properties.                                                             *)

Shown(i) == SelectSeq(sent, LAMBDA x : x.i = i /\ x.kind = "delta")

(* The chunks of a lane put together, as a client does.                    *)
Assembled(i) ==
    LET chunks == Shown(i)
        Joined(Part(_)) == FlattenSeq([k \in DOMAIN chunks |-> Part(chunks[k].m)])
        Pieces == Joined(LAMBDA m : m.tools)
        order == SetToSortSeq({Pieces[k].idx : k \in DOMAIN Pieces}, <)
        ArgsOf(idx) == LET own == SelectSeq(Pieces, LAMBDA t : t.idx = idx)
                       IN  FlattenSeq([k \in DOMAIN own |-> own[k].args])
    IN  [r |-> Joined(LAMBDA m : m.r), c |-> Joined(LAMBDA m : m.c),
         calls |-> [k \in DOMAIN order |-> ArgsOf(order[k])],
         logprobs |-> FlattenSeq([k \in DOMAIN chunks |-> chunks[k].logprobs])]

(* Where a stream is known to fall short of the full answer: tools parsed  *)
(* from deltas of several tokens, one tool parser for several choices, a   *)
(* tool choice given as null, an echo without generation in two parts, and *)
(* parallel tool calls off: the stream keeps the call numbered 0, which of *)
(* a named tool is only that of the first choice, and the full answer of   *)
(* harmony keeps them all.  There is no full answer without the call of a  *)
(* named tool.                                                             *)
FallsShort(i) ==
    \/ Mode \in {"named", "required", "auto"} /\ i \in merged
    \/ Mode = "auto" /\ (req.n > 1 \/ ToolChoice = "null")
    \/ Mode = "harmony" /\ (~server.tool_parser \/ ~req.parallel_tool_calls)
    \/ Mode = "named" /\ i > 0 /\ ~req.parallel_tool_calls
    \/ Uncalled(i)
    \/ Mode = "required" /\ ended[i] # "stop"
    \/ Mode = "completion" /\ req.max_tokens = {0} /\ Len(Shown(i)) > 1

(* Streaming loses, repeats and misplaces nothing: the reasoning, content  *)
(* and tool arguments of the chunks of a choice, put together, are those   *)
(* of the message chat_completion_full_generator or                        *)
(* request_output_to_completion_response makes of the same tokens, however *)
(* the engine's outputs were merged and interleaved over the choices.  So  *)
(* are the log-probabilities, when every delta makes a chunk; after an     *)
(* echo the text offsets of a stream do not count the prompt.              *)
StreamMatchesFull ==
    phase = "closed" /\ req.stream =>
        \A i \in Lanes : ended[i] # "error" /\ ~FallsShort(i) =>
            LET f == FullMessage(i, Tokens(i))
                a == Assembled(i)
            IN  /\ a.c = f.c /\ a.calls = f.calls
                /\ req.include_reasoning => a.r = f.r
                /\ Mode = "plain" \/ (Mode = "completion" /\ ~req.echo) =>
                      a.logprobs = FullLogprobs(i)

(* A choice is finished once and nothing of it is sent afterwards; [DONE]  *)
(* is the last thing sent, on every way out; a stream that ends well has   *)
(* finished every choice, except one the engine gave up before its first   *)
(* token: that output is taken for an empty chunk of the prefill and       *)
(* dropped with its error.                                                 *)
FinishOnce ==
    /\ \A k \in DOMAIN sent : sent[k].fin # "" =>
          \A j \in (k + 1) .. Len(sent) : sent[j].i # sent[k].i
    /\ \A k \in DOMAIN sent : sent[k].kind = "done" => k = Len(sent)
    /\ req.stream /\ phase \in {"closed", "broken"} => Last(sent).kind = "done"
    /\ phase = "closed" /\ req.stream =>
          \A i \in Lanes : \/ \E k \in DOMAIN sent : sent[k].i = i /\ sent[k].fin # ""
                           \/ ended[i] = "error" /\ made[i] = 0

(* The usage reported is what was generated, streamed or not, and the      *)
(* running usage of a choice never goes back and ends at its total.        *)
UsageAddsUp ==
    /\ \A u \in usage : u = FullUsage
    /\ \A k \in DOMAIN sent : \A u \in sent[k].usage :
          /\ sent[k].fin # "" => u.completion = made[sent[k].i]
          /\ \A j \in 1 .. k - 1 : \A v \in sent[j].usage :
                sent[j].i = sent[k].i => v.completion <= u.completion

(* The choices that share a lane's tool parser: tool_parsers is one parser *)
(* repeated, so all of them.                                               *)
Sharers(i) == IF Mode = "auto" THEN Lanes ELSE {i}

(* A choice finishes with "tool_calls" only if a tool call was answered,   *)
(* auto, required or harmony, by it or by a choice its parser is shared    *)
(* with, and with "stop" only if none was; a named tool finishes as the    *)
(* engine did, and so does what ran into its limit in a full answer, with  *)
(* or without calls.  (With parallel tool calls off, the call may have     *)
(* been filtered out.)                                                     *)
ToolFinish ==
    \A k \in DOMAIN sent :
        LET x == sent[k]
            called == IF x.kind = "choice" THEN x.m.calls # <<>>
                      ELSE \E j \in 1 .. k : /\ sent[j].kind = "delta"
                                             /\ sent[j].i \in Sharers(x.i)
                                             /\ sent[j].m.tools # <<>>
        IN  /\ x.fin = "tool_calls" => (called \/ ~req.parallel_tool_calls) /\ Mode # "named"
            /\ x.fin = "stop" => ~called \/ Mode = "named"

(* A proof found for a request can be traced to it: the engine request of  *)
(* every prompt carries the client's PoW payload, the id of the response   *)
(* and its own id, although the parameters of all prompts come from one    *)
(* dictionary and are read after all of them were prepared; a request      *)
(* without a payload keeps what it came with, and the body's dictionary    *)
(* gains no ids at all.  A response is given no ids, and a beam search has *)
(* no extra arguments: neither can be traced this way.                     *)
IdsAreOwn ==
    LET Under(key, s) == UNION {x[key] : x \in s}
        Came(key) == IF req.kind = "responses" /\ Under(key, req.extra_sampling_params) # {}
                     THEN Under(key, req.extra_sampling_params) ELSE Under(key, req.vllm_xargs)
        unpaid == Came("pow") = {}
    IN  /\ \A k \in DOMAIN saw : ~req.use_beam_search =>
             /\ saw[k].pow = Came("pow")
             /\ saw[k].completion_id = IF unpaid \/ req.kind = "responses"
                                       THEN Came("completion_id") ELSE {<<req.id>>}
             /\ saw[k].request_item_id = IF unpaid \/ req.kind # "completion"
                                         THEN Came("request_item_id") ELSE {subs[k].id}
             /\ saw[k].kv = IF req.kv # {} THEN req.kv ELSE Came("kv")
        /\ 0 \in DOMAIN heap => heap[0].completion_id = Came("completion_id")

(* What the validators let through can be answered: none of the assertions *)
(* of the two endpoints on what the engine and the parsers gave fails for  *)
(* an admitted request, except that                                        *)
(*   - a completion's max_tokens may be null,                              *)
(*   - the parameters of a beam search cannot ask for log-probabilities,   *)
(*   - embeddings have no text to echo,                                    *)
(*   - a choice of a stream is echoed from its own first output, which may *)
(*     come after the one result that told the prompt, and                 *)
(*   - a named tool is not called by an answer that is all reasoning.      *)
AdmittedServable ==
    failed => \/ req.kind = "completion" /\ req.max_tokens = {}
              \/ req.use_beam_search /\ req.logprobs # {}
              \/ req.kind = "completion" /\ req.echo /\ NoText
              \/ req.kind = "completion" /\ req.echo /\ req.stream /\ req.n > 1
                    /\ server.details # "every"
              \/ ~req.stream /\ \E i \in Lanes : Uncalled(i)

(* A client is told the same about the same tokens, streamed or not: text, *)
(* calls and log-probabilities.                                            *)
AnswersAgree == StreamMatchesFull

(* Every choice of a stream finishes once, last, for the right reason, and *)
(* what it is said to have cost is what was generated.                     *)
FinishesRight == FinishOnce /\ ToolFinish /\ UsageAddsUp
=============================================================================
