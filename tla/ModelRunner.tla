----------------------------- MODULE ModelRunner ----------------------------
(***************************************************************************)
(* The worker of one pipeline rank (gpu_model_runner.py) over its          *)
(* persistent batch, driven by the engine's scheduler.  The worker is one  *)
(* thread: execute_model() brings the batch up to date, gathers the input  *)
(* ids and runs the model; sample_tokens() samples and books the result.   *)
(* With asynchronous scheduling the next step is scheduled and fed before  *)
(* the sampled ids of the last one have reached the host: placeholders     *)
(* stand for them, and the ids go from the last step to the next one on    *)
(* the device.  On a rank that is not the last of a pipeline the ids come  *)
(* from the scheduler or, asynchronously, from the last rank.              *)
(*                                                                         *)
(* The scheduler is not part of this repository; it is modelled from what  *)
(* the worker reads of its output.  A token is named by the request, its   *)
(* incarnation (an id can be aborted and submitted again) and its place,   *)
(* so that a token that turns up anywhere it does not belong is seen.      *)
(***************************************************************************)
EXTENDS InputBatch

CONSTANTS
    Reqs,         \* request ids
    Order,        \* the order in which the scheduler lists them, a sequence
    Prompt,       \* [Reqs -> length of the prompt]
    Kind,         \* [Reqs -> set of the sampling features the request uses]
    Modes,        \* ways to run a worker: [async, last, threshold]
    MaxOut,       \* [Reqs -> most tokens generated for the request]
    Chunk,        \* most tokens of a request scheduled in one step
    MaxGen,       \* [Reqs -> most incarnations of the id]
    MaxEvents     \* most steps that are out of the ordinary

ASSUME ModelRunnerAssumption ==
    /\ Range(Order) = Reqs /\ Len(Order) = Cardinality(Reqs)
    /\ Prompt \in [Reqs -> 1 .. MaxLen]
    /\ \A r \in Reqs : Prompt[r] + 2 * MaxOut[r] <= MaxLen
    /\ Chunk \in Nat \ {0}

VARIABLES
    mode,         \* the worker's configuration, fixed
    sched,        \* the scheduler's view of every request
    finished,     \* finished_req_ids of the next step
    events,       \* rare scheduler decisions so far
    requests,     \* the worker's cached request states
    wanted,       \* num_prompt_logprobs: requests still owed their prompt's scores
    batch,        \* the persistent batch
    meta,         \* batch.sampling_metadata
    gpu,          \* input_ids on the device
    fed,          \* what the step's forward pass reads: [of, at, token]
    step,         \* the step between execute_model and sample_tokens, or None
    discard,      \* discard_request_mask: rows whose sample is ignored
    prevSampled,  \* prev_sampled_token_ids, by row, or None
    sampledCpu,   \* sampled_token_ids_cpu kept for the repair, or None
    seen,         \* what the sampler was given, by request, until the next step
    flight        \* outputs the scheduler has not taken yet, oldest first

vars == <<mode, sched, finished, events, requests, wanted, batch, meta, gpu, fed, step,
          discard, prevSampled, sampledCpu, seen, flight>>

schedVars == <<sched, finished, events>>
workVars == <<requests, wanted, batch, meta, gpu, fed, step, discard, prevSampled,
              sampledCpu, seen>>

-----------------------------------------------------------------------------
Tag(r, g) == [req |-> r, gen |-> g]
Token(t, p) == [of |-> t, at |-> p]
TagOf(r) == Tag(r, sched[r].gen)
Text(t, len) == [p \in 1 .. len |-> Token(t, p)]

MaxTokens == MaxReqs * MaxLen

Idle(g) == [st |-> "absent", gen |-> g, np |-> 0, known |-> 0, ahead |-> 0, nc |-> 0,
            left |-> FALSE, unknown |-> FALSE]

Init ==
    /\ mode \in Modes
    /\ sched = [r \in Reqs |-> Idle(0)]
    /\ finished = {}
    /\ events = 0
    /\ requests = EmptyDict
    /\ wanted = {}
    /\ batch = EmptyBatch
    /\ meta = MakeMetadata(EmptyBatch)
    /\ gpu = [k \in 1 .. MaxTokens |-> None]
    /\ fed = {}
    /\ step = None
    /\ discard = {}
    /\ prevSampled = None
    /\ sampledCpu = None
    /\ seen = EmptyDict
    /\ flight = <<>>

-----------------------------------------------------------------------------
(* The scheduler.                                                          *)

(* Tokens a request has, counting those sampled but not yet known.         *)
Total(s) == s.np + s.known + s.ahead

(* An id is used again only right after its request has ended, which is    *)
(* when the two meet in one step.                                          *)
Arrive(r) ==
    /\ step = None
    /\ sched[r].gen > 0 => r \in finished
    /\ sched[r].st = "absent" /\ sched[r].gen < MaxGen[r]
    /\ sched' = [sched EXCEPT ![r] =
                    [Idle(@.gen + 1) EXCEPT !.st = "waiting", !.np = Prompt[r]]]
    /\ UNCHANGED <<mode, finished, events, workVars, flight>>

(* Outputs still under way for a request that is gone are not delivered.   *)
Forget(S, q) == [k \in DOMAIN q |-> Without(q[k], S)]

Abort(r) ==
    /\ step = None
    /\ sched[r].st # "absent" /\ events < MaxEvents
    /\ events' = events + 1
    /\ sched' = [sched EXCEPT ![r] = Idle(@.gen)]
    /\ finished' = finished \cup {r}
    /\ flight' = Forget({r}, flight)
    /\ UNCHANGED <<mode, workVars>>

(* A streaming session goes on: the text so far and one more token are the *)
(* prompt of the next turn, submitted as a new request under the same id.  *)
Continue(r) ==
    /\ step = None
    /\ sched[r].st = "running" /\ sched[r].ahead = 0 /\ sched[r].known > 0
    /\ sched[r].np = Prompt[r] /\ events < MaxEvents
    /\ events' = events + 1
    /\ sched' = [sched EXCEPT ![r] =
                    [@ EXCEPT !.st = "waiting", !.np = @ + sched[r].known + 1,
                              !.known = 0, !.nc = 0]]
    /\ UNCHANGED <<mode, finished, workVars, flight>>

(* update_from_output: the oldest output is taken (AsyncGPUModelRunner-    *)
(* Output.get_output); a request may stop at its token, and then nothing   *)
(* still under way for it is delivered.                                    *)
TakeOutput(stops) ==
    /\ step = None /\ flight # <<>>
    /\ stops \subseteq DOMAIN Head(flight)
    /\ LET full == {r \in DOMAIN Head(flight) : sched[r].known + 1 = MaxOut[r]}
       IN  /\ full \subseteq stops
           /\ stops # full => events < MaxEvents
           /\ events' = IF stops = full THEN events ELSE events + 1
    /\ sched' = [r \in Reqs |->
            IF r \in stops THEN Idle(sched[r].gen)
            ELSE IF r \in DOMAIN Head(flight)
            THEN [sched[r] EXCEPT !.known = @ + 1, !.ahead = @ - 1]
            ELSE sched[r]]
    /\ finished' = finished \cup stops
    /\ flight' = Forget(stops, Tail(flight))
    /\ UNCHANGED <<mode, workVars>>

-----------------------------------------------------------------------------
(* What one step asks for.  work: tokens to compute, by request; resumed:  *)
(* requests that start over, from a preemption in an earlier step or a     *)
(* forced one in this step; paused: running requests preempted now; cut:   *)
(* requests whose last token is lost with their cache (a failed KV load).  *)

Ready(s) == /\ s.st # "absent"
            /\ Total(s) > s.nc
            /\ s.st = "preempted" => s.ahead = 0

Start(r, resumed, cut) == IF r \in resumed \cup cut THEN 0 ELSE sched[r].nc

Owned(r, resumed, cut) ==
    CASE r \in cut -> Total(sched[r]) - 1
      [] r \in resumed -> sched[r].np + sched[r].known
      [] OTHER -> Total(sched[r])

Plan(work, resumed, paused, cut) ==
    [on |-> DOMAIN work,
     new |-> {r \in DOMAIN work : sched[r].st = "waiting"},
     resumed |-> resumed,
     paused |-> paused,
     cut |-> cut,
     size |-> work,
     start |-> [r \in DOMAIN work |-> Start(r, resumed, cut)],  \* num_computed_tokens
     owned |-> [r \in DOMAIN work |-> Owned(r, resumed, cut)],
     samples |-> {r \in DOMAIN work :
                    Start(r, resumed, cut) + work[r] = Owned(r, resumed, cut)}]

Legal(p) ==
    /\ Cardinality(p.on) <= MaxReqs
    /\ p.on # {} \/ finished # {} \/ p.paused # {}
    /\ \A r \in p.on :
          /\ p.start[r] + p.size[r] <= p.owned[r]
          /\ r \in p.samples => p.owned[r] - sched[r].np < MaxOut[r]
    /\ \A r \in p.cut :
          sched[r].known > 0 /\ r \notin p.resumed /\ ~mode.async /\ mode.last

(* What happens to a running request besides being scheduled on.           *)
Rare(p) ==
    p.paused \cup p.cut
    \cup {r \in p.resumed : sched[r].st = "running"}
    \cup {r \in Reqs \ p.on : sched[r].st = "running"
                             /\ Total(sched[r]) - sched[r].np < MaxOut[r]}

(* The scheduler counts the step's tokens as computed, and the token it    *)
(* samples as ahead of what it knows.  Two histories: left, the request    *)
(* was left out of a step inside its prompt; unknown, it was forced to     *)
(* start over while its first token was under way.                         *)
Scheduled(p) ==
    [r \in Reqs |->
        IF r \in p.paused THEN [sched[r] EXCEPT !.st = "preempted", !.nc = 0]
        ELSE IF r \notin p.on
        THEN [sched[r] EXCEPT !.left = @ \/ (sched[r].st = "running" /\ sched[r].nc < sched[r].np)]
        ELSE [sched[r] EXCEPT
                !.st = "running",
                !.left = @ /\ p.start[r] > 0,
                !.unknown = @ \/ (r \in p.resumed /\ sched[r].st = "running" /\ sched[r].known = 0
                                /\ sched[r].ahead > 0),
                !.nc = p.start[r] + p.size[r],
                !.known = IF r \in p.cut THEN @ - 1 ELSE @,
                !.ahead = (IF r \in p.resumed THEN 0 ELSE @)
                          + (IF r \in p.samples THEN 1 ELSE 0)]]

Listed(S) == SelectSeq(Order, LAMBDA r : r \in S)

-----------------------------------------------------------------------------
(* The worker: _update_states.  The pair [reqs, b] is the cached states and *)
(* the batch while the update runs over them.                               *)

NewState(r, p) ==
    [id |-> r, tag |-> TagOf(r), prompt |-> Text(TagOf(r), sched[r].np), out |-> <<>>,
     nc |-> p.start[r], seeded |-> "seed" \in Kind[r], allows |-> "allowed" \in Kind[r],
     penal |-> "penalty" \in Kind[r], pow |-> "pow" \in Kind[r]]

(* Finished requests leave the cache and the batch; requests that are not  *)
(* scheduled, or start over, leave the batch only.                         *)
RemoveGone(p) ==
    LET b == RemoveAll(batch, finished)
    IN  [reqs |-> Without(requests, finished),
         b |-> RemoveAll(b, DOMAIN b.index \ (p.on \ p.resumed))]

(* A new id, or a streaming session's next turn under an id the worker     *)
(* knows: _update_streaming_request takes it out of the batch first.       *)
AddNew(w, r, p) ==
    [reqs |-> (r :> NewState(r, p)) @@ w.reqs,
     b |-> IF r \in DOMAIN w.reqs THEN remove_request(w.b, r) ELSE w.b]

(* The requests whose prompt is to be scored, a streaming session only in  *)
(* its first turn.                                                         *)
Wanted(p) ==
    (wanted \ finished) \cup
    {r \in p.new : "scores" \in Kind[r] /\ r \notin DOMAIN Without(requests, finished)}

NumOutput(r, p) == p.owned[r] - sched[r].np               \* num_output_tokens

(* The tokens a synchronous scheduler sends to a rank that is not the last *)
(* one: those of the places it schedules.                                  *)
NewTokenIds(r, p) ==
    IF mode.async THEN <<>>
    ELSE SubSeq(Text(TagOf(r), p.owned[r]), p.start[r] + 1, p.start[r] + p.size[r])

(* The cached output ids of a request the worker knows.                    *)
CachedOut(q, r, p, known) ==
    LET new == NewTokenIds(r, p)
        fresh == p.start[r] + Len(new) - Len(q.prompt \o q.out)    \* num_new_tokens
        brought == IF ~mode.last
                   THEN IF new # <<>> /\ fresh > 0
                        THEN q.out \o SubSeq(new, Len(new) - fresh + 1, Len(new))
                        ELSE q.out
                   ELSE SubSeq(q.out, 1, Min({NumOutput(r, p), Len(q.out)}))
    IN  IF ~known /\ mode.async /\ NumOutput(r, p) > 0
        THEN SubSeq(Text(TagOf(r), sched[r].np + sched[r].known),
                    sched[r].np + 1, p.owned[r])            \* all_token_ids
        ELSE brought

(* One turn of the loop over scheduled_cached_reqs.                        *)
UpdateCached(w, r, p) ==
    LET q == w.reqs[r]
        known == r \in DOMAIN w.b.index
        i == w.b.index[r]
        new == NewTokenIds(r, p)
        shrunk == IF known /\ mode.last /\ NumOutput(r, p) < Len(q.out)
                  THEN [w.b EXCEPT !.n[i] = w.b.np[i] + NumOutput(r, p)] ELSE w.b
        row == [shrunk EXCEPT !.nc[i] = p.start[r]]
    IN  [reqs |-> [w.reqs EXCEPT ![r] = [q EXCEPT !.nc = p.start[r],
                                                  !.out = CachedOut(q, r, p, known)]],
         b |-> CASE ~known -> w.b
                 [] known /\ mode.last -> row
                 [] OTHER -> [row EXCEPT
                        !.tok[i] = [k \in 1 .. MaxLen |->
                            IF k \in p.start[r] + 1 .. p.start[r] + Len(new)
                            THEN new[k - p.start[r]] ELSE @[k]],
                        !.n[i] = p.start[r] + Len(new)]]

(* The whole of _update_states: new requests, cached ones, additions in    *)
(* the order of reqs_to_add, then condense and reorder.                    *)
UpdateStates(p) ==
    LET w1 == FoldLeft(LAMBDA w, r : AddNew(w, r, p), RemoveGone(p), Listed(p.new))
        w2 == FoldLeft(LAMBDA w, r : UpdateCached(w, r, p), w1, Listed(p.on \ p.new))
        adds == Listed(p.new) \o Listed((p.on \ p.new) \ DOMAIN w2.b.index)
        b == FoldLeft(LAMBDA acc, r : add_request(acc, w2.reqs[r]), w2.b, adds)
    IN  [reqs |-> w2.reqs,
         b |-> IF mode.threshold = None THEN condense(b)
               ELSE reorder_batch(condense(b), p.size, mode.threshold)]

-----------------------------------------------------------------------------
(* _prepare_inputs and _prepare_input_ids.                                 *)

(* cu_num_tokens: where the tokens of row i end in the flattened input.    *)
Cumsum(b, p) ==
    [i \in 0 .. NumReqs(b) |-> FoldFunction(+, 0, [k \in 1 .. i |-> p.size[b.ids[k]]])]

(* The flattened host input ids: every row's tokens at its own places.     *)
CpuIds(b, cu) ==
    [k \in 1 .. cu[NumReqs(b)] |->
        LET i == Min({j \in 1 .. NumReqs(b) : k <= cu[j]})
        IN  b.tok[i][b.nc[i] + k - cu[i - 1]]]

(* _compute_prev_positions: the rows that were sampled in the last step.   *)
Common(b) == {i \in 1 .. NumReqs(b) : b.ids[i] \in DOMAIN b.prev}

(* The ids the model reads: uploaded from the host unless every token is a *)
(* sample of the last step, and those overwritten on the device, by one    *)
(* slice when the rows have not moved and by a scatter otherwise.          *)
InputIds(b, cu, old, sampled) ==
    LET cpu == CpuIds(b, cu)
        common == Common(b)
        base == IF sampled = None \/ Cardinality(common) < Len(cpu)
                THEN [k \in DOMAIN old |-> IF k <= Len(cpu) THEN cpu[k] ELSE old[k]]
                ELSE old
        same == \A i \in common : b.prev[b.ids[i]] = cu[i] /\ cu[i] <= Cardinality(common)
    IN  IF sampled = None THEN base
        ELSE IF same
        THEN [k \in DOMAIN base |->
                IF k <= Cardinality(common) THEN sampled[k] ELSE base[k]]
        ELSE [k \in DOMAIN base |->
                IF \E i \in common : cu[i] = k
                THEN sampled[b.prev[b.ids[CHOOSE i \in common : cu[i] = k]]]
                ELSE base[k]]

(* The rows of the pass, place by place, with the token each one is given. *)
Fed(b, reqs, cu, ids) ==
    {LET i == Min({j \in 1 .. NumReqs(b) : k <= cu[j]})
     IN  [of |-> reqs[b.ids[i]].tag, at |-> b.nc[i] + k - cu[i - 1], token |-> ids[k]] :
        k \in 1 .. cu[NumReqs(b)]}

(* Changed for a check: only the prompt counts as the text.                *)
PartialPrompt(b, reqs, p) ==
    {i \in 1 .. NumReqs(b) : b.nc[i] + p.size[b.ids[i]] < b.np[i]}

(* discard_request_mask: rows that do not reach the end of their text.     *)
Partial(b, reqs, p) ==
    {i \in 1 .. NumReqs(b) :
        b.nc[i] + p.size[b.ids[i]] < Len(reqs[b.ids[i]].prompt \o reqs[b.ids[i]].out)}

(* execute_model: refused while a step waits for sample_tokens().  A step  *)
(* without tokens updates the states and answers at once.                  *)
ExecuteModel(p) ==
    /\ step = None
    /\ Len(flight) < IF mode.async THEN 2 ELSE 1
    /\ Rare(p) # {} => events < MaxEvents
    /\ Legal(p)
    /\ events' = IF Rare(p) = {} THEN events ELSE events + 1
    /\ sched' = Scheduled(p)
    /\ finished' = {}
    /\ LET w == UpdateStates(p)
       IN  /\ requests' = w.reqs
           /\ wanted' = Wanted(p)
           /\ batch' = Reported(w.b)
           /\ meta' = refresh_metadata(w.b, meta)
           /\ IF p.on = {}
              THEN /\ flight' = Append(flight, EmptyDict)
                   /\ UNCHANGED <<gpu, fed, step, discard>>
              ELSE /\ gpu' = InputIds(w.b, Cumsum(w.b, p), gpu, prevSampled)
                   /\ fed' = Fed(w.b, w.reqs, Cumsum(w.b, p), gpu')
                   /\ discard' = Partial(w.b, w.reqs, p)
                   /\ step' = p
                   /\ flight' = Forget(p.resumed, flight)
    /\ seen' = EmptyDict
    /\ UNCHANGED <<mode, prevSampled, sampledCpu>>

-----------------------------------------------------------------------------
(* sample_tokens.                                                          *)

(* The id the model's logits of row i lead to: the request's next token,   *)
(* or, for a row that stops inside its text, an id that means nothing.     *)
SampledIds(b, p) ==
    [i \in 1 .. NumReqs(b) |->
        LET r == b.ids[i]
        IN  Token(requests[r].tag,
                  IF r \in p.samples THEN p.owned[r] + 1 ELSE 0)]

(* Changed for a check: the arrived ids are read by the row of this step.  *)
RepairedByRow(q) ==
    LET holes == {k \in DOMAIN q.out : q.out[k] = Placeholder}
        at == batch.index[q.id]
    IN  IF /\ sampledCpu # None /\ meta.outputs
           /\ q.id \in DOMAIN batch.index /\ q.id \in DOMAIN batch.prev
           /\ q.out # <<>> /\ Last(q.out) = Placeholder /\ at \in DOMAIN sampledCpu
        THEN Append(SubSeq(q.out, 1, Min(holes) - 1), sampledCpu[at])
        ELSE q.out

(* update_async_output_token_ids: the first placeholder of a row that was  *)
(* sampled in the last step becomes the id that has arrived meanwhile, and *)
(* the placeholders behind it go.                                          *)
RepairedOut(q) ==
    LET holes == {k \in DOMAIN q.out : q.out[k] = Placeholder}
    IN  IF /\ sampledCpu # None /\ meta.outputs
           /\ q.id \in DOMAIN batch.index /\ q.id \in DOMAIN batch.prev
           /\ q.out # <<>> /\ Last(q.out) = Placeholder
        THEN Append(SubSeq(q.out, 1, Min(holes) - 1), sampledCpu[batch.prev[q.id]])
        ELSE q.out

Repaired == [r \in DOMAIN requests |-> [requests[r] EXCEPT !.out = RepairedOut(requests[r])]]

(* Changed for a check: a chunk is stored one place too far.               *)
ChunkShifted(r, p) ==
    LET q == requests[r]
        num_remaining == Len(q.prompt) - (q.nc + 1)
    IN  {[at |-> k + 1, score |-> Token(q.tag, k + 1)] :
            k \in q.nc + 1 .. q.nc + Min({p.size[r], num_remaining})}

(* The scores of one step: the hidden state of a place scores the token at *)
(* the next one, up to the end of the prompt.                              *)
PromptChunk(r, p) ==
    LET q == requests[r]
        num_remaining == Len(q.prompt) - (q.nc + 1)
    IN  {[at |-> k, score |-> Token(q.tag, k + 1)] :
            k \in q.nc + 1 .. q.nc + Min({p.size[r], num_remaining})}

(* _get_prompt_logprobs_dict: the chunks of a prompt are gathered over the *)
(* steps and handed out with the step that leaves the prompt.              *)
Gathered(r, p) == (IF r \in DOMAIN batch.scores THEN batch.scores[r] ELSE {}) \cup PromptChunk(r, p)

LeavesPrompt(r, p) == p.size[r] > Len(requests[r].prompt) - (requests[r].nc + 1)

GatheredScores(p) ==
    LET open == {r \in wanted \cap p.on : ~LeavesPrompt(r, p)}
    IN  [r \in open |-> Gathered(r, p)]
        @@ Without(batch.scores, wanted \cap p.on)

(* What the sampler is given for a row of the step, and the prompt's       *)
(* scores that go out with it.                                             *)
SamplerView(reqs, p, r) ==
    LET i == batch.index[r]
    IN  [scores |-> IF r \in wanted /\ LeavesPrompt(r, p) THEN {Gathered(r, p)} ELSE {},
         left |-> sched[r].left, unmasked |-> r \in batch.unmasked,
         tag |-> reqs[r].tag, np |-> sched[r].np, owned |-> p.owned[r], out |-> reqs[r].out,
         par |-> meta.par[i], mask |-> meta.mask[i], prompt |-> meta.prompts[i],
         extra |-> meta.extra[i],
         gen |-> IF i \in DOMAIN batch.gen THEN batch.gen[i] ELSE None]

(* _bookkeeping_sync: a row that is not discarded gets one more token, the *)
(* sampled id or, asynchronously, a placeholder for it.                    *)
Kept == {i \in 1 .. NumReqs(batch) : i \notin discard}

Written(ids, i) == IF mode.async THEN Placeholder ELSE ids[i]

BookedBatch(ids) ==
    [batch EXCEPT
        !.tok = [i \in Rows |->
            IF i \in Kept THEN [batch.tok[i] EXCEPT ![batch.n[i] + 1] = Written(ids, i)]
            ELSE batch.tok[i]],
        !.n = [i \in Rows |-> IF i \in Kept THEN batch.n[i] + 1 ELSE batch.n[i]],
        !.prev = IF mode.async
                 THEN [r \in {batch.ids[i] : i \in Kept} |-> batch.index[r]] ELSE @]

BookedRequests(reqs, ids) ==
    [r \in DOMAIN reqs |->
        IF \E i \in Kept : batch.ids[i] = r
        THEN [reqs[r] EXCEPT !.out = Append(@, Written(ids, batch.index[r]))]
        ELSE reqs[r]]

(* The output: the ids of the rows that are not discarded, under the       *)
(* request ids copied when the step was booked.                            *)
Output(ids) == [r \in {batch.ids[i] : i \in Kept} |-> ids[batch.index[r]]]

SampleTokens ==
    /\ step # None /\ mode.last
    /\ LET ids == SampledIds(batch, step)
       IN  /\ seen' = [r \in step.on |-> SamplerView(Repaired, step, r)]
           /\ requests' = BookedRequests(Repaired, ids)
           /\ batch' = [BookedBatch(ids) EXCEPT !.scores = GatheredScores(step)]
           /\ wanted' = {r \in wanted : r \in step.on => ~LeavesPrompt(r, step)}
           /\ prevSampled' = IF mode.async THEN ids ELSE None
           /\ sampledCpu' = IF mode.async /\ meta.outputs THEN ids ELSE None
           /\ flight' = Append(flight, Output(ids))
    /\ step' = None /\ fed' = {} /\ discard' = {}
    /\ UNCHANGED <<mode, schedVars, meta, gpu>>

(* On any other rank the last rank's ids arrive by broadcast, when the     *)
(* scheduling is asynchronous; the output is the last rank's.              *)
PpReceive ==
    /\ step # None /\ ~mode.last
    /\ LET ids == SampledIds(batch, step)
           kept == {batch.ids[i] : i \in Kept}
       IN  /\ IF mode.async
              THEN /\ prevSampled' = ids
                   /\ batch' = [batch EXCEPT !.prev = [r \in kept |-> batch.index[r]]]
                   /\ requests' = [r \in DOMAIN requests |->
                        IF r \in kept
                        THEN [requests[r] EXCEPT !.out = Append(@, Placeholder)]
                        ELSE requests[r]]
              ELSE UNCHANGED <<prevSampled, batch, requests>>
           /\ flight' = Append(flight, [r \in step.samples |-> ids[batch.index[r]]])
    /\ step' = None /\ fed' = {} /\ discard' = {}
    /\ UNCHANGED <<mode, schedVars, wanted, meta, gpu, sampledCpu, seen>>

-----------------------------------------------------------------------------
Running == {r \in Reqs : sched[r].st = "running"}

Step ==
    \E on \in SUBSET {r \in Reqs : Ready(sched[r])} :
        \E forced \in SUBSET (on \cap Running), cut \in SUBSET (on \cap Running),
           paused \in SUBSET (Running \ on) :
            LET resumed == forced \cup {r \in on : sched[r].st = "preempted"}
            IN  \E work \in [on -> 1 .. Chunk] :
                    ExecuteModel(Plan(work, resumed, paused, cut))

Next ==
    \/ \E r \in Reqs : Arrive(r)
    \/ \E r \in Reqs : Abort(r)
    \/ \E r \in Reqs : Continue(r)
    \/ \E stops \in SUBSET Reqs : TakeOutput(stops)
    \/ Step
    \/ SampleTokens
    \/ PpReceive

Spec == Init /\ [][Next]_vars

-----------------------------------------------------------------------------
(* On an earlier rank with asynchronous scheduling the batch does not keep *)
(* the text of two kinds of requests: one whose row moved while its text   *)
(* was computed chunk by chunk (the active length is then what is computed *)
(* so far, and no more is moved), and one that was forced to start over    *)
(* while its first token was under way (its placeholder is dropped only    *)
(* when num_output_tokens is positive, and the id -1 is fed afterwards).   *)
Misfed(r) == mode.async /\ ~mode.last /\ (r \in batch.torn \/ sched[r].unknown)

(* After any sequence of additions, removals, moves and swaps the batch is *)
(* dense, its index is the inverse of its list of ids, and every row holds *)
(* the counters, the parameters and the generator of its own request, and  *)
(* its tokens unless the request is one of the two kinds above.            *)
RowIsOwn(i) ==
    LET r == batch.ids[i]
        q == requests[r]
        ahead == IF mode.async THEN {Placeholder} ELSE {}
    IN  /\ r \in DOMAIN batch.index /\ batch.index[r] = i
        /\ r \in DOMAIN requests
        /\ batch.par[i] = q.tag
        /\ batch.np[i] = Len(q.prompt)
        /\ batch.nc[i] = q.nc
        /\ batch.n[i] <= MaxLen
        /\ \A p \in 1 .. batch.n[i] :
              \/ batch.tok[i][p] = Token(q.tag, p)
              \/ p > batch.np[i] /\ batch.tok[i][p] \in ahead
              \/ Misfed(r)
        /\ (i \in DOMAIN batch.gen) <=> q.seeded
        /\ q.seeded => batch.gen[i] = q.tag

RowsAreOwn ==
    /\ Len(batch.ids) = NumReqs(batch)
    /\ \A i \in 1 .. Len(batch.ids) : RowIsOwn(i)

(* Every id the model reads is the token of the request of that row at     *)
(* that place, whether it came from the host, from the scheduler, from the *)
(* last step on the device or from the last rank; with the same exception. *)
InputsAreOwn == \A x \in fed : x.token = Token(x.of, x.at) \/ Misfed(x.of.req)

(* The scheduler is handed the tokens of each request in order and without *)
(* a gap: a row inside its prompt yields nothing, and a row at its end     *)
(* yields the next token of its own request, however the rows have moved   *)
(* by the time the output is read.                                         *)
OutputsAreText ==
    \A r \in Reqs :
        LET mine == {k \in DOMAIN flight : r \in DOMAIN flight[k]}
            waits == IF step # None /\ r \in step.samples THEN 1 ELSE 0
        IN  /\ sched[r].ahead = Cardinality(mine) + waits
            /\ \A k \in mine :
                  flight[k][r] = Token(TagOf(r), sched[r].np + sched[r].known
                                                 + Cardinality({j \in mine : j <= k}))

(* The sampler works on the row's own request: its parameters and its      *)
(* generator, its prompt and its proof-of-work arguments when it mines,    *)
(* and, when it has penalties, all of its output with no placeholder left  *)
(* in it; and its token mask when it has one, as long as no swap has given *)
(* its row the mask of another (swap_states).                              *)
SamplerSeesOwn ==
    \A r \in DOMAIN seen :
        LET v == seen[r]
        IN  /\ v.par = v.tag
            /\ "seed" \in Kind[r] => v.gen = v.tag
            /\ "allowed" \in Kind[r] /\ ~v.unmasked => v.mask = v.tag
            /\ "pow" \in Kind[r] => /\ v.prompt = Text(v.tag, v.np)
                                    /\ v.extra = [req_id |-> r, pow |-> v.tag]
            /\ "penalty" \in Kind[r] =>
                    v.out = SubSeq(Text(v.tag, v.owned), v.np + 1, v.owned)

(* The scores of a prompt go out complete, each place with the score of    *)
(* its own request's next token, however the prompt was cut into chunks,   *)
(* restarted or moved between rows.  (A request that is left out of a step *)
(* in the middle of its prompt loses the chunks gathered before with its   *)
(* row, and what goes out in their place was never written.)               *)
PromptScoresWhole ==
    \A r \in DOMAIN seen : \A s \in seen[r].scores :
        LET v == seen[r]
            whole == {[at |-> k, score |-> Token(v.tag, k + 1)] : k \in 1 .. v.np - 1}
        IN  IF v.left THEN s \subseteq whole ELSE s = whole

(* Whatever came, went and moved, the batch describes its own requests and *)
(* the model reads their tokens.                                           *)
BatchIsOwn == RowsAreOwn /\ InputsAreOwn
=============================================================================
