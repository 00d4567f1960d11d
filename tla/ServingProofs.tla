--------------------------- MODULE ServingProofs ---------------------------
(***************************************************************************)
(* A request through the endpoints, proved for every request, any number   *)
(* of prompts and choices and whatever text is generated.                  *)
(*                                                                         *)
(* IdsOwn follows the loop over the prompts: after each turn the           *)
(* dictionaries are those of the prompts so far (Closed), so none of them  *)
(* is written for a second prompt.  RequestsServable rests on what the     *)
(* sampling parameters ask of the engine.  StreamsFinish needs FinishInv:  *)
(* the output of a choice is in one of three places, worked through, left  *)
(* of the result that was taken, or pending with the engine (CountOK); a   *)
(* choice is over when it has ended and nothing of it is left, and only    *)
(* then has a chunk finished it (LaneOK, ChunkOK); and a tool call is      *)
(* known to the parser or the lane exactly when a chunk has told it        *)
(* (ToolOK).                                                               *)
(***************************************************************************)
EXTENDS Serving, FiniteSetTheorems, SequenceTheorems, WellFoundedInduction, TLAPS

(* A set of numbers that is not empty has a least one. *)
LEMMA LeastExists ==
    ASSUME NEW V, V /= {}, V \subseteq Nat
    PROVE  \E s \in V : \A t \in V : s <= t
<1>1. \E s \in V : \A t \in V : ~ (<<t, s>> \in OpToRel(<, Nat))
  BY NatLessThanWellFounded, WFMin
<1>2. PICK s \in V : \A t \in V : ~ (<<t, s>> \in OpToRel(<, Nat))
  BY <1>1
<1>3. \A t \in V : ~ (t < s)
  BY <1>2 DEF OpToRel
<1> QED BY <1>3

(* A set of numbers with 0 and every successor is all of them. *)
LEMMA Induction ==
    ASSUME NEW V, 0 \in V, \A n \in Nat : n \in V => n + 1 \in V
    PROVE  Nat \subseteq V
<1> SUFFICES ASSUME ~(Nat \subseteq V) PROVE FALSE
  OBVIOUS
<1>1. PICK s \in Nat \ V : \A t \in Nat \ V : s <= t
  <2>1. Nat \ V /= {} /\ Nat \ V \subseteq Nat
    OBVIOUS
  <2> QED BY <2>1, LeastExists
<1>2. s /= 0 /\ s - 1 \in Nat
  BY <1>1
<1>3. s - 1 \in V
  BY <1>1, <1>2
<1>4. (s - 1) + 1 \in V
  BY <1>2, <1>3
<1> QED BY <1>1, <1>2, <1>4

StepsIn(F, S) == \A n \in Nat : \A s \in S : F[n][s] \in S

Iterates(g, a, F) == g[0] = a /\ \A n \in Nat : g[n + 1] = F[n][g[n]]

(* A value of a set, stepped again and again inside of the set, runs       *)
(* through a sequence of its own.                                          *)
LEMMA IterationExists ==
    ASSUME NEW S, NEW a \in S, NEW F, StepsIn(F, S)
    PROVE  \E g \in [Nat -> S] : Iterates(g, a, F)
<1> USE DEF StepsIn, Iterates
<1> DEFINE Run(n, h) == /\ h \in [0 .. n -> S] /\ h[0] = a
                        /\ \A k \in 0 .. n - 1 : h[k + 1] = F[k][h[k]]
           V == {n \in Nat : \E h \in [0 .. n -> S] : Run(n, h)}
<1>1. 0 \in V
  <2>1. [k \in 0 .. 0 |-> a] \in [0 .. 0 -> S] /\ Run(0, [k \in 0 .. 0 |-> a])
    OBVIOUS
  <2> QED BY <2>1
<1>2. ASSUME NEW n \in Nat, n \in V
      PROVE  n + 1 \in V
  <2>1. PICK h \in [0 .. n -> S] : Run(n, h)
    BY <1>2
  <2> DEFINE e == [k \in 0 .. n + 1 |-> IF k = n + 1 THEN F[n][h[n]] ELSE h[k]]
  <2>2. h[n] \in S /\ F[n][h[n]] \in S
    OBVIOUS
  <2>3. e \in [0 .. n + 1 -> S]
    BY <2>2
  <2>4. e[0] = a
    BY <2>1
  <2>5. \A k \in 0 .. (n + 1) - 1 : e[k + 1] = F[k][e[k]]
    <3> TAKE k \in 0 .. (n + 1) - 1
    <3>1. CASE k = n
      <4>1. n \in 0 .. n + 1 /\ n /= n + 1 /\ n + 1 \in 0 .. n + 1
        OBVIOUS
      <4>2. e[n] = h[n] /\ e[n + 1] = F[n][h[n]]
        BY <4>1
      <4> HIDE DEF e
      <4> QED BY <3>1, <4>2
    <3>2. CASE k /= n
      <4>1. k \in 0 .. n - 1 /\ k + 1 \in 0 .. n + 1 /\ k + 1 /= n + 1 /\ k \in 0 .. n + 1
              /\ k /= n + 1
        BY <3>2
      <4>2. e[k + 1] = h[k + 1] /\ e[k] = h[k]
        BY <4>1
      <4>3. h[k + 1] = F[k][h[k]]
        BY <2>1, <4>1
      <4> QED BY <4>2, <4>3
    <3> QED BY <3>1, <3>2
  <2>6. Run(n + 1, e)
    BY <2>3, <2>4, <2>5
  <2> HIDE DEF e, Run
  <2> QED BY <2>3, <2>6
<1>3. \A n \in Nat : n \in V
  <2> HIDE DEF V
  <2>1. \A n \in Nat : n \in V => n + 1 \in V
    BY <1>2
  <2> QED BY <1>1, <2>1, Induction
<1>4. ASSUME NEW n \in Nat, NEW m \in Nat, n <= m, NEW h, NEW e, Run(n, h), Run(m, e)
      PROVE  \A k \in 0 .. n : h[k] = e[k]
  <2> DEFINE W == {k \in Nat : k <= n => h[k] = e[k]}
  <2>1. 0 \in W
    BY <1>4
  <2>2. ASSUME NEW k \in Nat, k \in W
        PROVE  k + 1 \in W
    <3>1. CASE k + 1 <= n
      <4>1. h[k] = e[k] /\ k \in 0 .. n - 1 /\ k \in 0 .. m - 1
        BY <2>2, <3>1, <1>4
      <4>2. h[k + 1] = F[k][h[k]] /\ e[k + 1] = F[k][e[k]]
        BY <4>1, <1>4
      <4> QED BY <4>1, <4>2
    <3>2. CASE ~(k + 1 <= n)
      BY <3>2
    <3> QED BY <3>1, <3>2
  <2>3. Nat \subseteq W
    <3> HIDE DEF W
    <3>1. \A k \in Nat : k \in W => k + 1 \in W
      BY <2>2
    <3> QED BY <2>1, <3>1, Induction
  <2> QED BY <2>3
<1> DEFINE run == [n \in Nat |-> CHOOSE h : Run(n, h)]
           g == [n \in Nat |-> run[n][n]]
<1>5. ASSUME NEW n \in Nat
      PROVE  Run(n, run[n])
  <2>1. \E h : Run(n, h)
    BY <1>3
  <2> HIDE DEF Run
  <2> QED BY <2>1
<1>6. g \in [Nat -> S]
  <2>1. ASSUME NEW n \in Nat
        PROVE  run[n][n] \in S
    <3>1. Run(n, run[n])
      BY <1>5
    <3> HIDE DEF run
    <3> QED BY <3>1
  <2> HIDE DEF run
  <2> QED BY <2>1
<1>7. g[0] = a
  <2>1. Run(0, run[0])
    BY <1>5
  <2> HIDE DEF run
  <2> QED BY <2>1
<1>8. ASSUME NEW n \in Nat
      PROVE  g[n + 1] = F[n][g[n]]
  <2>1. Run(n, run[n]) /\ Run(n + 1, run[n + 1])
    <3>1. n + 1 \in Nat
      OBVIOUS
    <3> HIDE DEF run, Run
    <3> QED BY <1>5, <3>1
  <2>2. run[n][n] = run[n + 1][n]
    <3> HIDE DEF run, Run
    <3>1. \A k \in 0 .. n : run[n][k] = run[n + 1][k]
      BY <1>4, <2>1
    <3> QED BY <3>1
  <2>3. run[n + 1][n + 1] = F[n][run[n + 1][n]]
    <3> HIDE DEF run
    <3> QED BY <2>1
  <2> HIDE DEF run
  <2> QED BY <2>2, <2>3
<1> HIDE DEF g
<1> QED BY <1>6, <1>7, <1>8

-----------------------------------------------------------------------------
(* Bodies. *)

LEMMA BodyFields ==
    {"kind", "id", "stream", "echo", "use_beam_search", "parallel_tool_calls", "thinking_off",
     "return_token_ids", "n", "prompts", "vllm_xargs", "extra_sampling_params", "kv", "logprobs",
     "top_logprobs", "prompt_logprobs", "max_tokens", "tools", "tool_choice", "include_reasoning"}
        \subseteq DOMAIN ChatDefaults
<1>1. DOMAIN ChatDefaults = {"kind"} \cup DOMAIN [Common EXCEPT !.top_logprobs = {0}]
  BY DEF ChatDefaults, WithKind
<1>2. DOMAIN [Common EXCEPT !.top_logprobs = {0}] = DOMAIN Common
  OBVIOUS
<1>3. {"id", "stream", "echo", "use_beam_search", "parallel_tool_calls", "thinking_off",
       "return_token_ids", "n", "prompts", "vllm_xargs", "extra_sampling_params", "kv", "logprobs",
       "top_logprobs", "prompt_logprobs", "max_tokens", "tools", "tool_choice",
       "include_reasoning"} \subseteq DOMAIN Common
  BY DEF Common
<1> QED BY <1>1, <1>2, <1>3

Rewritten == {"tools", "tool_choice", "include_reasoning"}

(* The validators rewrite the tools and the reasoning switch, nothing else. *)
LEMMA ValidatedKeeps ==
    ASSUME NEW d, WellFormed(d), NEW b \in Validated(d)
    PROVE  DOMAIN b = DOMAIN d /\ \A f \in DOMAIN d \ Rewritten : b[f] = d[f]
<1> DEFINE Keeps(x) == DOMAIN x = DOMAIN d /\ \A f \in DOMAIN d \ Rewritten : x[f] = d[f]
<1>1. Rewritten \subseteq DOMAIN d
  BY BodyFields DEF WellFormed, Rewritten
<1>2. CASE d.kind = "chat"
  <2>1. b \in ChatRequest(d)
    BY <1>2 DEF Validated
  <2>2. PICK e \in check_tool_usage(d) : b = set_include_reasoning_for_none_effort(e)
    BY <2>1 DEF ChatRequest
  <2>3. Keeps(e)
    BY <1>1, <2>2 DEF check_tool_usage, Rewritten
  <2>4. b = [e EXCEPT !.include_reasoning = b.include_reasoning]
    BY <1>1, <2>2, <2>3 DEF set_include_reasoning_for_none_effort, Rewritten
  <2> QED BY <1>1, <2>3, <2>4 DEF Rewritten
<1>3. CASE d.kind = "completion"
  BY <1>3 DEF Validated, CompletionRequest
<1>4. CASE d.kind = "responses"
  BY <1>4 DEF Validated, ResponsesRequest
<1> QED BY <1>2, <1>3, <1>4 DEF WellFormed

LEMMA ValidatedWellFormed ==
    ASSUME NEW d, WellFormed(d), NEW b \in Validated(d)
    PROVE  WellFormed(b)
<1>1. DOMAIN b = DOMAIN d /\ \A f \in DOMAIN d \ Rewritten : b[f] = d[f]
  BY ValidatedKeeps
<1>2. \A f \in {"kind", "stream", "echo", "use_beam_search", "parallel_tool_calls",
                "thinking_off", "return_token_ids", "n", "prompts", "vllm_xargs",
                "extra_sampling_params"} : b[f] = d[f]
  BY <1>1, BodyFields DEF WellFormed, Rewritten
<1> QED BY <1>1, <1>2 DEF WellFormed


-----------------------------------------------------------------------------
(* The loop over the prompts in closed form.  The dictionary every turn    *)
(* starts from, whether it is the body's own, whether ids are added to a   *)
(* copy of it, and what dictionary o holds in the end.                     *)

Given ==
    IF req.kind = "responses"
    THEN [_build_extra_args(req) EXCEPT !.kv = IF req.kv # {} THEN req.kv ELSE @]
    ELSE ExtraArgs(req).args

Sharing == req.kind # "responses" /\ ExtraArgs(req).shared

Tagged == ~(req.use_beam_search \/ Given.pow = {} \/ req.kind = "responses")

Ids(p) == IF req.kind = "chat" THEN ChatIds(Given) ELSE CompletionIds(Given, p)

Dict(o) == IF o = 0 \/ ~Tagged THEN Given ELSE Ids(o - 1)

Dicts(k) ==
    IF k = 0 THEN {} ELSE IF ~Sharing THEN 1 .. k ELSE IF Tagged THEN 0 .. k ELSE {0}

DictOf(j) == IF Sharing /\ ~Tagged THEN 0 ELSE j

Closed(k) ==
    [objects |-> [o \in Dicts(k) |-> Dict(o)],
     subs |-> [j \in 1 .. k |-> [id |-> SubId(j - 1), obj |-> DictOf(j)]]]

Keys == {"pow", "completion_id", "request_item_id", "kv"}

LEMMA NoArgsFields == DOMAIN NoArgs = Keys /\ \A f \in Keys : NoArgs[f] = {}
BY DEF NoArgs, Keys

(* What a body's dictionary holds, none standing for an empty one. *)
Under(key, s) == UNION {x[key] : x \in s}

LEMMA UnderOne ==
    ASSUME NEW s, Optional(s), \A x \in s : DOMAIN x = DOMAIN NoArgs, NEW key \in Keys
    PROVE  /\ s = {} => Under(key, s) = {}
           /\ \A x \in s : Under(key, s) = x[key]
<1>1. s = {} => Under(key, s) = {}
  BY DEF Under
<1>2. ASSUME NEW x \in s PROVE Under(key, s) = x[key]
  <2>1. \A y \in s : y = x
    BY DEF Optional
  <2>2. {y[key] : y \in s} = {x[key]}
    BY <2>1
  <2> QED BY <2>2 DEF Under
<1> QED BY <1>1, <1>2

(* The dictionary that is handed on holds what the body's did. *)
LEMMA GivenHolds ==
    ASSUME WellFormed(req)
    PROVE  LET Came(key) ==
                 IF req.kind = "responses" /\ Under(key, req.extra_sampling_params) # {}
                 THEN Under(key, req.extra_sampling_params) ELSE Under(key, req.vllm_xargs)
           IN  /\ Given = [f \in Keys |-> Given[f]]
               /\ \A key \in Keys \ {"kv"} : Given[key] = Came(key)
               /\ Given.kv = IF req.kv # {} THEN req.kv ELSE Came("kv")
<1> DEFINE X == req.vllm_xargs
           E == req.extra_sampling_params
           Came(key) == IF req.kind = "responses" /\ Under(key, E) # {}
                        THEN Under(key, E) ELSE Under(key, X)
<1>1. /\ Optional(X) /\ \A x \in X : DOMAIN x = DOMAIN NoArgs
      /\ Optional(E) /\ \A x \in E : DOMAIN x = DOMAIN NoArgs
  BY DEF WellFormed
<1>2. \A key \in Keys : /\ X = {} => Under(key, X) = {}
                        /\ \A x \in X : Under(key, X) = x[key]
                        /\ E = {} => Under(key, E) = {}
                        /\ \A x \in E : Under(key, E) = x[key]
  BY <1>1, UnderOne
<1>3. CASE req.kind = "responses"
  <2> DEFINE Or(s) == IF s = {} THEN NoArgs ELSE CHOOSE x \in s : TRUE
             both == Updated(Or(X), Or(E))
  <2>1. \A key \in Keys : Or(X)[key] = Under(key, X) /\ Or(E)[key] = Under(key, E)
    BY <1>2, NoArgsFields
  <2>2. DOMAIN Or(X) = Keys
    BY <1>1, NoArgsFields
  <2>3. both = [key \in Keys |-> IF Or(E)[key] # {} THEN Or(E)[key] ELSE Or(X)[key]]
    BY <2>2 DEF Updated
  <2>4. both = [key \in Keys |-> IF Under(key, E) # {} THEN Under(key, E) ELSE Under(key, X)]
    <3> HIDE DEF Or, both
    <3> QED BY <2>1, <2>3
  <2>5. both = _build_extra_args(req)
    BY DEF _build_extra_args
  <2>6. Given = [both EXCEPT !.kv = IF req.kv # {} THEN req.kv ELSE @]
    BY <1>3, <2>5 DEF Given
  <2> HIDE DEF both
  <2>7. Given = [f \in Keys |-> Given[f]]
    BY <2>4, <2>6
  <2>8. \A key \in Keys \ {"kv"} : Given[key] = Came(key)
    BY <1>3, <2>4, <2>6
  <2>9. Given.kv = IF req.kv # {} THEN req.kv ELSE Came("kv")
    BY <1>3, <2>4, <2>6 DEF Keys
  <2> QED BY <2>7, <2>8, <2>9
<1>4. CASE req.kind # "responses"
  <2> DEFINE given == UNION {{x} : x \in X \ {NoArgs}}
             own == IF given = {} THEN NoArgs ELSE CHOOSE x \in given : TRUE
  <2>1. given = X \ {NoArgs}
    OBVIOUS
  <2>2. DOMAIN own = Keys /\ \A key \in Keys : own[key] = Under(key, X)
    <3>1. CASE given = {}
      <4>1. own = NoArgs
        BY <3>1
      <4>2. X = {} \/ NoArgs \in X
        BY <2>1, <3>1
      <4> QED BY <1>2, <4>1, <4>2, NoArgsFields
    <3>2. CASE given # {}
      <4>1. own \in X
        BY <2>1, <3>2
      <4> QED BY <1>1, <1>2, <4>1, NoArgsFields
    <3> QED BY <3>1, <3>2
  <2>3. Given = [own EXCEPT !.kv = IF req.kv # {} THEN req.kv ELSE @]
    BY <1>4 DEF Given, ExtraArgs
  <2> HIDE DEF own
  <2>4. Given = [f \in Keys |-> Given[f]]
    BY <2>2, <2>3
  <2>5. \A key \in Keys \ {"kv"} : Given[key] = Came(key)
    BY <1>4, <2>2, <2>3
  <2>6. Given.kv = IF req.kv # {} THEN req.kv ELSE Came("kv")
    BY <1>4, <2>2, <2>3 DEF Keys
  <2> QED BY <2>4, <2>5, <2>6
<1> QED BY <1>3, <1>4

(* Ids are added only where the body's own dictionary is shared. *)
LEMMA TaggedShares ==
    ASSUME WellFormed(req), Tagged
    PROVE  Sharing
<1>1. req.kind # "responses" /\ Given.pow # {}
  BY DEF Tagged
<1>2. Given.pow = Under("pow", req.vllm_xargs)
  <2>1. "pow" \in Keys \ {"kv"}
    BY DEF Keys
  <2> QED BY <1>1, <2>1, GivenHolds
<1>3. PICK x \in req.vllm_xargs : x["pow"] # {}
  BY <1>1, <1>2 DEF Under
<1>4. x # NoArgs
  BY <1>3, NoArgsFields DEF Keys
<1>5. ExtraArgs(req).shared
  <2>1. x \in UNION {{y} : y \in req.vllm_xargs \ {NoArgs}}
    BY <1>4
  <2> QED BY <2>1 DEF ExtraArgs
<1> QED BY <1>1, <1>5 DEF Sharing

(* One turn of the loop. *)
LEMMA ClosedStep ==
    ASSUME WellFormed(req), NEW p \in Nat
    PROVE  AddSub(Closed(p), p) = Closed(p + 1)
<1> DEFINE extra == ExtraArgs(req)
           own == IF req.kind = "responses" \/ ~extra.shared THEN p + 1 ELSE 0
           objs == Closed(p).objects
           args == IF req.kind = "responses"
                   THEN [_build_extra_args(req) EXCEPT !.kv = IF req.kv # {} THEN req.kv ELSE @]
                   ELSE IF own \in DOMAIN objs
                   THEN [objs[own] EXCEPT !.kv = extra.args.kv] ELSE extra.args
           new == Put(objs, own, args)
           with == InjectIds(new, own, p)
<1>1. AddSub(Closed(p), p) =
         [objects |-> with.objects,
          subs |-> Append(Closed(p).subs, [id |-> SubId(p), obj |-> with.obj])]
  BY DEF AddSub
<1>2. own = IF Sharing THEN 0 ELSE p + 1
  BY DEF Sharing
<1>3. objs = [o \in Dicts(p) |-> Dict(o)] /\ DOMAIN objs = Dicts(p)
  BY DEF Closed
<1>4. own \in Dicts(p) <=> Sharing /\ p # 0
  BY <1>2 DEF Dicts
<1>5. args = Given
  <2>1. CASE req.kind = "responses"
    BY <2>1 DEF Given
  <2>2. CASE req.kind # "responses" /\ own \in Dicts(p)
    <3>1. own = 0 /\ objs[own] = Given
      BY <1>2, <1>3, <1>4, <2>2 DEF Dict
    <3>2. extra.args = Given
      BY <2>2 DEF Given
    <3>3. args = [Given EXCEPT !.kv = Given.kv]
      <4>1. args = [objs[own] EXCEPT !.kv = extra.args.kv]
        BY <1>3, <2>2
      <4> HIDE DEF args, objs, own, extra
      <4> QED BY <3>1, <3>2, <4>1
    <3>4. Given = [f \in Keys |-> Given[f]]
      BY GivenHolds
    <3> HIDE DEF args
    <3> QED BY <3>3, <3>4
  <2>3. CASE req.kind # "responses" /\ own \notin Dicts(p)
    BY <1>3, <2>3 DEF Given
  <2> QED BY <2>1, <2>2, <2>3
<1> HIDE DEF args, objs
<1>6. new = [x \in {own} \cup Dicts(p) |-> IF x = own THEN Given ELSE Dict(x)]
  <2>1. new = [x \in {own} \cup DOMAIN objs |-> IF x = own THEN args ELSE objs[x]]
    BY DEF Put
  <2> HIDE DEF new, own
  <2> QED BY <1>3, <1>5, <2>1
<1> HIDE DEF new, own
<1>7. new[own].pow = Given.pow
  BY <1>6
<1>8. with.objects = [o \in Dicts(p + 1) |-> Dict(o)] /\ with.obj = DictOf(p + 1)
  <2>1. CASE ~Tagged
    <3>1. with = [objects |-> new, obj |-> own]
      BY <1>7, <2>1 DEF InjectIds, Tagged
    <3>2. {own} \cup Dicts(p) = Dicts(p + 1)
      BY <1>2, <2>1 DEF Dicts
    <3>3. \A o : Dict(o) = Given
      BY <2>1 DEF Dict
    <3>4. own = DictOf(p + 1)
      BY <1>2, <2>1 DEF DictOf
    <3> QED BY <1>6, <3>1, <3>2, <3>3, <3>4
  <2>2. CASE Tagged
    <3>1. Sharing /\ own = 0
      BY <1>2, <2>2, TaggedShares
    <3>2. new[own] = Given
      BY <1>6
    <3>3. with = [objects |-> Put(new, p + 1, Ids(p)), obj |-> p + 1]
      BY <1>7, <2>2, <3>2 DEF InjectIds, Tagged, Ids
    <3>4. Put(new, p + 1, Ids(p))
            = [x \in {p + 1} \cup DOMAIN new |-> IF x = p + 1 THEN Ids(p) ELSE new[x]]
      BY DEF Put
    <3>5. {p + 1} \cup DOMAIN new = Dicts(p + 1) /\ DOMAIN new = {0} \cup Dicts(p)
      <4>1. DOMAIN new = {0} \cup Dicts(p)
        BY <1>6, <3>1
      <4>2. {p + 1} \cup ({0} \cup Dicts(p)) = Dicts(p + 1)
        BY <2>2, <3>1 DEF Dicts
      <4> QED BY <4>1, <4>2
    <3>6. \A x \in Dicts(p + 1) : Dict(x) = IF x = p + 1 THEN Ids(p) ELSE new[x]
      <4> TAKE x \in Dicts(p + 1)
      <4>1. CASE x = p + 1
        <5>1. p + 1 # 0 /\ (p + 1) - 1 = p
          OBVIOUS
        <5> QED BY <2>2, <4>1, <5>1 DEF Dict
      <4>2. CASE x # p + 1
        <5>1. x \in {own} \cup Dicts(p)
          BY <3>1, <3>5, <4>2
        <5>2. new[x] = IF x = own THEN Given ELSE Dict(x)
          BY <1>6, <5>1
        <5> QED BY <3>1, <4>2, <5>2 DEF Dict
      <4> QED BY <4>1, <4>2
    <3>7. DictOf(p + 1) = p + 1
      BY <2>2 DEF DictOf
    <3>8. Put(new, p + 1, Ids(p)) = [o \in Dicts(p + 1) |-> Dict(o)]
      BY <3>4, <3>5, <3>6
    <3>9. with.objects = Put(new, p + 1, Ids(p)) /\ with.obj = p + 1
      <4> HIDE DEF with
      <4> QED BY <3>3
    <3> HIDE DEF with
    <3> QED BY <3>7, <3>8, <3>9
  <2> QED BY <2>1, <2>2
<1> HIDE DEF with
<1>9. Append(Closed(p).subs, [id |-> SubId(p), obj |-> DictOf(p + 1)])
        = [j \in 1 .. p + 1 |-> [id |-> SubId(j - 1), obj |-> DictOf(j)]]
  <2> DEFINE S(j) == [id |-> SubId(j - 1), obj |-> DictOf(j)]
             old == [j \in 1 .. p |-> S(j)]
  <2>1. Closed(p).subs = old
    BY DEF Closed
  <2>2. (p + 1) - 1 = p
    OBVIOUS
  <2>3. S(p + 1) = [id |-> SubId(p), obj |-> DictOf(p + 1)]
    BY <2>2
  <2> HIDE DEF S
  <2>4. Append(old, S(p + 1)) = [j \in 1 .. p + 1 |-> S(j)]
    OBVIOUS
  <2> QED BY <2>1, <2>3, <2>4 DEF S
<1> QED BY <1>1, <1>8, <1>9 DEF Closed

LEMMA NumPromptsNat ==
    ASSUME WellFormed(req)
    PROVE  NumPrompts \in Nat /\ NumPrompts > 0
<1>1. req.prompts \subseteq Nat \ {0}
  BY DEF WellFormed
<1> QED BY <1>1 DEF NumPrompts

LEMMA PreparedIs ==
    ASSUME WellFormed(req)
    PROVE  Prepared = Closed(NumPrompts)
<1> DEFINE N == NumPrompts
           Body(f) == [k \in 0 .. N |->
                         IF k = 0 THEN [objects |-> <<>>, subs |-> <<>>]
                         ELSE AddSub(f[k - 1], k - 1)]
           after == CHOOSE f : f = Body(f)
           g == [k \in 0 .. N |-> Closed(k)]
<1>1. N \in Nat
  BY NumPromptsNat
<1>2. Prepared = after[N]
  BY DEF Prepared
<1> HIDE DEF N
<1>3. Closed(0) = [objects |-> <<>>, subs |-> <<>>]
  <2>1. Dicts(0) = {} /\ 1 .. 0 = {}
    BY DEF Dicts
  <2>2. [o \in {} |-> Dict(o)] = <<>>
    OBVIOUS
  <2>3. [j \in {} |-> [id |-> SubId(j - 1), obj |-> DictOf(j)]] = <<>>
    OBVIOUS
  <2> QED BY <2>1, <2>2, <2>3 DEF Closed
<1>4. \A k \in 1 .. N : AddSub(Closed(k - 1), k - 1) = Closed(k)
  <2> TAKE k \in 1 .. N
  <2>1. k - 1 \in Nat /\ (k - 1) + 1 = k
    BY <1>1
  <2> QED BY <2>1, ClosedStep
<1>5. g = Body(g)
  <2>1. \A k \in 0 .. N : k # 0 => k \in 1 .. N /\ k - 1 \in 0 .. N
    BY <1>1
  <2>2. \A k \in 0 .. N : g[k] = Closed(k)
    OBVIOUS
  <2>3. \A k \in 0 .. N : Closed(k) = IF k = 0 THEN [objects |-> <<>>, subs |-> <<>>]
                                      ELSE AddSub(g[k - 1], k - 1)
    <3> HIDE DEF g
    <3> QED BY <1>3, <1>4, <2>1, <2>2
  <2> QED BY <2>3
<1>6. after = Body(after)
  <2> HIDE DEF Body, g
  <2> QED BY <1>5
<1> HIDE DEF after
<1>7. \A k \in 0 .. N : after[k] = IF k = 0 THEN [objects |-> <<>>, subs |-> <<>>]
                                   ELSE AddSub(after[k - 1], k - 1)
  BY <1>6
<1> DEFINE V == {i \in Nat : i <= N => after[i] = Closed(i)}
<1>8. 0 \in V
  BY <1>1, <1>3, <1>7
<1>9. ASSUME NEW i \in Nat, i \in V PROVE i + 1 \in V
  <2> SUFFICES ASSUME i + 1 <= N PROVE after[i + 1] = Closed(i + 1)
    OBVIOUS
  <2>1. i + 1 \in 0 .. N /\ i + 1 # 0 /\ (i + 1) - 1 = i /\ i + 1 \in 1 .. N
    BY <1>1
  <2>2. after[i] = Closed(i)
    BY <1>1, <1>9
  <2>3. after[i + 1] = AddSub(after[i], i)
    BY <1>7, <2>1
  <2>4. AddSub(Closed(i), i) = Closed(i + 1)
    BY ClosedStep
  <2> QED BY <2>2, <2>3, <2>4
<1>10. Nat \subseteq V
  <2> HIDE DEF V
  <2> QED BY <1>8, <1>9, Induction
<1>11. after[N] = Closed(N)
  BY <1>1, <1>10
<1> QED BY <1>2, <1>11 DEF N

(* What the inductive proof of IdsAreOwn adds to it. *)
IdsInv ==
    /\ WellFormed(req)
    /\ phase \in {"raw", "admitted"} => heap = <<>> /\ saw = <<>> /\ ~failed
    /\ IdsAreOwn

LEMMA IdsPrepared ==
    ASSUME WellFormed(req), req' = req, heap' = Prepared.objects, subs' = Prepared.subs,
           saw' = [k \in DOMAIN Prepared.subs |->
                     IF req.use_beam_search THEN NoArgs
                     ELSE Prepared.objects[Prepared.subs[k].obj]]
    PROVE  IdsAreOwn'
<1> DEFINE N == NumPrompts
           Came(key) == IF req.kind = "responses" /\ Under(key, req.extra_sampling_params) # {}
                        THEN Under(key, req.extra_sampling_params)
                        ELSE Under(key, req.vllm_xargs)
           unpaid == Came("pow") = {}
<1>1. N \in Nat
  BY NumPromptsNat
<1>2. /\ heap' = [o \in Dicts(N) |-> Dict(o)]
      /\ subs' = [j \in 1 .. N |-> [id |-> SubId(j - 1), obj |-> DictOf(j)]]
  BY PreparedIs DEF Closed
<1> HIDE DEF N
<1>3. saw' = [k \in 1 .. N |-> IF req.use_beam_search THEN NoArgs ELSE Dict(DictOf(k))]
  <2>1. \A k \in 1 .. N : DictOf(k) \in Dicts(N)
    BY <1>1, TaggedShares DEF DictOf, Dicts
  <2>2. Prepared.subs = subs' /\ Prepared.objects = heap'
    OBVIOUS
  <2>3. DOMAIN subs' = 1 .. N /\ \A k \in 1 .. N : subs'[k].obj = DictOf(k)
    BY <1>2
  <2>4. \A k \in 1 .. N : heap'[DictOf(k)] = Dict(DictOf(k))
    BY <1>2, <2>1
  <2>5. saw' = [k \in 1 .. N |-> IF req.use_beam_search THEN NoArgs ELSE heap'[subs'[k].obj]]
    BY <2>2, <2>3
  <2> QED BY <2>3, <2>4, <2>5
<1>4. /\ Given = [f \in Keys |-> Given[f]]
      /\ \A key \in Keys \ {"kv"} : Given[key] = Came(key)
      /\ Given.kv = IF req.kv # {} THEN req.kv ELSE Came("kv")
  BY GivenHolds
<1>5. /\ Given.pow = Came("pow") /\ Given.completion_id = Came("completion_id")
      /\ Given.request_item_id = Came("request_item_id")
  <2>1. {"pow", "completion_id", "request_item_id"} \subseteq Keys \ {"kv"}
    BY DEF Keys
  <2> QED BY <1>4, <2>1
<1>6. req.kind \in {"chat", "completion", "responses"}
  BY DEF WellFormed
<1> HIDE DEF Came
<1>7. ASSUME NEW k \in 1 .. N, ~req.use_beam_search
      PROVE  /\ saw'[k].pow = Came("pow")
             /\ saw'[k].completion_id = IF unpaid \/ req.kind = "responses"
                                       THEN Came("completion_id") ELSE {<<req.id>>}
             /\ saw'[k].request_item_id = IF unpaid \/ req.kind # "completion"
                                         THEN Came("request_item_id") ELSE {subs'[k].id}
             /\ saw'[k].kv = IF req.kv # {} THEN req.kv ELSE Came("kv")
  <2>1. saw'[k] = Dict(DictOf(k)) /\ subs'[k].id = SubId(k - 1)
    BY <1>2, <1>3, <1>7
  <2>2. CASE ~Tagged
    <3>1. saw'[k] = Given /\ (unpaid \/ req.kind = "responses")
      BY <1>5, <1>7, <2>1, <2>2 DEF Dict, Tagged
    <3>2. unpaid \/ req.kind # "completion"
      BY <3>1
    <3>3. Given.kv = IF req.kv # {} THEN req.kv ELSE Came("kv")
      BY <1>4
    <3> HIDE DEF unpaid
    <3> QED BY <1>5, <3>1, <3>2, <3>3
  <2>3. CASE Tagged
    <3>1. DictOf(k) = k /\ k # 0
      BY <1>1, <2>3 DEF DictOf
    <3>2. saw'[k] = Ids(k - 1) /\ ~unpaid /\ req.kind # "responses"
      BY <1>5, <2>1, <2>3, <3>1 DEF Dict, Tagged
    <3>3. CASE req.kind = "chat"
      <4>1. saw'[k] = [Given EXCEPT !.completion_id = {<<req.id>>}]
        BY <3>2, <3>3 DEF Ids, ChatIds
      <4> QED BY ZenonT(30), <1>4, <1>5, <3>2, <3>3, <4>1 DEF Keys
    <3>4. CASE req.kind = "completion"
      <4>1. saw'[k] = [Given EXCEPT !.completion_id = {<<req.id>>},
                                    !.request_item_id = {SubId(k - 1)}]
        BY <3>2, <3>4 DEF Ids, CompletionIds
      <4>2. /\ saw'[k].completion_id = {<<req.id>>}
            /\ saw'[k].request_item_id = {SubId(k - 1)}
            /\ saw'[k].pow = Given.pow /\ saw'[k].kv = Given.kv
        <5>1. DOMAIN Given = Keys
          BY <1>4
        <5>2. "completion_id" \in Keys /\ "request_item_id" \in Keys
              /\ "pow" \in Keys /\ "kv" \in Keys
          BY DEF Keys
        <5> DEFINE G == Given
        <5>3. saw'[k] = [G EXCEPT !.completion_id = {<<req.id>>}, !.request_item_id = {SubId(k - 1)}]
          BY <4>1
        <5>4. DOMAIN G = Keys
          BY <5>1
        <5> HIDE DEF G
        <5>5. saw'[k].completion_id = {<<req.id>>}
          BY <5>2, <5>3, <5>4
        <5>6. saw'[k].request_item_id = {SubId(k - 1)}
          BY <5>2, <5>3, <5>4
        <5>7. saw'[k].pow = G.pow
          BY <5>2, <5>3, <5>4
        <5>8. saw'[k].kv = G.kv
          BY <5>2, <5>3, <5>4
        <5> QED BY <5>5, <5>6, <5>7, <5>8 DEF G
      <4>3. Given.kv = IF req.kv # {} THEN req.kv ELSE Came("kv")
        BY <1>4
      <4> HIDE DEF unpaid
      <4> QED BY <1>5, <2>1, <3>2, <3>4, <4>2, <4>3
    <3> QED BY <1>6, <3>2, <3>3, <3>4
  <2> QED BY <2>2, <2>3
<1>8. 0 \in DOMAIN heap' => heap'[0].completion_id = Came("completion_id")
  BY <1>2, <1>5 DEF Dict
<1>9. DOMAIN saw' = 1 .. N
  BY <1>3
<1> QED BY <1>7, <1>8, <1>9 DEF IdsAreOwn, Came, Under

LEMMA InputOK ==
    ASSUME Init
    PROVE  WellFormed(req)
BY InputAssumption DEF Init

(* The request, its dictionaries and its engine requests stay as they are  *)
(* once they have been created.                                            *)
LEMMA KeepsRequest ==
    ASSUME [Next]_vars
    PROVE  Validate \/ Create \/ UNCHANGED <<req, server, heap, subs, saw>>
<1>1. CASE Serving /\ \E i \in Lanes : Generate(i) \/ Prefill(i) \/ Fail(i)
  BY <1>1 DEF Generate, Prefill, Fail
<1>2. CASE Serving /\ \E p \in Prompts : TakeResult(p)
  BY <1>2 DEF TakeResult
<1>3. CASE ChatOutput
  BY <1>3 DEF ChatOutput
<1>4. CASE CompletionOutput
  BY <1>4 DEF CompletionOutput
<1>5. CASE EndStream \/ Respond \/ EngineDies \/ Disconnect
  BY <1>5 DEF EndStream, Respond, EngineDies, Disconnect
<1>6. CASE UNCHANGED vars
  BY <1>6 DEF vars
<1> QED BY <1>1, <1>2, <1>3, <1>4, <1>5, <1>6 DEF Next

LEMMA ValidateKeeps ==
    ASSUME WellFormed(req), Validate
    PROVE  /\ WellFormed(req') /\ phase' \in {"refused", "admitted"}
           /\ \A f \in DOMAIN req \ Rewritten : req'[f] = req[f]
           /\ UNCHANGED <<server, heap, subs, saw, engineVars, res, localVars, sent, usage, failed>>
<1>1. CASE req' = req /\ phase' = "refused"
  BY <1>1 DEF Validate
<1>2. CASE \E body \in Validated(req) : req' = body /\ phase' = "admitted"
  BY <1>2, ValidatedKeeps, ValidatedWellFormed DEF Validate
<1> QED BY <1>1, <1>2 DEF Validate

LEMMA IdsStep == IdsInv /\ [Next]_vars => IdsInv'
<1> SUFFICES ASSUME IdsInv, [Next]_vars PROVE IdsInv'
  OBVIOUS
<1>1. CASE Validate
  <2>1. /\ WellFormed(req') /\ phase' \in {"refused", "admitted"} /\ phase = "raw"
        /\ UNCHANGED <<heap, subs, saw, failed>>
    BY <1>1, ValidateKeeps DEF IdsInv, Validate
  <2>2. DOMAIN saw' = {} /\ DOMAIN heap' = {}
    BY <2>1 DEF IdsInv
  <2>3. IdsAreOwn'
    BY <2>2 DEF IdsAreOwn
  <2> QED BY <2>1, <2>3 DEF IdsInv
<1>2. CASE Create
  <2>1. phase = "admitted" /\ req' = req
    BY <1>2 DEF Create
  <2>2. CASE Refused
    <3>1. phase' = "refused" /\ UNCHANGED <<heap, subs, saw>>
      BY <1>2, <2>2 DEF Create
    <3>2. IdsAreOwn'
      BY <2>1, <3>1 DEF IdsInv, IdsAreOwn
    <3> QED BY <2>1, <3>1, <3>2 DEF IdsInv
  <2>3. CASE ~Refused
    <3>1. phase' \in {"handed", "streaming", "collecting"}
      BY <1>2, <2>3 DEF Create
    <3>2. IdsAreOwn'
      BY <1>2, <2>1, <2>3, IdsPrepared DEF IdsInv, Create
    <3> QED BY <2>1, <3>1, <3>2 DEF IdsInv
  <2> QED BY <2>2, <2>3
<1>3. CASE ~Validate /\ ~Create
  <2>1. UNCHANGED <<req, heap, subs, saw>>
    BY <1>3, KeepsRequest
  <2>2. IdsAreOwn'
    BY <2>1 DEF IdsInv, IdsAreOwn
  <2>3. phase' \in {"raw", "admitted"} => phase' = phase /\ failed' = failed
    <3>1. CASE Serving /\ \E i \in Lanes : Generate(i) \/ Prefill(i) \/ Fail(i)
      BY <3>1 DEF Generate, Prefill, Fail
    <3>2. CASE Serving /\ \E p \in Prompts : TakeResult(p)
      BY <3>2 DEF TakeResult
    <3>3. CASE ChatOutput
      BY ZenonT(30), <3>3 DEF ChatOutput, Abort
    <3>4. CASE CompletionOutput
      BY <3>4 DEF CompletionOutput, Abort
    <3>5. CASE EndStream \/ Respond \/ EngineDies \/ Disconnect
      BY <3>5 DEF EndStream, Respond, EngineDies, Disconnect, Abort
    <3>6. CASE UNCHANGED vars
      BY <3>6 DEF vars
    <3> QED BY <1>3, <3>1, <3>2, <3>3, <3>4, <3>5, <3>6 DEF Next
  <2> QED BY <2>1, <2>2, <2>3 DEF IdsInv
<1> QED BY <1>1, <1>2, <1>3

LEMMA IdsInit == Init => IdsInv
<1> SUFFICES ASSUME Init PROVE IdsInv
  OBVIOUS
<1>1. heap = <<>> /\ saw = <<>> /\ phase = "raw" /\ ~failed
  BY DEF Init
<1>2. IdsAreOwn
  <2>1. DOMAIN saw = {} /\ DOMAIN heap = {}
    BY <1>1
  <2> QED BY <2>1 DEF IdsAreOwn
<1> QED BY <1>1, <1>2, InputOK DEF IdsInv

LEMMA IdsAlways == Spec => []IdsInv
BY IdsInit, IdsStep, PTL DEF Spec

(* IdsAreOwn for every request and any number of prompts: whatever ids the *)
(* loops of create_chat_completion and create_completion write for one     *)
(* prompt, the engine reads for each prompt its own, although all start    *)
(* from the one dictionary of the body.                                    *)
THEOREM IdsOwn == Spec => []IdsAreOwn
<1>1. IdsInv => IdsAreOwn
  BY DEF IdsInv
<1> QED BY <1>1, IdsAlways, PTL

-----------------------------------------------------------------------------
(* Assertions.  An endpoint asks the engine for every log-probability it   *)
(* will read, unless the request is a beam search.                         *)

LEMMA LogprobsAsked ==
    ASSUME WellFormed(req), req.kind \in {"chat", "completion"},
           NEW echoing, echoing => req.echo, LogprobsMissing(echoing)
    PROVE  req.use_beam_search /\ req.logprobs # {}
<1>1. req.logprobs # {}
  BY DEF LogprobsMissing
<1>2. ASSUME ~req.use_beam_search PROVE FALSE
  <2>1. CASE req.kind = "chat"
    <3>1. \E max : SamplingParams = chat_sampling_params(req, max, server.defaults)
      BY <1>2, <2>1 DEF SamplingParams
    <3>2. SamplingParams.logprobs = req.top_logprobs
      BY <1>1, <3>1 DEF chat_sampling_params, chat_logprobs
    <3> QED BY <2>1, <3>2 DEF LogprobsMissing
  <2>2. CASE req.kind = "completion"
    <3>1. \E max : SamplingParams = completion_sampling_params(req, max, server.defaults)
      BY <1>2, <2>2 DEF SamplingParams
    <3>2. /\ SamplingParams.logprobs = req.logprobs
          /\ SamplingParams.prompt_logprobs = completion_prompt_logprobs(req)
      BY <3>1 DEF completion_sampling_params
    <3>3. echoing => completion_prompt_logprobs(req) # {}
      BY <1>1 DEF completion_prompt_logprobs
    <3> QED BY <1>1, <2>2, <3>2, <3>3 DEF LogprobsMissing
  <2> QED BY <2>1, <2>2
<1>3. req.use_beam_search \in BOOLEAN
  BY DEF WellFormed
<1> QED BY <1>1, <1>2, <1>3

(* What belongs to the request alone is the same as long as it is. *)
LEMMA SameRequest ==
    ASSUME UNCHANGED <<req, server>>
    PROVE  /\ Lanes' = Lanes /\ Mode' = Mode /\ NumPrompts' = NumPrompts
           /\ \A i : Sharers(i)' = Sharers(i)
<1>1. NumPrompts' = NumPrompts
  BY DEF NumPrompts
<1>2. Lanes' = Lanes
  BY <1>1 DEF Lanes
<1>3. Mode' = Mode
  BY DEF Mode, ToolChoice, _should_stream_with_auto_tool_parsing
<1> QED BY <1>1, <1>2, <1>3 DEF Sharers

(* The named cases.                                                        *)
Excused ==
    \/ req.kind = "completion" /\ req.max_tokens = {}
    \/ req.use_beam_search /\ req.logprobs # {}
    \/ req.kind = "completion" /\ req.echo /\ NoText
    \/ req.kind = "completion" /\ req.echo /\ req.stream /\ req.n > 1
         /\ server.details # "every"
    \/ ~req.stream /\ \E i \in Lanes : Uncalled(i)

LEMMA ServableIs == AdmittedServable <=> (failed => Excused)
BY DEF AdmittedServable, Excused

(* With one choice, the first result of a prompt has an output of it, and  *)
(* the prompt is echoed with that.                                         *)
Echoes ==
    /\ DOMAIN lane = Lanes
    /\ \A i \in Lanes : DOMAIN lane[i] = DOMAIN NewLane
    /\ \A o \in res : o.i \in Lanes /\ (o.prompted \/ lane[o.i].echoed = TRUE)
    /\ \A i \in Lanes : PromptOf(i) \in known =>
          lane[i].echoed = TRUE \/ \E o \in res : o.i = i

EchoInv ==
    /\ phase \in {"raw", "admitted"} => res = {} /\ known = {}
    /\ phase = "streaming" => req.stream
    /\ phase = "collecting" => ~req.stream
    /\ phase = "streaming" /\ req.kind = "completion" =>
          /\ server.details = "every" => \A o \in res : o.prompted
          /\ req.echo /\ req.n = 1 => Echoes

(* What happens to the phase of a request that has been created. *)
LEMMA PhaseMoves ==
    ASSUME [Next]_vars, ~Validate, ~Create
    PROVE  \/ phase' = phase
           \/ phase \in {"streaming", "collecting"} /\ phase' \in {"closed", "broken", "gone"}
<1>1. CASE Serving /\ \E i \in Lanes : Generate(i) \/ Prefill(i) \/ Fail(i)
  BY <1>1 DEF Generate, Prefill, Fail
<1>2. CASE Serving /\ \E p \in Prompts : TakeResult(p)
  BY <1>2 DEF TakeResult
<1>3. CASE ChatOutput
  BY ZenonT(30), <1>3 DEF ChatOutput, Abort
<1>4. CASE CompletionOutput
  BY ZenonT(30), <1>4 DEF CompletionOutput, Abort
<1>5. CASE EndStream \/ Respond \/ EngineDies \/ Disconnect
  BY <1>5 DEF EndStream, Respond, EngineDies, Disconnect, Abort, Serving
<1>6. CASE UNCHANGED vars
  BY <1>6 DEF vars
<1> QED BY <1>1, <1>2, <1>3, <1>4, <1>5, <1>6 DEF Next

(* With one choice, a prompt's only lane has the prompt's number. *)
LEMMA OneChoice ==
    ASSUME WellFormed(req), req.n = 1, NEW i \in Lanes
    PROVE  PromptOf(i) = i
<1>1. NumPrompts \in Nat
  BY NumPromptsNat
<1>2. i \in Nat
  BY <1>1 DEF Lanes
<1> QED BY <1>2 DEF PromptOf

LEMMA TakeEchoes ==
    ASSUME WellFormed(req), EchoInv, req.kind = "completion", NEW p, TakeResult(p)
    PROVE  EchoInv'
<1> DEFINE there == {i \in LanesOf(p) : pending[i] # {}}
<1>1. /\ phase = "streaming" /\ res = {} /\ there # {} /\ known' = known \cup {p}
      /\ UNCHANGED <<phase, req, server, lane>>
  BY DEF TakeResult
<1>2. ASSUME NEW o \in res'
      PROVE  o.i \in there /\ o.prompted = (server.details = "every" \/ p \notin known)
  BY DEF TakeResult
<1>3. ASSUME NEW i \in there PROVE \E o \in res' : o.i = i
  <2>1. PICK q \in pending[i] : TRUE
    OBVIOUS
  <2> DEFINE o == [i |-> i, toks |-> q.toks, fin |-> q.fin,
                   prompted |-> server.details = "every" \/ p \notin known]
  <2>2. o \in res'
    BY DEF TakeResult
  <2> QED BY <2>2
<1>4. Lanes' = Lanes
  BY <1>1, SameRequest
<1>5. ASSUME req.echo, req.n = 1 PROVE Echoes'
  <2>1. Echoes
    BY <1>1, <1>5 DEF EchoInv
  <2>2. \A i \in there : i \in Lanes /\ PromptOf(i) = p /\ i = p
    BY <1>5, OneChoice DEF LanesOf
  <2> HIDE DEF there
  <2>3. \A o \in res' : o.i \in Lanes /\ (o.prompted \/ lane[o.i].echoed = TRUE)
    BY <1>1, <1>2, <2>1, <2>2 DEF Echoes
  <2>4. ASSUME NEW i \in Lanes, PromptOf(i) \in known'
        PROVE  lane[i].echoed = TRUE \/ \E o \in res' : o.i = i
    <3>1. CASE PromptOf(i) \in known
      BY <1>1, <2>1, <3>1 DEF Echoes
    <3>2. CASE PromptOf(i) = p
      <4>1. i = p
        BY <1>5, <3>2, OneChoice
      <4>2. i \in there
        BY <1>1, <2>2, <4>1
      <4> QED BY <1>3, <4>2
    <3> QED BY <1>1, <2>4, <3>1, <3>2
  <2>5. \A i : PromptOf(i)' = PromptOf(i)
    BY <1>1 DEF PromptOf
  <2> QED BY <1>1, <1>4, <2>1, <2>3, <2>4, <2>5 DEF Echoes
<1>6. server.details = "every" => \A o \in res' : o.prompted
  BY <1>2
<1> QED BY <1>1, <1>5, <1>6 DEF EchoInv

LEMMA OutputEchoes ==
    ASSUME WellFormed(req), EchoInv, CompletionOutput
    PROVE  EchoInv'
<1>1. /\ phase = "streaming" /\ req.kind = "completion"
      /\ UNCHANGED <<req, server, known>>
  BY DEF CompletionOutput
<1> DEFINE told(o) == [lane[o.i] EXCEPT !.num = @ + Len(o.toks),
                         !.len = @ + TextLength(o.toks),
                         !.echoed = @ \/ req.echo \/ req.return_token_ids]
<1>2. PICK o \in NextOutput :
        /\ res' = res \ {o}
        /\ \/ phase' = "broken"
           \/ /\ phase' = phase
              /\ lane' = [lane EXCEPT ![o.i].echoed = told(o).echoed]
           \/ /\ phase' \in {phase, "broken"}
              /\ lane' = [lane EXCEPT ![o.i] = told(o)]
  <2>1. PICK o \in NextOutput :
          /\ res' = res \ {o}
          /\ \/ Abort
             \/ /\ phase' = phase
                /\ lane' = [lane EXCEPT ![o.i].echoed = told(o).echoed]
             \/ /\ Abort \/ phase' = phase
                /\ lane' = [lane EXCEPT ![o.i] = told(o)]
    <3> USE DEF CompletionOutput
    <3> QED OBVIOUS
  <2>2. Abort => phase' = "broken"
    BY DEF Abort
  <2> QED BY <2>1, <2>2
<1>3. CASE phase' = "broken"
  BY <1>3 DEF EchoInv
<1>4. CASE phase' = phase /\ ~(req.echo /\ req.n = 1)
  BY <1>1, <1>2, <1>4 DEF EchoInv
<1>5. CASE phase' = phase /\ phase' # "broken" /\ req.echo /\ req.n = 1
  <2>1. Echoes /\ o \in res /\ o.i \in Lanes
    BY <1>1, <1>5 DEF EchoInv, Echoes, NextOutput
  <2>2. Lanes' = Lanes
    BY <1>1, SameRequest
  <2>3. /\ DOMAIN lane' = Lanes /\ lane'[o.i].echoed = TRUE
        /\ DOMAIN lane'[o.i] = DOMAIN NewLane
        /\ \A i \in Lanes \ {o.i} : lane'[i] = lane[i]
    <3>1. "echoed" \in DOMAIN NewLane
      BY DEF NewLane
    <3> QED BY <1>2, <1>5, <2>1, <3>1 DEF Echoes
  <2>4. \A i \in Lanes : lane[i].echoed = TRUE => lane'[i].echoed = TRUE
    BY <2>3
  <2>5. \A i \in Lanes : DOMAIN lane'[i] = DOMAIN NewLane
    BY <2>1, <2>3 DEF Echoes
  <2>6. \A x \in res' : x \in res
    BY <1>2
  <2>7. \A x \in res' : x.i \in Lanes /\ (x.prompted \/ lane'[x.i].echoed = TRUE)
    BY <2>1, <2>4, <2>6 DEF Echoes
  <2>8. ASSUME NEW i \in Lanes, PromptOf(i) \in known
        PROVE  lane'[i].echoed = TRUE \/ \E x \in res' : x.i = i
    <3>1. CASE i = o.i
      BY <2>3, <3>1
    <3>2. CASE i # o.i
      BY <1>2, <2>1, <2>4, <2>8, <3>2 DEF Echoes
    <3> QED BY <3>1, <3>2
  <2>9. \A i : PromptOf(i)' = PromptOf(i)
    BY <1>1 DEF PromptOf
  <2>10. Echoes'
    BY <1>1, <2>2, <2>3, <2>5, <2>7, <2>8, <2>9 DEF Echoes, NewLane
  <2> QED BY <1>1, <1>2, <1>5, <2>6, <2>10 DEF EchoInv
<1> QED BY <1>2, <1>1, <1>3, <1>4, <1>5

LEMMA SameEchoes ==
    ASSUME EchoInv, UNCHANGED <<phase, req, server, res, known, lane>>
    PROVE  EchoInv'
<1>1. Lanes' = Lanes /\ \A i : PromptOf(i)' = PromptOf(i)
  BY SameRequest DEF PromptOf
<1>2. Echoes' <=> Echoes
  BY <1>1 DEF Echoes, NewLane
<1> QED BY <1>2 DEF EchoInv

LEMMA EchoStep ==
    ASSUME IdsInv, Serving => req.kind \in {"chat", "completion"}, EchoInv, [Next]_vars
    PROVE  EchoInv'
<1>1. WellFormed(req)
  BY DEF IdsInv
<1>2. CASE Validate
  <2>1. phase' \in {"refused", "admitted"} /\ phase = "raw" /\ UNCHANGED <<res, known>>
    BY <1>1, <1>2, ValidateKeeps DEF Validate, localVars
  <2> QED BY <2>1 DEF EchoInv
<1>3. CASE Create
  <2>1. phase = "admitted" /\ UNCHANGED <<req, server, res, known>>
    BY <1>3 DEF Create
  <2>2. res = {} /\ known = {}
    BY <2>1 DEF EchoInv
  <2>3. CASE phase' = "refused"
    BY <2>3 DEF EchoInv
  <2>4. CASE phase' # "refused"
    <3>1. /\ phase' = IF req.kind = "responses" THEN "handed"
                      ELSE IF req.stream THEN "streaming" ELSE "collecting"
          /\ lane' = [i \in Lanes |-> NewLane]
      BY <1>3, <2>4 DEF Create
    <3>2. Lanes' = Lanes
      BY <2>1, SameRequest
    <3>3. Echoes'
      BY <2>1, <2>2, <3>1, <3>2 DEF Echoes
    <3> QED BY <1>1, <2>1, <2>2, <3>1, <3>3 DEF EchoInv, WellFormed
  <2> QED BY <2>3, <2>4
<1>4. CASE Serving /\ \E i \in Lanes : Generate(i) \/ Prefill(i) \/ Fail(i)
  <2>1. UNCHANGED <<phase, req, server, res, known, lane>>
    BY <1>4 DEF Generate, Prefill, Fail, localVars
  <2> QED BY <2>1, SameEchoes
<1>5. CASE Serving /\ \E p \in Prompts : TakeResult(p)
  <2>1. PICK p \in Prompts : TakeResult(p)
    BY <1>5
  <2>2. CASE req.kind = "completion"
    BY <1>1, <2>1, <2>2, TakeEchoes
  <2>3. CASE req.kind # "completion"
    BY <2>1, <2>3 DEF TakeResult, EchoInv
  <2> QED BY <2>2, <2>3
<1>6. CASE ChatOutput
  <2>1. req.kind = "chat" /\ phase = "streaming" /\ req' = req
    BY <1>6 DEF ChatOutput
  <2>2. phase' \in {"streaming", "broken"}
    BY ZenonT(30), <1>6 DEF ChatOutput, Abort
  <2> QED BY <2>1, <2>2 DEF EchoInv
<1>7. CASE CompletionOutput
  BY <1>1, <1>7, OutputEchoes
<1>8. CASE EndStream \/ Respond \/ EngineDies \/ Disconnect
  <2>1. phase' \in {"closed", "broken", "gone"}
    BY <1>8 DEF EndStream, Respond, EngineDies, Disconnect, Abort
  <2> QED BY <2>1 DEF EchoInv
<1>9. CASE UNCHANGED vars
  <2>1. UNCHANGED <<phase, req, server, res, known, lane>>
    BY <1>9 DEF vars, localVars
  <2> QED BY <2>1, SameEchoes
<1> QED BY <1>2, <1>3, <1>4, <1>5, <1>6, <1>7, <1>8, <1>9 DEF Next

ServableInv ==
    /\ IdsInv
    /\ Serving => req.kind \in {"chat", "completion"}
    /\ failed => phase = "broken"
    /\ EchoInv
    /\ AdmittedServable

LEMMA ExcusedStays ==
    ASSUME UNCHANGED <<req, server, text, made>>
    PROVE  Excused' <=> Excused
<1>1. Lanes' = Lanes /\ Mode' = Mode
  BY SameRequest
<1>2. \A i \in Lanes : Uncalled(i)' <=> Uncalled(i)
  BY <1>1 DEF Uncalled, Thinks, Tokens
<1>3. NoText' <=> NoText
  BY DEF NoText
<1> QED BY <1>1, <1>2, <1>3 DEF Excused

(* An assertion that fails has its excuse, and ends the request. *)
LEMMA FailureExcused ==
    ASSUME ServableInv, ~failed, failed', [Next]_vars
    PROVE  phase' = "broken" /\ Excused /\ UNCHANGED <<req, server, text, made>>
<1>1. WellFormed(req)
  BY DEF ServableInv, IdsInv
<1>2. CASE Validate \/ Create \/ EndStream \/ EngineDies \/ Disconnect \/ UNCHANGED vars
  BY <1>2 DEF Validate, Create, EndStream, EngineDies, Disconnect, vars
<1>3. CASE Serving /\ \E i \in Lanes : Generate(i) \/ Prefill(i) \/ Fail(i)
  BY <1>3 DEF Generate, Prefill, Fail
<1>4. CASE Serving /\ \E p \in Prompts : TakeResult(p)
  BY <1>4 DEF TakeResult
<1>5. CASE ChatOutput
  <2>1. /\ req.kind = "chat" /\ UNCHANGED <<req, server, text, made>>
        /\ LogprobsMissing(FALSE) /\ phase' = "broken"
    BY ZenonT(30), <1>5 DEF ChatOutput, Abort, engineVars
  <2>2. req.use_beam_search /\ req.logprobs # {}
    BY <1>1, <2>1, LogprobsAsked
  <2> QED BY <2>1, <2>2 DEF Excused
<1>6. CASE CompletionOutput
  <2>1. /\ req.kind = "completion" /\ phase = "streaming"
        /\ UNCHANGED <<req, server, text, made>>
    BY <1>6 DEF CompletionOutput, engineVars
  <2>2. PICK o \in NextOutput :
          LET echoing == req.echo /\ ~lane[o.i].echoed
          IN  /\ phase' = "broken"
              /\ \/ req.max_tokens = {}
                 \/ echoing /\ (~o.prompted \/ NoText)
                 \/ LogprobsMissing(echoing)
    BY ZenonT(30), <1>6 DEF CompletionOutput, Abort
  <2> DEFINE echoing == req.echo /\ ~lane[o.i].echoed
  <2>3. CASE req.max_tokens = {}
    BY <2>1, <2>2, <2>3 DEF Excused
  <2>4. CASE echoing /\ NoText
    BY <2>1, <2>2, <2>4 DEF Excused
  <2>5. CASE LogprobsMissing(echoing)
    <3>1. echoing => req.echo
      OBVIOUS
    <3>2. req.use_beam_search /\ req.logprobs # {}
      BY <1>1, <2>1, <2>5, <3>1, LogprobsAsked
    <3> QED BY <2>1, <2>2, <3>2 DEF Excused
  <2>6. CASE echoing /\ ~o.prompted
    <3>1. o \in res
      BY DEF NextOutput
    <3>2. server.details # "every" /\ req.n # 1
      BY <2>1, <2>6, <3>1 DEF ServableInv, EchoInv, Echoes
    <3>3. req.stream /\ req.n > 1
      BY <1>1, <2>1, <3>2 DEF ServableInv, EchoInv, WellFormed
    <3> QED BY <2>1, <2>2, <2>6, <3>2, <3>3 DEF Excused
  <2> QED BY <2>2, <2>3, <2>4, <2>5, <2>6
<1>7. CASE Respond
  <2>1. /\ phase = "collecting" /\ phase' = "broken" /\ AnswerFails
        /\ UNCHANGED <<req, server, text, made>>
    BY <1>7 DEF Respond, engineVars
  <2>2. ~req.stream
    BY <2>1 DEF ServableInv, EchoInv
  <2>3. CASE LogprobsMissing(req.kind = "completion" /\ req.echo)
    <3>1. req.use_beam_search /\ req.logprobs # {}
      BY <1>1, <2>1, <2>3, LogprobsAsked DEF ServableInv, Serving
    <3> QED BY <2>1, <3>1 DEF Excused
  <2>4. CASE ~LogprobsMissing(req.kind = "completion" /\ req.echo)
    BY <2>1, <2>2, <2>4 DEF AnswerFails, Excused
  <2> QED BY <2>3, <2>4
<1> QED BY <1>2, <1>3, <1>4, <1>5, <1>6, <1>7 DEF Next

LEMMA ServableStep == ServableInv /\ [Next]_vars => ServableInv'
<1> SUFFICES ASSUME ServableInv, [Next]_vars PROVE ServableInv'
  OBVIOUS
<1>1. IdsInv' /\ EchoInv'
  BY IdsStep, EchoStep DEF ServableInv
<1>2. WellFormed(req)
  BY DEF ServableInv, IdsInv
<1>3. (Serving => req.kind \in {"chat", "completion"})'
  <2>1. CASE Validate
    BY <1>2, <2>1, ValidateKeeps DEF Serving
  <2>2. CASE Create
    <3>1. req' = req /\ (phase' \in {"streaming", "collecting"} => req.kind # "responses")
      BY <2>2 DEF Create
    <3> QED BY <1>2, <3>1 DEF Serving, WellFormed
  <2>3. CASE ~Validate /\ ~Create
    <3>1. req' = req
      BY <2>3, KeepsRequest
    <3>2. Serving' => Serving
      BY <2>3, PhaseMoves DEF Serving
    <3> QED BY <3>1, <3>2 DEF ServableInv
  <2> QED BY <2>1, <2>2, <2>3
<1>4. CASE failed
  <2>1. phase = "broken"
    BY <1>4 DEF ServableInv
  <2>2. UNCHANGED vars
    BY <2>1 DEF Next, Validate, Create, Serving, ChatOutput, CompletionOutput, EndStream,
                Respond, EngineDies, Disconnect
  <2>3. UNCHANGED <<phase, failed, req, server, text, made>>
    BY <2>2 DEF vars, engineVars
  <2>4. Excused' <=> Excused
    BY <2>3, ExcusedStays
  <2>5. Excused
    BY <1>4, ServableIs DEF ServableInv
  <2>6. AdmittedServable'
    BY <2>4, <2>5 DEF AdmittedServable, Excused
  <2> QED BY <1>1, <1>3, <2>1, <2>3, <2>6 DEF ServableInv
<1>5. CASE ~failed /\ failed'
  <2>1. phase' = "broken" /\ Excused /\ UNCHANGED <<req, server, text, made>>
    BY <1>5, FailureExcused
  <2>2. Excused'
    BY <2>1, ExcusedStays
  <2> QED BY <1>1, <1>3, <2>1, <2>2 DEF ServableInv, AdmittedServable, Excused
<1>6. CASE ~failed'
  BY <1>1, <1>3, <1>6 DEF ServableInv, AdmittedServable
<1> QED BY <1>4, <1>5, <1>6

LEMMA ServableAlways == Spec => []ServableInv
<1>1. Init => ServableInv
  <2> SUFFICES ASSUME Init PROVE ServableInv
    OBVIOUS
  <2>1. IdsInv
    BY IdsInit
  <2>2. phase = "raw" /\ ~failed /\ res = {} /\ known = {}
    BY DEF Init
  <2> QED BY <2>1, <2>2 DEF ServableInv, Serving, AdmittedServable, EchoInv
<1> QED BY <1>1, ServableStep, PTL DEF Spec

(* AdmittedServable for every request, number of prompts and choices and   *)
(* every order of their results: what the validators admit,                *)
(* to_sampling_params asks the engine for, and a choice that is echoed     *)
(* meets the token ids of its prompt, so that an assertion of the          *)
(* endpoints fails in the named cases alone.                               *)
THEOREM RequestsServable == Spec => []AdmittedServable
<1>1. ServableInv => AdmittedServable
  BY DEF ServableInv
<1> QED BY <1>1, ServableAlways, PTL

-----------------------------------------------------------------------------
(* Finishing.  While a request is served, the output of a lane is in three *)
(* places: what the generator has worked through, what is left of the      *)
(* result it took, and what the engine has deposited since.                *)

Token == [c : STRING, k : Nat, lane : Nat]

IsSeq(s) == s \in Seq({s[k] : k \in DOMAIN s})

IsLane(s) ==
    /\ DOMAIN s = DOMAIN NewLane
    /\ s.num \in Nat
    /\ s.sent \in BOOLEAN /\ s.tools \in BOOLEAN /\ s.named \in BOOLEAN
    /\ s.prev \in Seq(Token)

Fins == {"", "stop", "length", "error"}

(* A lane's pending output carries its finish reason, and one that stopped *)
(* or ran out of room has a last token.                                    *)
Deposited(i) ==
    \A o \in pending[i] : /\ pending[i] = {o}
                          /\ o.toks \in Seq(Token) /\ o.fin = ended[i]
                          /\ o.fin \in {"stop", "length"} => o.toks # <<>>

EngineOK ==
    /\ text \in [Lanes -> Seq(Token)] /\ made \in [Lanes -> Nat]
    /\ ended \in [Lanes -> Fins] /\ DOMAIN pending = Lanes
    /\ \A i \in Lanes : /\ made[i] <= Len(text[i])
                        /\ ended[i] = "stop" => made[i] = Len(text[i])
                        /\ Deposited(i)

Held(i) == IF pending[i] = {} THEN 0 ELSE Len((CHOOSE o \in pending[i] : TRUE).toks)

ResOK ==
    /\ \A o \in res : /\ o.i \in Lanes /\ o.toks \in Seq(Token)
                      /\ o.fin = IF pending[o.i] = {} THEN ended[o.i] ELSE ""
                      /\ o.fin \in {"stop", "length"} => o.toks # <<>>
    /\ \A o, x \in res : o.i = x.i => o = x
    /\ first => res = {}

InRes(i) == \E o \in res : o.i = i

CountOK ==
    /\ \A o \in res : made[o.i] = lane[o.i].num + Len(o.toks) + Held(o.i)
    /\ \A i \in Lanes : ~InRes(i) => made[i] = lane[i].num + Held(i)

(* The lane has ended, and its last output has been worked through.        *)
Over(i) == ended[i] # "" /\ pending[i] = {} /\ ~InRes(i)

Finished(i) == \E k \in DOMAIN sent : sent[k].i = i /\ sent[k].fin # ""

LaneOK ==
    /\ DOMAIN lane = Lanes
    /\ \A i \in Lanes :
          /\ IsLane(lane[i])
          /\ lane[i].sent => Over(i)
          /\ Over(i) => Finished(i) \/ (ended[i] = "error" /\ made[i] = 0)

ChunkOK ==
    /\ IsSeq(sent) /\ (first => sent = <<>>)
    /\ \A k \in DOMAIN sent :
          /\ sent[k].i \in Lanes /\ sent[k].kind \in {"role", "delta"}
          /\ sent[k].fin # "" => Over(sent[k].i)
          /\ \A u \in sent[k].usage :
                u.completion \in Nat /\ u.completion <= lane[sent[k].i].num

(* A tool call was found: for any choice of the parser in auto, for the    *)
(* lane itself otherwise.                                                  *)
Found(s, pz) == IF Mode = "auto" THEN pz.calls # <<>> ELSE s.tools

Tells(x) == x.kind = "delta" /\ x.m.tools # <<>>

LaneTools(s, pz) ==
    /\ Mode = "auto" /\ s.tools => pz.calls # <<>>
    /\ Mode = "required" /\ s.named => s.tools
    /\ Mode = "completion" => ~s.tools

ToolOK ==
    /\ parser.calls \in Seq(Seq(Token))
    /\ \A i \in Lanes : LaneTools(lane[i], parser)
    /\ Mode # "named" =>
          /\ \A k \in DOMAIN sent : Tells(sent[k]) => Found(lane[sent[k].i], parser)
          /\ req.parallel_tool_calls =>
                \A i \in Lanes : Found(lane[i], parser) =>
                    \E k \in DOMAIN sent : Tells(sent[k]) /\ sent[k].i \in Sharers(i)

(* What a model that has to call a tool says in full.                      *)
Calling(toks) ==
    \E k \in DOMAIN toks :
        /\ toks[k].c = "p"
        /\ server.reasoning /\ ~req.thinking_off =>
              \E j \in DOMAIN toks : toks[j].c = "E" /\ j < k

StreamOK == EngineOK /\ ResOK /\ CountOK /\ LaneOK /\ ChunkOK /\ ToolOK /\ usage = {}

FinishInv ==
    /\ ServableInv
    /\ server.reasoning \in BOOLEAN
    /\ phase \in {"raw", "admitted"} =>
          sent = <<>> /\ usage = {} /\ res = {} /\ first /\ parser = NewParser
    /\ phase = "streaming" => req.stream /\ StreamOK
    /\ phase = "collecting" =>
          /\ ~req.stream /\ EngineOK /\ sent = <<>> /\ usage = {}
          /\ Mode = "required" => \A i \in Lanes : Calling(text[i])
    /\ FinishesRight

(* A sequence is one of its own values. *)
LEMMA OwnValues ==
    ASSUME NEW S, NEW s \in Seq(S)
    PROVE  IsSeq(s)
<1>1. s \in [1 .. Len(s) -> S] /\ Len(s) \in Nat
  BY LenProperties
<1>2. s \in [1 .. Len(s) -> {s[k] : k \in DOMAIN s}]
  BY <1>1
<1> QED BY <1>1, <1>2 DEF IsSeq

LEMMA AppendIs ==
    ASSUME NEW s, NEW x, IsSeq(s)
    PROVE  /\ IsSeq(Append(s, x))
           /\ Len(s) \in Nat /\ DOMAIN s = 1 .. Len(s)
           /\ Len(Append(s, x)) = Len(s) + 1
           /\ DOMAIN Append(s, x) = 1 .. Len(s) + 1
           /\ \A k \in 1 .. Len(s) : Append(s, x)[k] = s[k]
           /\ Append(s, x)[Len(s) + 1] = x
<1> DEFINE S == {s[k] : k \in DOMAIN s}
           T == S \cup {x}
           a == Append(s, x)
<1>1. s \in Seq(S)
  BY DEF IsSeq
<1> HIDE DEF S
<1>2. s \in Seq(T) /\ x \in T
  BY <1>1
<1>3. /\ a \in Seq(T) /\ Len(s) \in Nat /\ DOMAIN s = 1 .. Len(s)
      /\ Len(a) = Len(s) + 1 /\ DOMAIN a = 1 .. Len(s) + 1
      /\ \A k \in 1 .. Len(s) : a[k] = s[k]
      /\ a[Len(s) + 1] = x
  BY <1>2
<1>4. IsSeq(a)
  BY <1>3, OwnValues
<1> QED BY <1>3, <1>4

LEMMA ConcatIs ==
    ASSUME NEW s, NEW t, IsSeq(s), IsSeq(t)
    PROVE  /\ IsSeq(s \o t)
           /\ Len(s) \in Nat /\ DOMAIN s = 1 .. Len(s)
           /\ Len(t) \in Nat /\ DOMAIN t = 1 .. Len(t)
           /\ Len(s \o t) = Len(s) + Len(t)
           /\ DOMAIN (s \o t) = 1 .. Len(s) + Len(t)
           /\ \A k \in 1 .. Len(s) : (s \o t)[k] = s[k]
           /\ \A k \in 1 .. Len(t) : (s \o t)[Len(s) + k] = t[k]
<1> DEFINE S == {s[k] : k \in DOMAIN s}
           T == {t[k] : k \in DOMAIN t}
           U == S \cup T
           a == s \o t
<1>1. s \in Seq(S) /\ t \in Seq(T)
  BY DEF IsSeq
<1> HIDE DEF S, T
<1>2. s \in Seq(U) /\ t \in Seq(U)
  BY <1>1
<1>3. /\ a \in Seq(U) /\ Len(s) \in Nat /\ DOMAIN s = 1 .. Len(s)
      /\ Len(t) \in Nat /\ DOMAIN t = 1 .. Len(t)
      /\ Len(a) = Len(s) + Len(t) /\ DOMAIN a = 1 .. Len(s) + Len(t)
      /\ \A k \in 1 .. Len(s) : a[k] = s[k]
      /\ \A k \in 1 .. Len(t) : a[Len(s) + k] = t[k]
  BY <1>2
<1>4. IsSeq(a)
  BY <1>3, OwnValues
<1> QED BY <1>3, <1>4

(* A list with an entry for each of the numbers to n. *)
LEMMA RowIs ==
    ASSUME NEW n \in Nat, NEW F, F = [k \in 1 .. n |-> F[k]]
    PROVE  IsSeq(F) /\ Len(F) = n /\ DOMAIN F = 1 .. n
<1>1. DOMAIN F = 1 .. n
  OBVIOUS
<1>2. \A k \in 1 .. n : F[k] \in {F[j] : j \in DOMAIN F}
  BY <1>1
<1>3. F \in Seq({F[j] : j \in DOMAIN F})
  BY <1>2
<1> QED BY <1>1, <1>3 DEF IsSeq

LEMMA LanesAre ==
    ASSUME WellFormed(req)
    PROVE  /\ req.n * NumPrompts \in Nat
           /\ Lanes \subseteq Nat
           /\ \A k \in 1 .. req.n * NumPrompts : k - 1 \in Lanes
           /\ \A i \in Lanes : i + 1 \in 1 .. req.n * NumPrompts
           /\ IsFiniteSet(Lanes)
<1>1. NumPrompts \in Nat /\ req.n \in Nat
  BY NumPromptsNat DEF WellFormed
<1> DEFINE N == req.n * NumPrompts
<1>2. N \in Nat
  BY <1>1
<1>3. Lanes = 0 .. N - 1
  BY DEF Lanes
<1> HIDE DEF N
<1>4. IsFiniteSet(0 .. N - 1)
  BY <1>2, FS_Interval
<1>5. N \in Nat /\ Lanes \subseteq Nat /\ (\A k \in 1 .. N : k - 1 \in Lanes)
      /\ (\A i \in Lanes : i + 1 \in 1 .. N) /\ IsFiniteSet(Lanes)
  BY <1>2, <1>3, <1>4
<1> QED BY <1>5 DEF N

LEMMA ModeIs ==
    ASSUME WellFormed(req)
    PROVE  Mode \in Modes /\ (req.kind = "chat" => Mode # "completion")
           /\ (req.kind = "completion" => Mode = "completion")
BY DEF Mode, Modes, WellFormed

-----------------------------------------------------------------------------
(* The parsers.                                                            *)

(* The tool parser never takes a call back. *)
LEMMA CallsGrow ==
    ASSUME NEW calls \in Seq(Seq(Token)), NEW toks \in Seq(Token)
    PROVE  /\ ParsedCalls(calls, toks) \in Seq(Seq(Token))
           /\ Len(ParsedCalls(calls, toks)) >= Len(calls)
<1> DEFINE N == Len(toks)
           S == {c \in Seq(Seq(Token)) : Len(c) >= Len(calls)}
           Body(f) == [k \in 0 .. N |-> IF k = 0 THEN calls ELSE Feed(f[k - 1], toks[k])]
           after == CHOOSE f : f = Body(f)
           F == [n \in Nat |-> [c \in S |-> IF n < N THEN Feed(c, toks[n + 1]) ELSE c]]
<1>1. N \in Nat /\ calls \in S
  OBVIOUS
<1>2. ASSUME NEW c \in S, NEW k \in 1 .. N PROVE Feed(c, toks[k]) \in S
  <2>1. toks[k] \in Token /\ c \in Seq(Seq(Token)) /\ Len(c) >= Len(calls)
    OBVIOUS
  <2>2. Append(c, <<>>) \in S
    BY <2>1
  <2>3. ASSUME c # <<>> PROVE [c EXCEPT ![Len(c)] = Append(@, toks[k])] \in S
    <3>1. Len(c) \in 1 .. Len(c) /\ c[Len(c)] \in Seq(Token)
      BY <2>1, <2>3
    <3>2. Append(c[Len(c)], toks[k]) \in Seq(Token)
      BY <2>1, <3>1
    <3>3. /\ [c EXCEPT ![Len(c)] = Append(@, toks[k])] \in Seq(Seq(Token))
          /\ Len([c EXCEPT ![Len(c)] = Append(@, toks[k])]) = Len(c)
      BY <2>1, <3>1, <3>2, ExceptSeq
    <3> QED BY <2>1, <3>3
  <2> HIDE DEF S
  <2> QED BY <2>2, <2>3 DEF Feed
<1>3. ParsedCalls(calls, toks) = after[N]
  BY DEF ParsedCalls
<1> HIDE DEF N, S
<1>4. StepsIn(F, S)
  <2> SUFFICES ASSUME NEW n \in Nat, NEW c \in S PROVE F[n][c] \in S
    BY DEF StepsIn
  <2>1. F[n][c] = IF n < N THEN Feed(c, toks[n + 1]) ELSE c
    OBVIOUS
  <2>2. n < N => n + 1 \in 1 .. N
    BY <1>1
  <2> QED BY <1>2, <2>1, <2>2
<1>5. \E g \in [Nat -> S] : Iterates(g, calls, F)
  <2> HIDE DEF F
  <2> QED BY <1>1, <1>4, IterationExists
<1>6. PICK g \in [Nat -> S] : Iterates(g, calls, F)
  BY <1>5
<1> DEFINE h == [k \in 0 .. N |-> g[k]]
<1>7. h = Body(h)
  <2>1. \A k \in 0 .. N : k # 0 => k \in 1 .. N /\ k - 1 \in 0 .. N /\ k - 1 \in Nat
                                   /\ k - 1 < N /\ (k - 1) + 1 = k
    BY <1>1
  <2>2. \A n \in Nat : g[n] \in S /\ g[n + 1] = F[n][g[n]]
    BY <1>6 DEF Iterates
  <2>3. \A n \in Nat : n < N => g[n + 1] = Feed(g[n], toks[n + 1])
    BY <2>2
  <2>4. g[0] = calls
    BY <1>6 DEF Iterates
  <2>5. \A k \in 0 .. N : g[k] = IF k = 0 THEN calls ELSE Feed(g[k - 1], toks[k])
    BY <2>1, <2>3, <2>4
  <2>6. \A k \in 0 .. N : k # 0 => h[k - 1] = g[k - 1]
    BY <2>1
  <2>7. \A k \in 0 .. N : g[k] = IF k = 0 THEN calls ELSE Feed(h[k - 1], toks[k])
    <3> HIDE DEF h
    <3> QED BY <2>5, <2>6
  <2> QED BY <2>7
<1>8. after = Body(after)
  <2> HIDE DEF Body, h
  <2> QED BY <1>7
<1> HIDE DEF after
<1>9. \A k \in 0 .. N : after[k] = IF k = 0 THEN calls ELSE Feed(after[k - 1], toks[k])
  BY <1>8
<1> DEFINE V == {n \in Nat : n <= N => after[n] \in S}
<1>10. 0 \in V
  BY <1>1, <1>9
<1>11. ASSUME NEW n \in Nat, n \in V PROVE n + 1 \in V
  <2> SUFFICES ASSUME n + 1 <= N PROVE after[n + 1] \in S
    OBVIOUS
  <2>1. n + 1 \in 1 .. N /\ n + 1 \in 0 .. N /\ n + 1 # 0 /\ (n + 1) - 1 = n /\ n <= N
    BY <1>1
  <2>2. after[n] \in S
    BY <1>11, <2>1
  <2>3. after[n + 1] = Feed(after[n], toks[n + 1])
    BY <1>9, <2>1
  <2> QED BY <1>2, <2>1, <2>2, <2>3
<1>12. Nat \subseteq V
  <2> HIDE DEF V
  <2> QED BY <1>10, <1>11, Induction
<1>13. after[N] \in S
  BY <1>1, <1>12
<1> QED BY <1>3, <1>13 DEF S

(* None, or one message. *)
IsMsg(msg) == msg = {} \/ \E r, c, tools : msg = Message(r, c, tools)

HasCall(msg) == \E x \in msg : x.tools # <<>>

LEMMA MessageCalls ==
    ASSUME NEW r, NEW c, NEW tools
    PROVE  HasCall(Message(r, c, tools)) <=> tools # <<>>
<1> DEFINE m == [r |-> r, c |-> c, tools |-> tools]
<1>1. m.tools = tools /\ Message(r, c, tools) = {m}
  BY DEF Message
<1> HIDE DEF m
<1> QED BY <1>1 DEF HasCall

(* A delta says a call exactly when the parser finds its first one then,   *)
(* or goes on with one.                                                    *)
LEMMA ToolsStreamed ==
    ASSUME NEW pz, pz.calls \in Seq(Seq(Token)), NEW toks \in Seq(Token), NEW lag
    PROVE  LET got == extract_tool_calls_streaming(pz, toks, lag)
           IN  /\ IsMsg(got.msg)
               /\ got.parser.calls \in Seq(Seq(Token))
               /\ got.parser.calls # <<>> <=> HasCall(got.msg) \/ pz.calls # <<>>
<1> DEFINE got == extract_tool_calls_streaming(pz, toks, lag)
           calls == ParsedCalls(pz.calls, toks)
           before == Len(pz.calls)
           start == IF before > 0 /\ calls[before] # pz.calls[before] THEN before ELSE before + 1
           Shew(k) == SubSeq(calls[k], 1, Len(calls[k]) - lag)
           Tell(k) == IF k > before THEN 0 ELSE Len(pz.streamed[k])
           Entry(j) == [idx |-> start + j - 1, name |-> start + j - 1 > before,
                        args |-> SubSeq(Shew(start + j - 1), Tell(start + j - 1) + 1,
                                        Len(Shew(start + j - 1)))]
           size == Len(calls) - start + 1
           tools == [j \in 1 .. size |-> Entry(j)]
<1>1. calls \in Seq(Seq(Token)) /\ Len(calls) >= before
  BY CallsGrow
<1>2. /\ got.msg = IF Words(toks) = <<>> /\ tools = <<>> THEN {}
                   ELSE Message(<<>>, Words(toks), tools)
      /\ got.parser.calls = calls
  BY DEF extract_tool_calls_streaming
<1> HIDE DEF got, calls, Entry
<1>3. Len(calls) \in Nat /\ before \in Nat /\ start \in Nat /\ start >= before /\ start >= 1
      /\ start <= before + 1 /\ (before = 0 => start = 1)
  BY <1>1
<1> HIDE DEF start, before
<1>4. tools # <<>> <=> size >= 1
  <2>1. DOMAIN tools = 1 .. size /\ DOMAIN <<>> = {} /\ size \in Int
    BY <1>3
  <2>2. CASE size >= 1
    <3>1. 1 \in DOMAIN tools
      BY <2>1, <2>2
    <3> HIDE DEF tools
    <3> QED BY <2>1, <2>2, <3>1
  <2>3. CASE ~(size >= 1)
    <3>1. 1 .. size = {}
      BY <2>1, <2>3
    <3>2. tools = <<>>
      BY <3>1
    <3> QED BY <2>3, <3>2
  <2> QED BY <2>2, <2>3
<1> HIDE DEF tools
<1>5. HasCall(got.msg) <=> tools # <<>>
  <2>1. CASE got.msg = {}
    BY <1>2, <2>1 DEF HasCall, Message
  <2>2. CASE got.msg = Message(<<>>, Words(toks), tools)
    BY <2>2, MessageCalls
  <2> QED BY <1>2, <2>1, <2>2
<1>6. IsMsg(got.msg)
  BY <1>2 DEF IsMsg
<1>7. calls # <<>> <=> Len(calls) > 0
  BY <1>1
<1>8. pz.calls # <<>> <=> before > 0
  BY DEF before
<1>9. calls # <<>> <=> HasCall(got.msg) \/ pz.calls # <<>>
  BY <1>1, <1>3, <1>4, <1>5, <1>7, <1>8
<1> QED BY <1>1, <1>2, <1>6, <1>9 DEF got

LEMMA ContentTyped ==
    ASSUME NEW toks \in Seq(Token)
    PROVE  extract_content_ids(toks) \in Seq(Token)
<1>1. CASE is_reasoning_end(toks)
  <2>1. OfClass(toks, "E") # {} /\ OfClass(toks, "E") \subseteq Nat
    BY <1>1 DEF is_reasoning_end, OfClass
  <2>2. \E k \in OfClass(toks, "E") : \A j \in OfClass(toks, "E") : k <= j
    BY <2>1, LeastExists
  <2>3. FirstEnd(toks) \in Nat
    BY <2>1, <2>2 DEF FirstEnd
  <2>4. SubSeq(toks, FirstEnd(toks) + 1, Len(toks)) \in Seq(Token)
    BY <2>3
  <2> QED BY <1>1, <2>4 DEF extract_content_ids
<1>2. CASE ~is_reasoning_end(toks)
  BY <1>2 DEF extract_content_ids
<1> QED BY <1>1, <1>2

LEMMA ReasoningSaysNoCall ==
    ASSUME NEW previous, NEW delta
    PROVE  LET msg == extract_reasoning_streaming(previous, delta)
           IN  /\ IsMsg(msg) /\ ~HasCall(msg)
               /\ IsMsg(HideContent(msg)) /\ ~HasCall(HideContent(msg))
<1> DEFINE msg == extract_reasoning_streaming(previous, delta)
<1>1. msg = {} \/ \E r, c : msg = Message(r, c, <<>>)
  BY DEF extract_reasoning_streaming
<1> HIDE DEF msg
<1>2. CASE msg = {}
  BY <1>2 DEF IsMsg, HasCall, HideContent, msg
<1>3. CASE \E r, c : msg = Message(r, c, <<>>)
  <2>1. PICK r, c : msg = Message(r, c, <<>>)
    BY <1>3
  <2>2. HideContent(msg) = Message(r, <<>>, <<>>)
    BY <2>1 DEF HideContent, Message
  <2>3. IsMsg(msg) /\ IsMsg(HideContent(msg))
    BY <2>1, <2>2 DEF IsMsg
  <2>4. ~HasCall(msg) /\ ~HasCall(HideContent(msg))
    BY <2>1, <2>2, MessageCalls
  <2> QED BY <2>3, <2>4 DEF msg
<1> QED BY <1>1, <1>2, <1>3

(* What a delta leaves: the lane it was for, and a parser.  A call has     *)
(* been found afterwards if the delta says one or one had been found.      *)
Same(s, t) == t.num = s.num /\ t.sent = s.sent /\ t.tools = s.tools /\ t.named = s.named

DeltaOK(s, d) ==
    /\ IsLane(d.lane) /\ d.lane.num = s.num /\ d.lane.sent = s.sent
    /\ IsMsg(d.msg) /\ d.parser.calls \in Seq(Seq(Token))
    /\ LaneTools(d.lane, d.parser)
    /\ Mode # "named" =>
          (Found(d.lane, d.parser) <=> HasCall(d.msg) \/ Found(s, parser))

LEMMA LaneFields ==
    DOMAIN NewLane = {"num", "sent", "tools", "named", "prev", "ids", "rend", "added",
                      "echoed", "len"}
BY DEF NewLane

LEMMA LaneRend ==
    ASSUME NEW s, IsLane(s), NEW b
    PROVE  /\ IsLane([s EXCEPT !.rend = b]) /\ Same(s, [s EXCEPT !.rend = b])
           /\ [s EXCEPT !.rend = b].prev = s.prev
BY LaneFields DEF IsLane, Same

LEMMA LaneNamed ==
    ASSUME NEW s, IsLane(s), NEW n \in BOOLEAN, NEW t \in BOOLEAN
    PROVE  LET e == [s EXCEPT !.named = n, !.tools = t]
           IN  IsLane(e) /\ e.num = s.num /\ e.sent = s.sent /\ e.tools = t /\ e.named = n
BY LaneFields DEF IsLane

LEMMA DeltaIs ==
    ASSUME NEW s, IsLane(s), NEW msg, NEW pz, NEW prev \in Seq(Token), NEW ids
    PROVE  LET d == Delta(msg, s, pz, prev, ids)
           IN  d.msg = msg /\ d.parser = pz /\ IsLane(d.lane) /\ Same(s, d.lane)
BY LaneFields DEF IsLane, Same, Delta

(* A delta that says no call and leaves the parser and the flags alone. *)
LEMMA QuietDelta ==
    ASSUME NEW s, NEW t, NEW msg, NEW prev \in Seq(Token), NEW ids,
           IsLane(t), Same(s, t), IsMsg(msg), ~HasCall(msg),
           parser.calls \in Seq(Seq(Token)), LaneTools(s, parser)
    PROVE  DeltaOK(s, Delta(msg, t, parser, prev, ids))
<1> DEFINE d == Delta(msg, t, parser, prev, ids)
<1>1. d.msg = msg /\ d.parser = parser /\ IsLane(d.lane) /\ Same(t, d.lane)
  BY DeltaIs
<1> HIDE DEF d
<1>2. Same(s, d.lane)
  BY <1>1 DEF Same
<1>3. LaneTools(d.lane, parser)
  BY <1>2 DEF LaneTools, Same
<1>4. Found(d.lane, parser) <=> Found(s, parser)
  BY <1>2 DEF Found, Same
<1> QED BY <1>1, <1>2, <1>3, <1>4 DEF DeltaOK, Same, d

LEMMA ReasoningFirstOK ==
    ASSUME NEW s, NEW t, IsLane(t), Same(s, t), NEW toks \in Seq(Token),
           parser.calls \in Seq(Seq(Token)), LaneTools(s, parser)
    PROVE  DeltaOK(s, ReasoningFirst(t, toks))
<1> DEFINE msg == extract_reasoning_streaming(t.ids, toks)
           e == [t EXCEPT !.rend = TRUE]
<1>1. /\ IsMsg(msg) /\ ~HasCall(msg)
      /\ IsMsg(HideContent(msg)) /\ ~HasCall(HideContent(msg))
  BY ReasoningSaysNoCall
<1>2. IsLane(e) /\ Same(s, e)
  <2>1. IsLane(e) /\ Same(t, e)
    BY LaneRend
  <2> HIDE DEF e
  <2> QED BY <2>1 DEF Same
<1>3. extract_content_ids(toks) \in Seq(Token) /\ t.prev \o toks \in Seq(Token)
  BY ContentTyped DEF IsLane
<1>4. \/ ReasoningFirst(t, toks) =
             Delta(HideContent(msg), e, parser, extract_content_ids(toks), t.ids \o toks)
      \/ ReasoningFirst(t, toks) = Delta(msg, t, parser, t.prev \o toks, t.ids \o toks)
  BY DEF ReasoningFirst
<1> HIDE DEF msg, e
<1> QED BY <1>1, <1>2, <1>3, <1>4, QuietDelta

LEMMA NamedOK ==
    ASSUME NEW i, NEW s, IsLane(s), NEW toks \in Seq(Token), Mode = "named",
           parser.calls \in Seq(Seq(Token)), LaneTools(s, parser)
    PROVE  DeltaOK(s, NamedDelta(i, s, toks))
<1> DEFINE t == [s EXCEPT !.rend = @ \/ (server.reasoning /\ prompt_is_reasoning_end)]
           kept == IF server.reasoning THEN t.prev \o toks ELSE toks
           e == [t EXCEPT !.named = TRUE, !.tools = TRUE]
           prev == IF server.reasoning THEN <<>> ELSE t.prev \o toks
           msg == Message(<<>>, <<>>, <<[idx |-> i + 1, name |-> ~t.named, args |-> kept]>>)
<1>1. IsLane(t) /\ Same(s, t) /\ t.prev = s.prev
  BY LaneRend
<1>2. \/ NamedDelta(i, s, toks) = ReasoningFirst(t, toks)
      \/ NamedDelta(i, s, toks) = Delta(msg, e, parser, prev, t.ids \o toks)
  BY DEF NamedDelta
<1> HIDE DEF t
<1>3. TRUE \in BOOLEAN
  OBVIOUS
<1>4. IsLane(e) /\ e.num = t.num /\ e.sent = t.sent
  BY <1>1, <1>3, LaneNamed
<1>5. prev \in Seq(Token)
  BY <1>1 DEF IsLane
<1> HIDE DEF e, prev
<1>6. CASE NamedDelta(i, s, toks) = ReasoningFirst(t, toks)
  BY <1>1, <1>6, ReasoningFirstOK
<1>7. CASE NamedDelta(i, s, toks) = Delta(msg, e, parser, prev, t.ids \o toks)
  <2> DEFINE d == NamedDelta(i, s, toks)
  <2>1. IsMsg(msg)
    BY DEF IsMsg
  <2> HIDE DEF msg
  <2>2. d.msg = msg /\ d.parser = parser /\ IsLane(d.lane) /\ Same(e, d.lane)
    BY <1>4, <1>5, <1>7, DeltaIs
  <2> HIDE DEF d
  <2>3. d.lane.num = s.num /\ d.lane.sent = s.sent
    BY <1>1, <1>4, <2>2 DEF Same
  <2>4. LaneTools(d.lane, parser)
    BY DEF LaneTools
  <2> QED BY <2>1, <2>2, <2>3, <2>4 DEF DeltaOK, d
<1> QED BY <1>2, <1>6, <1>7

LEMMA RequiredOK ==
    ASSUME NEW s, IsLane(s), NEW toks \in Seq(Token), Mode = "required",
           parser.calls \in Seq(Seq(Token)), LaneTools(s, parser)
    PROVE  DeltaOK(s, RequiredDelta(s, toks))
<1> DEFINE t == [s EXCEPT !.rend = @ \/ (server.reasoning /\ prompt_is_reasoning_end)]
           got == extract_tool_call_required_streaming(t.prev, t.prev \o toks, toks, t.named)
           says == t.tools \/ \E m \in got.msg : m.tools[1].name
           e == [t EXCEPT !.named = got.named, !.tools = says]
<1>1. IsLane(t) /\ Same(s, t) /\ t.prev = s.prev
  BY LaneRend
<1>2. \/ RequiredDelta(s, toks) = ReasoningFirst(t, toks)
      \/ RequiredDelta(s, toks) = Delta(got.msg, e, parser, t.prev \o toks, t.ids \o toks)
  BY DEF RequiredDelta
<1> HIDE DEF t
<1>3. t.named \in BOOLEAN /\ t.tools \in BOOLEAN /\ t.prev \o toks \in Seq(Token)
  BY <1>1 DEF IsLane
<1>4. \/ got.msg = {} /\ got.named \in {t.named, FALSE, TRUE} /\ (got.named => t.named)
      \/ /\ got.named = TRUE
         /\ \E idx, name, args :
               /\ got.msg = Message(<<>>, <<>>, <<[idx |-> idx, name |-> name, args |-> args]>>)
               /\ name = ~t.named
  <2> DEFINE P == t.prev
             C == t.prev \o toks
             obj == PartialJson(C)
             filtered == _filter_delta_text(toks, P)
             begun == _filter_delta_text(Parameters(C), P).out
             Of(name, args) == Message(<<>>, <<>>, <<[idx |-> obj.count, name |-> name, args |-> args]>>)
  <2>1. \/ got = [msg |-> {}, named |-> IF C = <<>> THEN t.named ELSE FALSE]
        \/ ~t.named /\ got = [msg |-> Of(TRUE, begun), named |-> TRUE]
        \/ t.named /\ got = [msg |-> IF filtered.out = <<>> THEN {} ELSE Of(FALSE, filtered.out),
                             named |-> TRUE]
    BY DEF extract_tool_call_required_streaming
  <2> HIDE DEF got, obj, filtered, begun
  <2>2. CASE got = [msg |-> {}, named |-> IF C = <<>> THEN t.named ELSE FALSE]
    BY <1>3, <2>2
  <2>3. CASE ~t.named /\ got = [msg |-> Of(TRUE, begun), named |-> TRUE]
    <3>1. got.named = TRUE /\ got.msg = Of(TRUE, begun) /\ TRUE = ~t.named
      BY <1>3, <2>3
    <3> QED BY <3>1
  <2>4. CASE t.named /\ got = [msg |-> IF filtered.out = <<>> THEN {} ELSE Of(FALSE, filtered.out),
                               named |-> TRUE]
    <3>1. /\ got.named = TRUE /\ FALSE = ~t.named
          /\ got.msg = {} \/ got.msg = Of(FALSE, filtered.out)
      BY <1>3, <2>4
    <3> QED BY <2>4, <3>1
  <2> QED BY <2>1, <2>2, <2>3, <2>4
<1> HIDE DEF got
<1>5. /\ got.named \in BOOLEAN /\ IsMsg(got.msg)
      /\ t.tools \/ HasCall(got.msg) <=> says
      /\ got.named => says
  <2>0. t.named => t.tools
    BY <1>1 DEF LaneTools, Same
  <2>1. CASE got.msg = {} /\ got.named \in {t.named, FALSE, TRUE} /\ (got.named => t.named)
    BY <1>3, <2>0, <2>1 DEF IsMsg, HasCall
  <2>2. CASE /\ got.named = TRUE
             /\ \E idx, name, args :
                   /\ got.msg = Message(<<>>, <<>>, <<[idx |-> idx, name |-> name, args |-> args]>>)
                   /\ name = ~t.named
    <3>1. PICK idx, name, args :
             /\ got.msg = Message(<<>>, <<>>, <<[idx |-> idx, name |-> name, args |-> args]>>)
             /\ name = ~t.named
      BY <2>2
    <3> DEFINE call == [idx |-> idx, name |-> name, args |-> args]
               m == [r |-> <<>>, c |-> <<>>, tools |-> <<call>>]
    <3>2. got.msg = {m} /\ m.tools = <<call>> /\ call.name = name
      BY <3>1 DEF Message
    <3> HIDE DEF m, call
    <3>3. <<call>> # <<>> /\ <<call>>[1] = call
      OBVIOUS
    <3>4. (\E x \in got.msg : x.tools[1].name) <=> name
      BY <3>2, <3>3
    <3>5. HasCall(got.msg)
      BY <3>2, <3>3 DEF HasCall
    <3>6. IsMsg(got.msg)
      BY <3>1 DEF IsMsg
    <3>7. says
      BY <1>3, <2>0, <3>1, <3>4
    <3> HIDE DEF says
    <3> QED BY <2>2, <3>5, <3>6, <3>7
  <2> QED BY <1>4, <2>1, <2>2
<1>6. says \in BOOLEAN
  BY <1>3
<1> HIDE DEF says
<1>7. /\ IsLane(e) /\ e.num = t.num /\ e.sent = t.sent /\ e.tools = says
      /\ e.named = got.named
  <2> DEFINE n == got.named
  <2>1. n \in BOOLEAN
    BY <1>5
  <2>2. e = [t EXCEPT !.named = n, !.tools = says]
    OBVIOUS
  <2> HIDE DEF n, e
  <2>3. PICK a, b \in BOOLEAN : a = n /\ b = says
    BY <1>6, <2>1
  <2>4. e = [t EXCEPT !.named = a, !.tools = b]
    BY <2>2, <2>3
  <2>5. IsLane(e) /\ e.num = t.num /\ e.sent = t.sent /\ e.tools = b /\ e.named = a
    BY <1>1, <2>3, <2>4, LaneFields DEF IsLane
  <2> QED BY <2>3, <2>5 DEF n
<1> HIDE DEF e
<1>8. CASE RequiredDelta(s, toks) = ReasoningFirst(t, toks)
  BY <1>1, <1>8, ReasoningFirstOK
<1>9. CASE RequiredDelta(s, toks) = Delta(got.msg, e, parser, t.prev \o toks, t.ids \o toks)
  <2> DEFINE d == RequiredDelta(s, toks)
  <2>1. d.msg = got.msg /\ d.parser = parser /\ IsLane(d.lane) /\ Same(e, d.lane)
    <3> DEFINE msg == got.msg
               prev == t.prev \o toks
               ids == t.ids \o toks
    <3>1. d = Delta(msg, e, parser, prev, ids) /\ prev \in Seq(Token) /\ IsLane(e)
      BY <1>3, <1>7, <1>9
    <3> HIDE DEF msg, prev, ids, d
    <3>2. d.msg = msg /\ d.parser = parser /\ IsLane(d.lane) /\ Same(e, d.lane)
      BY <3>1, DeltaIs
    <3> QED BY <3>2 DEF msg
  <2> HIDE DEF d
  <2>2. /\ d.lane.num = s.num /\ d.lane.sent = s.sent
        /\ d.lane.tools = says /\ d.lane.named = got.named
    BY <1>1, <1>7, <2>1 DEF Same
  <2>3. LaneTools(d.lane, parser)
    BY <1>5, <2>2 DEF LaneTools
  <2>4. Found(d.lane, parser) <=> HasCall(got.msg) \/ Found(s, parser)
    <3>1. Found(s, parser) <=> t.tools
      BY <1>1 DEF Found, Same
    <3>2. Found(d.lane, parser) <=> says
      BY <2>2 DEF Found
    <3> QED BY <1>5, <3>1, <3>2
  <2> QED BY <1>5, <2>1, <2>2, <2>3, <2>4 DEF DeltaOK, d
<1> QED BY <1>2, <1>8, <1>9

LEMMA ToolsOK ==
    ASSUME NEW s, NEW t, IsLane(s), IsLane(t), t.num = s.num, t.sent = s.sent,
           NEW toks \in Seq(Token), Mode = "auto", NEW prev \in Seq(Token), NEW ids,
           parser.calls \in Seq(Seq(Token)), LaneTools(s, parser),
           LET got == extract_tool_calls_streaming(parser, toks, server.lag)
           IN  t.tools => s.tools \/ HasCall(got.msg)
    PROVE  LET got == extract_tool_calls_streaming(parser, toks, server.lag)
           IN  DeltaOK(s, Delta(got.msg, t, got.parser, prev, ids))
<1> DEFINE lag == server.lag
           got == extract_tool_calls_streaming(parser, toks, lag)
           msg == got.msg
           pz == got.parser
           d == Delta(msg, t, pz, prev, ids)
<1>1. /\ IsMsg(msg) /\ pz.calls \in Seq(Seq(Token))
      /\ pz.calls # <<>> <=> HasCall(msg) \/ parser.calls # <<>>
  BY ToolsStreamed
<1>2. t.tools => s.tools \/ HasCall(msg)
  OBVIOUS
<1> HIDE DEF msg, pz, got, lag
<1>3. d.msg = msg /\ d.parser = pz /\ IsLane(d.lane) /\ Same(t, d.lane)
  BY DeltaIs
<1> HIDE DEF d
<1>4. s.tools => parser.calls # <<>>
  BY DEF LaneTools
<1>5. LaneTools(d.lane, pz)
  BY <1>1, <1>2, <1>3, <1>4 DEF LaneTools, Same
<1>6. Found(d.lane, pz) <=> HasCall(msg) \/ Found(s, parser)
  BY <1>1 DEF Found
<1> QED BY <1>1, <1>3, <1>5, <1>6 DEF DeltaOK, Same, d, msg, pz, got, lag

LEMMA AutoOK ==
    ASSUME NEW s, IsLane(s), NEW toks \in Seq(Token), Mode = "auto",
           parser.calls \in Seq(Seq(Token)), LaneTools(s, parser)
    PROVE  DeltaOK(s, AutoDelta(s, toks))
<1> DEFINE ends == ~prompt_is_reasoning_end /\ is_reasoning_end(toks)
           t == [s EXCEPT !.rend = @ \/ prompt_is_reasoning_end \/ ends]
           current == IF ends /\ ~s.rend THEN extract_content_ids(toks) ELSE s.prev \o toks
           ids == IF s.rend \/ ~t.rend THEN s.ids \o toks
                  ELSE IF ends THEN extract_content_ids(toks) ELSE toks
           feed == IF ~server.reasoning \/ t.added THEN toks ELSE current
           got == extract_tool_calls_streaming(parser, feed, server.lag)
           called == \E x \in got.msg : x.tools # <<>>
           e == [s EXCEPT !.tools = @ \/ called]
           f == [t EXCEPT !.added = TRUE, !.tools = @ \/ called]
           thought == extract_reasoning_streaming(s.ids, toks)
<1>1. \/ AutoDelta(s, toks) = Delta(got.msg, e, got.parser, s.prev \o toks, s.ids \o toks)
      \/ AutoDelta(s, toks) = Delta(thought, t, parser, current, ids)
      \/ AutoDelta(s, toks) = Delta(got.msg, f, got.parser, current, ids)
  BY DEF AutoDelta
<1>2. IsLane(t) /\ Same(s, t)
  BY LaneRend
<1>3. /\ current \in Seq(Token) /\ feed \in Seq(Token)
      /\ s.prev \o toks \in Seq(Token) /\ s.tools \in BOOLEAN
  BY ContentTyped DEF IsLane
<1>4. called <=> HasCall(got.msg)
  BY DEF HasCall
<1>5. IsMsg(thought) /\ ~HasCall(thought)
  BY ReasoningSaysNoCall
<1> HIDE DEF t, current, ids, feed, thought
<1> DEFINE says == s.tools \/ called
<1>6. says \in BOOLEAN /\ (says <=> s.tools \/ HasCall(got.msg))
  BY <1>3, <1>4
<1>7. e = [s EXCEPT !.tools = says] /\ f = [t EXCEPT !.added = TRUE, !.tools = says]
  BY <1>2 DEF Same
<1> HIDE DEF e, f, says
<1>8. IsLane(e) /\ e.num = s.num /\ e.sent = s.sent /\ e.tools = says
  BY <1>6, <1>7, LaneFields DEF IsLane
<1>9. IsLane(f) /\ f.num = s.num /\ f.sent = s.sent /\ f.tools = says
  BY <1>2, <1>6, <1>7, LaneFields DEF IsLane, Same
<1>10. CASE AutoDelta(s, toks) = Delta(got.msg, e, got.parser, s.prev \o toks, s.ids \o toks)
  BY <1>3, <1>6, <1>8, <1>10, ToolsOK
<1>11. CASE AutoDelta(s, toks) = Delta(thought, t, parser, current, ids)
  BY <1>2, <1>3, <1>5, <1>11, QuietDelta
<1>12. CASE AutoDelta(s, toks) = Delta(got.msg, f, got.parser, current, ids)
  BY <1>3, <1>6, <1>9, <1>12, ToolsOK
<1> QED BY <1>1, <1>10, <1>11, <1>12

LEMMA HarmonyOK ==
    ASSUME NEW s, IsLane(s), NEW toks \in Seq(Token), Mode = "harmony",
           parser.calls \in Seq(Seq(Token)), LaneTools(s, parser)
    PROVE  DeltaOK(s, HarmonyDelta(s, toks))
<1> DEFINE r == IF is_reasoning_end(s.prev) THEN <<>> ELSE Words(Reasoning(toks))
           c == IF is_reasoning_end(s.prev) THEN Words(toks) ELSE Words(extract_content_ids(toks))
           got == extract_tool_calls_streaming([calls |-> ParsedCalls(<<>>, s.prev),
                                                streamed |-> ParsedCalls(<<>>, s.prev)], toks, 0)
           calls == {m.tools : m \in got.msg} \ {<<>>}
           shown == IF req.include_reasoning THEN r ELSE <<>>
           tools == IF calls = {} THEN <<>> ELSE CHOOSE t \in calls : TRUE
           msg == IF shown = <<>> /\ c = <<>> /\ calls = {} THEN {} ELSE Message(shown, c, tools)
           e == [s EXCEPT !.tools = @ \/ calls # {}]
           prev == s.prev \o toks
           ids == s.ids \o toks
           d == HarmonyDelta(s, toks)
<1>1. d = Delta(msg, e, parser, prev, ids)
  BY DEF HarmonyDelta
<1>2. <<>> \notin calls
  <2> HIDE DEF got
  <2> QED OBVIOUS
<1>3. prev \in Seq(Token) /\ s.tools \in BOOLEAN
  BY DEF IsLane
<1> HIDE DEF r, c, calls, shown, prev, ids, d
<1>4. tools # <<>> <=> calls # {}
  BY <1>2
<1> HIDE DEF tools
<1>5. IsMsg(msg) /\ (HasCall(msg) <=> calls # {})
  <2>1. CASE msg = {} /\ calls = {}
    BY <2>1 DEF IsMsg, HasCall
  <2>2. CASE msg = Message(shown, c, tools)
    BY <1>4, <2>2, MessageCalls DEF IsMsg
  <2> QED BY <2>1, <2>2
<1>6. IsLane(e) /\ e.num = s.num /\ e.sent = s.sent /\ (e.tools <=> s.tools \/ calls # {})
      /\ e.named = s.named
  BY <1>3, LaneFields DEF IsLane
<1> HIDE DEF msg, e
<1>7. d.msg = msg /\ d.parser = parser /\ IsLane(d.lane) /\ Same(e, d.lane)
  BY <1>1, <1>3, <1>6, DeltaIs
<1>8. LaneTools(d.lane, parser)
  BY DEF LaneTools
<1>9. Found(d.lane, parser) <=> HasCall(msg) \/ Found(s, parser)
  BY <1>5, <1>6, <1>7 DEF Found, Same
<1> QED BY <1>5, <1>6, <1>7, <1>8, <1>9 DEF DeltaOK, Same, d

(* Every branch of chat_completion_stream_generator. *)
LEMMA ChatDeltaOK ==
    ASSUME NEW i, NEW s, IsLane(s), NEW toks \in Seq(Token),
           Mode \in Modes, Mode # "completion",
           parser.calls \in Seq(Seq(Token)), LaneTools(s, parser)
    PROVE  DeltaOK(s, ChatDelta(i, s, toks))
<1>0. s.prev \o toks \in Seq(Token) /\ Same(s, s)
  BY DEF IsLane, Same
<1>1. CASE Mode = "harmony"
  BY <1>1, HarmonyOK DEF ChatDelta
<1>2. CASE Mode = "named"
  BY <1>2, NamedOK DEF ChatDelta
<1>3. CASE Mode = "required"
  BY <1>3, RequiredOK DEF ChatDelta
<1>4. CASE Mode = "auto"
  BY <1>4, AutoOK DEF ChatDelta
<1>5. CASE Mode = "reasoning"
  <2> DEFINE msg == IF prompt_is_reasoning_end THEN Message(<<>>, toks, <<>>)
                    ELSE extract_reasoning_streaming(s.ids, toks)
  <2>1. ChatDelta(i, s, toks) = Delta(msg, s, parser, s.prev \o toks, s.ids \o toks)
    BY <1>5 DEF ChatDelta, ReasoningDelta
  <2>2. IsMsg(msg) /\ ~HasCall(msg)
    BY ReasoningSaysNoCall, MessageCalls DEF IsMsg
  <2> HIDE DEF msg
  <2> QED BY <1>0, <2>1, <2>2, QuietDelta
<1>6. CASE Mode = "plain"
  <2> DEFINE msg == Message(<<>>, toks, <<>>)
  <2>1. ChatDelta(i, s, toks) = Delta(msg, s, parser, s.prev \o toks, s.ids \o toks)
    BY <1>6 DEF ChatDelta
  <2>2. IsMsg(msg) /\ ~HasCall(msg)
    BY MessageCalls DEF IsMsg
  <2> HIDE DEF msg
  <2> QED BY <1>0, <2>1, <2>2, QuietDelta
<1> QED BY <1>1, <1>2, <1>3, <1>4, <1>5, <1>6 DEF Modes

-----------------------------------------------------------------------------
(* The engine.                                                             *)

Old(i) == IF pending[i] = {} THEN <<>> ELSE (CHOOSE o \in pending[i] : TRUE).toks

LEMMA HeldIs ==
    ASSUME EngineOK, NEW i \in Lanes
    PROVE  /\ Old(i) \in Seq(Token) /\ Held(i) = Len(Old(i)) /\ Held(i) \in Nat
           /\ pending[i] = {} => Held(i) = 0
           /\ \A o \in pending[i] : Held(i) = Len(o.toks)
<1>1. CASE pending[i] = {}
  BY <1>1 DEF Old, Held
<1>2. CASE pending[i] # {}
  <2>1. PICK o : o \in pending[i]
    BY <1>2
  <2>2. pending[i] = {o} /\ o.toks \in Seq(Token)
    BY <2>1 DEF EngineOK, Deposited
  <2>3. (CHOOSE x \in pending[i] : TRUE) = o
    BY <2>2
  <2>4. Old(i) = o.toks /\ Held(i) = Len(o.toks)
    BY <1>2, <2>3 DEF Old, Held
  <2> QED BY <1>2, <2>2, <2>4
<1> QED BY <1>1, <1>2

(* An engine step: tokens are added to what a lane has pending. *)
Added(i, toks, fin) ==
    /\ UNCHANGED <<req, server, text>>
    /\ ended[i] = "" /\ toks \in Seq(Token) /\ fin \in Fins
    /\ fin \in {"stop", "length"} => toks # <<>>
    /\ made[i] + Len(toks) <= Len(text[i])
    /\ fin = "stop" => made[i] + Len(toks) = Len(text[i])
    /\ pending' = [pending EXCEPT ![i] = {[toks |-> Old(i) \o toks, fin |-> fin]}]
    /\ made' = [made EXCEPT ![i] = @ + Len(toks)]
    /\ ended' = [ended EXCEPT ![i] = fin]

LEMMA AddedEngine ==
    ASSUME EngineOK, NEW i \in Lanes, NEW toks, NEW fin, Added(i, toks, fin)
    PROVE  /\ EngineOK'
           /\ Held(i)' = Held(i) + Len(toks) /\ made'[i] = made[i] + Len(toks)
           /\ pending'[i] # {} /\ Len(toks) \in Nat
           /\ \A j \in Lanes \ {i} : /\ Held(j)' = Held(j) /\ made'[j] = made[j]
                                     /\ pending'[j] = pending[j] /\ ended'[j] = ended[j]
<1>1. Lanes' = Lanes
  BY SameRequest DEF Added
<1>2. Old(i) \in Seq(Token) /\ Held(i) = Len(Old(i)) /\ Held(i) \in Nat
  BY HeldIs
<1> DEFINE new == Old(i) \o toks
           out == [toks |-> new, fin |-> fin]
<1>3. /\ toks \in Seq(Token) /\ new \in Seq(Token) /\ Len(new) = Len(Old(i)) + Len(toks)
      /\ (toks # <<>> => new # <<>>) /\ Len(toks) \in Nat
  <2>1. toks \in Seq(Token)
    BY DEF Added
  <2>2. /\ new \in Seq(Token) /\ Len(new) = Len(Old(i)) + Len(toks)
        /\ Len(toks) \in Nat /\ Len(Old(i)) \in Nat
    BY <1>2, <2>1
  <2>3. toks # <<>> => Len(toks) > 0
    BY <2>1
  <2>4. new = <<>> => Len(new) = 0
    OBVIOUS
  <2> HIDE DEF new
  <2> QED BY <2>1, <2>2, <2>3, <2>4
<1>4. /\ pending' = [pending EXCEPT ![i] = {out}] /\ text' = text
      /\ made' = [made EXCEPT ![i] = @ + Len(toks)] /\ ended' = [ended EXCEPT ![i] = fin]
      /\ fin \in Fins /\ (fin \in {"stop", "length"} => toks # <<>>)
      /\ made[i] + Len(toks) <= Len(text[i])
      /\ (fin = "stop" => made[i] + Len(toks) = Len(text[i]))
  BY DEF Added
<1> HIDE DEF new
<1>5. out.toks = new /\ out.fin = fin
  OBVIOUS
<1> HIDE DEF out
<1>6. /\ pending'[i] = {out} /\ made'[i] = made[i] + Len(toks) /\ ended'[i] = fin
      /\ \A j \in Lanes \ {i} : /\ pending'[j] = pending[j] /\ made'[j] = made[j]
                                /\ ended'[j] = ended[j]
      /\ DOMAIN pending' = Lanes /\ DOMAIN made' = Lanes /\ DOMAIN ended' = Lanes
  BY <1>4 DEF EngineOK
<1>7. Held(i)' = Len(new)
  <2>1. (CHOOSE o \in {out} : TRUE) = out
    OBVIOUS
  <2> QED BY <1>5, <1>6, <2>1 DEF Held
<1>8. \A j \in Lanes \ {i} : Held(j)' = Held(j)
  <2> TAKE j \in Lanes \ {i}
  <2>1. pending'[j] = pending[j]
    BY <1>6
  <2> QED BY <2>1 DEF Held
<1>9. Deposited(i)'
  BY <1>3, <1>4, <1>5, <1>6 DEF Deposited
<1>10. \A j \in Lanes \ {i} : Deposited(j)'
  BY <1>6 DEF Deposited, EngineOK
<1>11. \A j \in Lanes : /\ made'[j] <= Len(text'[j])
                        /\ ended'[j] = "stop" => made'[j] = Len(text'[j])
  <2> TAKE j \in Lanes
  <2>1. CASE j = i
    BY <1>3, <1>4, <1>6, <2>1 DEF EngineOK
  <2>2. CASE j # i
    BY <1>4, <1>6, <2>2 DEF EngineOK
  <2> QED BY <2>1, <2>2
<1>12. EngineOK'
  <2>1. made' \in [Lanes -> Nat] /\ ended' \in [Lanes -> Fins]
    <3>1. made[i] + Len(toks) \in Nat
      BY <1>3 DEF EngineOK
    <3> QED BY <1>4, <3>1 DEF EngineOK
  <2> QED BY <1>1, <1>4, <1>6, <1>9, <1>10, <1>11, <2>1 DEF EngineOK
<1> QED BY <1>2, <1>3, <1>6, <1>7, <1>8, <1>12

LEMMA GenerateAdds ==
    ASSUME EngineOK, NEW i \in Lanes, Generate(i)
    PROVE  \E toks, fin : Added(i, toks, fin)
<1> DEFINE t == text[i][made[i] + 1]
           fin == FinishAt(i, made[i] + 1)
<1>1. ended[i] = "" /\ made[i] < Len(text[i]) /\ made[i] \in Nat /\ text[i] \in Seq(Token)
  BY DEF Generate, EngineOK
<1>2. t \in Token
  <2> DEFINE m == made[i]
             x == text[i]
  <2>1. m \in Nat /\ x \in Seq(Token) /\ m < Len(x)
    BY <1>1
  <2> HIDE DEF m, x
  <2>2. m + 1 \in 1 .. Len(x)
    BY <2>1
  <2>3. x[m + 1] \in Token
    BY <2>1, <2>2
  <2> QED BY <2>3 DEF m, x
<1>3. /\ fin \in Fins
      /\ fin = "stop" => made[i] + 1 = Len(text[i])
  BY DEF FinishAt, Fins
<1>4. /\ Deposit(i, <<t>>, fin) /\ made' = [made EXCEPT ![i] = @ + 1]
      /\ ended' = [ended EXCEPT ![i] = fin] /\ UNCHANGED <<req, server, text>>
  BY DEF Generate
<1> HIDE DEF t, fin
<1>5. <<t>> \in Seq(Token) /\ <<t>> # <<>> /\ Len(<<t>>) = 1
  BY <1>2
<1>6. pending' = [pending EXCEPT ![i] = {[toks |-> Old(i) \o <<t>>, fin |-> fin]}]
  BY <1>4 DEF Deposit, Old
<1>7. made[i] + Len(<<t>>) <= Len(text[i])
  <2> DEFINE m == made[i]
             n == Len(text[i])
  <2>1. m \in Nat /\ n \in Nat /\ m < n
    BY <1>1, LenProperties
  <2> HIDE DEF m, n
  <2>2. m + 1 <= n
    BY ONLY <2>1
  <2> QED BY <1>5, <2>2 DEF m, n
<1> QED BY <1>1, <1>3, <1>4, <1>5, <1>6, <1>7 DEF Added

LEMMA PrefillAdds ==
    ASSUME EngineOK, NEW i \in Lanes, Prefill(i)
    PROVE  Added(i, <<>>, "")
<1>1. /\ ended[i] = "" /\ Deposit(i, <<>>, "") /\ UNCHANGED <<req, server, text, made, ended>>
  BY DEF Prefill
<1>2. pending' = [pending EXCEPT ![i] = {[toks |-> Old(i) \o <<>>, fin |-> ""]}]
  BY <1>1 DEF Deposit, Old
<1>3. made \in [Lanes -> Nat] /\ ended \in [Lanes -> Fins]
  BY DEF EngineOK
<1>4. <<>> \in Seq(Token) /\ Len(<<>>) = 0
  OBVIOUS
<1>5. made' = [made EXCEPT ![i] = @ + Len(<<>>)]
  <2>1. made[i] + Len(<<>>) = made[i]
    BY <1>3, <1>4
  <2> QED BY <1>1, <1>3, <2>1
<1>6. ended' = [ended EXCEPT ![i] = ""]
  BY <1>1, <1>3
<1>7. made[i] + Len(<<>>) <= Len(text[i])
  BY <1>3, <1>4 DEF EngineOK
<1> QED BY <1>1, <1>2, <1>4, <1>5, <1>6, <1>7 DEF Added, Fins

LEMMA FailAdds ==
    ASSUME EngineOK, NEW i \in Lanes, Fail(i)
    PROVE  Added(i, <<>>, "error")
<1>1. /\ ended[i] = "" /\ Deposit(i, <<>>, "error") /\ ended' = [ended EXCEPT ![i] = "error"]
      /\ UNCHANGED <<req, server, text, made>>
  BY DEF Fail
<1>2. pending' = [pending EXCEPT ![i] = {[toks |-> Old(i) \o <<>>, fin |-> "error"]}]
  BY <1>1 DEF Deposit, Old
<1>3. made \in [Lanes -> Nat]
  BY DEF EngineOK
<1>4. <<>> \in Seq(Token) /\ Len(<<>>) = 0
  OBVIOUS
<1>5. made' = [made EXCEPT ![i] = @ + Len(<<>>)]
  <2>1. made[i] + Len(<<>>) = made[i]
    BY <1>3, <1>4
  <2> QED BY <1>1, <1>3, <2>1
<1>6. made[i] + Len(<<>>) <= Len(text[i])
  BY <1>3, <1>4 DEF EngineOK
<1> QED BY <1>1, <1>2, <1>4, <1>5, <1>6 DEF Added, Fins

-----------------------------------------------------------------------------
(* The stream.  What FinishesRight says of the chunks before the end.      *)

LastWord ==
    \A k \in DOMAIN sent : sent[k].fin # "" =>
        \A j \in (k + 1) .. Len(sent) : sent[j].i # sent[k].i

Counted ==
    \A k \in DOMAIN sent : \A u \in sent[k].usage :
        /\ sent[k].fin # "" => u.completion = made[sent[k].i]
        /\ \A j \in 1 .. k - 1 : \A v \in sent[j].usage :
              sent[j].i = sent[k].i => v.completion <= u.completion

SoFar == LastWord /\ Counted /\ ToolFinish

LEMMA SoFarIs ==
    ASSUME phase = "streaming", ChunkOK, usage = {}
    PROVE  FinishesRight <=> SoFar
<1>1. \A k \in DOMAIN sent : sent[k].kind # "done"
  BY DEF ChunkOK
<1>2. FinishOnce <=> LastWord
  BY <1>1 DEF FinishOnce, LastWord
<1>3. UsageAddsUp <=> Counted
  BY DEF UsageAddsUp, Counted
<1> QED BY <1>2, <1>3 DEF FinishesRight, SoFar

(* The tool calls of the chunks are judged from the chunks. *)
LEMMA SameTools ==
    ASSUME UNCHANGED <<req, server, sent>>
    PROVE  ToolFinish' <=> ToolFinish
<1>1. Mode' = Mode /\ \A i : Sharers(i)' = Sharers(i)
  BY SameRequest
<1> QED BY <1>1 DEF ToolFinish

LEMMA SameSoFar ==
    ASSUME UNCHANGED <<req, server, sent>>, ChunkOK, SoFar,
           \A i \in Lanes : Over(i) => made'[i] = made[i]
    PROVE  SoFar'
<1>1. ToolFinish'
  BY SameTools DEF SoFar
<1>2. LastWord'
  BY DEF SoFar, LastWord
<1>3. Counted'
  <2>1. \A k \in DOMAIN sent : sent[k].fin # "" => made'[sent[k].i] = made[sent[k].i]
    BY DEF ChunkOK
  <2> QED BY <2>1 DEF SoFar, Counted
<1> QED BY <1>1, <1>2, <1>3 DEF SoFar

LEMMA AddedStream ==
    ASSUME StreamOK, SoFar, NEW i \in Lanes, NEW toks, NEW fin, Added(i, toks, fin),
           UNCHANGED <<res, first, lane, parser, sent, usage>>
    PROVE  StreamOK' /\ SoFar'
<1>1. /\ EngineOK'
      /\ Held(i)' = Held(i) + Len(toks) /\ made'[i] = made[i] + Len(toks)
      /\ pending'[i] # {} /\ Len(toks) \in Nat
      /\ \A j \in Lanes \ {i} : /\ Held(j)' = Held(j) /\ made'[j] = made[j]
                                /\ pending'[j] = pending[j] /\ ended'[j] = ended[j]
  BY AddedEngine DEF StreamOK
<1>2. ended[i] = "" /\ req' = req /\ server' = server
  BY DEF Added
<1>3. Lanes' = Lanes /\ Mode' = Mode /\ \A j : Sharers(j)' = Sharers(j)
  BY <1>2, SameRequest
<1>4. \A j \in Lanes : Over(j)' <=> Over(j)
  <2> TAKE j \in Lanes
  <2>1. InRes(j)' <=> InRes(j)
    BY DEF InRes
  <2>2. CASE j = i
    BY <1>1, <1>2, <2>2 DEF Over
  <2>3. CASE j # i
    BY <1>1, <2>1, <2>3 DEF Over
  <2> QED BY <2>2, <2>3
<1>5. \A j \in Lanes : Over(j) => made'[j] = made[j] /\ ended'[j] = ended[j]
  BY <1>1, <1>2 DEF Over
<1>6. ResOK'
  <2>1. \A o \in res : o.fin = IF pending'[o.i] = {} THEN ended'[o.i] ELSE ""
    BY <1>1, <1>2 DEF StreamOK, ResOK
  <2> QED BY <1>3, <2>1 DEF StreamOK, ResOK
<1>7. CountOK'
  <2>1. EngineOK /\ CountOK /\ LaneOK /\ ResOK
    BY DEF StreamOK
  <2>2. \A j \in Lanes : Held(j) \in Nat
    BY <2>1, HeldIs
  <2>3. \A j \in Lanes : made[j] \in Nat /\ lane[j].num \in Nat
    BY <2>1 DEF EngineOK, LaneOK, IsLane
  <2>4. \A j \in Lanes, n \in Nat :
            made[j] = lane[j].num + n + Held(j) => made'[j] = lane[j].num + n + Held(j)'
    <3> TAKE j \in Lanes, n \in Nat
    <3>1. CASE j = i
      BY <1>1, <2>2, <2>3, <3>1
    <3>2. CASE j # i
      BY <1>1, <3>2
    <3> QED BY <3>1, <3>2
  <2>5. \A o \in res : made'[o.i] = lane[o.i].num + Len(o.toks) + Held(o.i)'
    <3> TAKE o \in res
    <3>1. o.i \in Lanes /\ o.toks \in Seq(Token)
      BY <2>1 DEF ResOK
    <3>2. Len(o.toks) \in Nat
      BY <3>1
    <3>3. made[o.i] = lane[o.i].num + Len(o.toks) + Held(o.i)
      BY <2>1 DEF CountOK
    <3> QED BY <2>4, <3>1, <3>2, <3>3
  <2>6. ASSUME NEW j \in Lanes, ~InRes(j) PROVE made'[j] = lane[j].num + Held(j)'
    <3>1. made[j] = lane[j].num + Held(j)
      BY <2>1, <2>6 DEF CountOK
    <3>2. made'[j] = lane[j].num + 0 + Held(j)'
      BY <2>2, <2>3, <2>4, <3>1
    <3>3. lane[j].num + 0 = lane[j].num
      BY <2>3
    <3> QED BY <3>2, <3>3
  <2> QED BY <1>3, <2>5, <2>6 DEF CountOK, InRes
<1>8. LaneOK'
  <2>1. \A j \in Lanes : Finished(j)' <=> Finished(j)
    BY DEF Finished
  <2> QED BY <1>3, <1>4, <1>5, <2>1 DEF StreamOK, LaneOK
<1>9. ChunkOK'
  BY <1>3, <1>4 DEF StreamOK, ChunkOK
<1>10. ToolOK'
  <2>1. \A s, pz : (LaneTools(s, pz)' <=> LaneTools(s, pz)) /\ (Found(s, pz)' <=> Found(s, pz))
    BY <1>3 DEF LaneTools, Found
  <2> QED BY <1>2, <1>3, <2>1 DEF StreamOK, ToolOK
<1>11. SoFar'
  BY <1>2, <1>5, SameSoFar DEF StreamOK
<1> QED BY <1>1, <1>6, <1>7, <1>8, <1>9, <1>10, <1>11 DEF StreamOK

IsChunk(x, kind, i, m, fin, count) ==
    /\ DOMAIN x = {"kind", "i", "m", "fin", "logprobs", "usage"}
    /\ x.kind = kind /\ x.i = i /\ x.m = m /\ x.fin = fin
    /\ \A u \in x.usage : u.completion = count
    /\ ~(i >= 0) => x.usage = {}

LEMMA ChunkIs ==
    ASSUME NEW kind, NEW i, NEW m, NEW fin, NEW count
    PROVE  IsChunk(Chunk(kind, i, m, fin, count), kind, i, m, fin, count)
<1> DEFINE u == [prompt |-> PromptLen, completion |-> count]
<1>1. u.completion = count
  OBVIOUS
<1>2. Chunk(kind, i, m, fin, count) =
        [kind |-> kind, i |-> i, m |-> m, fin |-> fin, logprobs |-> <<>>,
         usage |-> IF server.continuous /\ i >= 0 THEN {u} ELSE {}]
  BY DEF Chunk
<1> HIDE DEF u
<1> QED BY <1>1, <1>2 DEF IsChunk

(* A chunk that only opens a choice. *)
Opens(x) ==
    /\ x.i \in Lanes /\ x.kind \in {"role", "delta"} /\ x.fin = "" /\ ~Tells(x)
    /\ \A u \in x.usage : u.completion = 0

LEMMA OpeningIs ==
    ASSUME WellFormed(req)
    PROVE  IsSeq(Opening) /\ \A k \in DOMAIN Opening : Opens(Opening[k])
<1> DEFINE N == req.n * NumPrompts
           Role(k) == Chunk("role", k - 1, Empty, "", 0)
           Echo(k) == Chunk("delta", k - 1, [Empty EXCEPT !.c = Echoed(k - 1)], "", 0)
           roles == [k \in 1 .. N |-> Role(k)]
           echoes == [k \in 1 .. N |-> Echo(k)]
<1>1. Opening = IF req.echo THEN roles \o echoes ELSE roles
  BY DEF Opening
<1>2. N \in Nat /\ \A k \in 1 .. N : k - 1 \in Lanes
  BY LanesAre
<1>3. Empty.tools = <<>> /\ \A c : [Empty EXCEPT !.c = c].tools = <<>>
  BY DEF Empty
<1> HIDE DEF N
<1>4. \A k \in 1 .. N : Opens(Role(k)) /\ Opens(Echo(k))
  <2> TAKE k \in 1 .. N
  <2>1. Opens(Role(k))
    <3> DEFINE i == k - 1
               n == 0
               x == Chunk("role", i, Empty, "", n)
    <3>1. i \in Lanes /\ n = 0
      BY <1>2
    <3> HIDE DEF i, n
    <3>2. IsChunk(x, "role", i, Empty, "", n)
      BY ChunkIs
    <3> HIDE DEF x
    <3>3. Opens(x)
      BY <3>1, <3>2 DEF Opens, Tells, IsChunk
    <3> QED BY <3>3 DEF x, i, n
  <2>2. Opens(Echo(k))
    <3> DEFINE m == [Empty EXCEPT !.c = Echoed(k - 1)]
               i == k - 1
               n == 0
               x == Chunk("delta", i, m, "", n)
    <3>1. m.tools = <<>> /\ i \in Lanes /\ n = 0
      BY <1>2, <1>3
    <3> HIDE DEF m, i, n
    <3>2. IsChunk(x, "delta", i, m, "", n)
      BY ChunkIs
    <3> HIDE DEF x
    <3>3. Opens(x)
      BY <3>1, <3>2 DEF Opens, Tells, IsChunk
    <3> QED BY <3>3 DEF x, m, i, n
  <2> QED BY <2>1, <2>2
<1> HIDE DEF Role, Echo
<1>5. /\ IsSeq(roles) /\ DOMAIN roles = 1 .. N /\ Len(roles) = N
      /\ IsSeq(echoes) /\ DOMAIN echoes = 1 .. N /\ Len(echoes) = N
  <2>1. roles = [k \in 1 .. N |-> roles[k]] /\ echoes = [k \in 1 .. N |-> echoes[k]]
    OBVIOUS
  <2> HIDE DEF roles, echoes
  <2> QED BY <1>2, <2>1, RowIs
<1>6. \A k \in 1 .. N : Opens(roles[k]) /\ Opens(echoes[k])
  BY <1>4
<1> HIDE DEF roles, echoes
<1>7. IsSeq(roles \o echoes) /\ \A k \in DOMAIN (roles \o echoes) : Opens((roles \o echoes)[k])
  <2> DEFINE a == roles \o echoes
  <2>1. /\ IsSeq(a) /\ DOMAIN a = 1 .. N + N
        /\ \A k \in 1 .. N : a[k] = roles[k]
        /\ \A k \in 1 .. N : a[N + k] = echoes[k]
    BY <1>5, ConcatIs
  <2> HIDE DEF a
  <2>2. ASSUME NEW k \in DOMAIN a PROVE Opens(a[k])
    <3>1. CASE k <= N
      <4>1. k \in 1 .. N
        BY <1>2, <2>1, <3>1
      <4>2. a[k] = roles[k]
        BY <2>1, <4>1
      <4> QED BY <1>6, <4>1, <4>2
    <3>2. CASE ~(k <= N)
      <4>1. k - N \in 1 .. N /\ N + (k - N) = k
        BY <1>2, <2>1, <3>2
      <4>2. a[k] = echoes[k - N]
        BY <2>1, <4>1
      <4> QED BY <1>6, <4>1, <4>2
    <3> QED BY <3>1, <3>2
  <2> QED BY <2>1, <2>2 DEF a
<1> QED BY <1>1, <1>5, <1>6, <1>7

LEMMA OpenedChunks ==
    ASSUME WellFormed(req), UNCHANGED <<req, server, lane, parser, usage>>,
           StreamOK, SoFar, ~first', sent = <<>>, sent' = Opening
    PROVE  ChunkOK' /\ ToolOK' /\ SoFar'
<1>1. Lanes' = Lanes /\ Mode' = Mode /\ \A j : Sharers(j)' = Sharers(j)
  BY SameRequest
<1>2. /\ IsSeq(sent') /\ \A k \in DOMAIN sent' : Opens(sent'[k])
  BY OpeningIs
<1>3. DOMAIN sent = {}
  OBVIOUS
<1>4. \A i \in Lanes : lane[i].num \in Nat
  BY DEF StreamOK, LaneOK, IsLane
<1>5. ChunkOK'
  <2>1. ASSUME NEW k \in DOMAIN sent'
        PROVE  /\ sent'[k].i \in Lanes /\ sent'[k].kind \in {"role", "delta"}
               /\ sent'[k].fin = ""
               /\ \A u \in sent'[k].usage :
                     u.completion \in Nat /\ u.completion <= lane[sent'[k].i].num
    <3>1. Opens(sent'[k])
      BY <1>2
    <3>2. sent'[k].i \in Lanes /\ \A u \in sent'[k].usage : u.completion = 0
      BY <3>1 DEF Opens
    <3>3. 0 <= lane[sent'[k].i].num /\ 0 \in Nat
      BY <1>4, <3>2
    <3>4. ASSUME NEW u \in sent'[k].usage
          PROVE  u.completion \in Nat /\ u.completion <= lane[sent'[k].i].num
      BY <3>2, <3>3
    <3> QED BY <3>1, <3>2, <3>4 DEF Opens
  <2>2. lane' = lane
    OBVIOUS
  <2> QED BY <1>1, <1>2, <2>1, <2>2 DEF ChunkOK
<1>6. ToolOK'
  <2>1. \A s, pz : (LaneTools(s, pz)' <=> LaneTools(s, pz)) /\ (Found(s, pz)' <=> Found(s, pz))
    BY <1>1 DEF LaneTools, Found
  <2>2. \A k \in DOMAIN sent' : ~Tells(sent'[k])
    BY <1>2 DEF Opens
  <2>3. Mode # "named" /\ req.parallel_tool_calls => \A i \in Lanes : ~Found(lane[i], parser)
    BY <1>3 DEF StreamOK, ToolOK
  <2> QED BY <1>1, <2>1, <2>2, <2>3 DEF StreamOK, ToolOK
<1>7. LastWord'
  BY <1>2 DEF LastWord, Opens
<1>8. Counted'
  <2>1. DOMAIN sent' = 1 .. Len(sent') /\ Len(sent') \in Nat
    BY <1>2 DEF IsSeq
  <2>2. \A k \in DOMAIN sent' : sent'[k].fin = "" /\ \A u \in sent'[k].usage : u.completion = 0
    BY <1>2 DEF Opens
  <2>3. \A k \in DOMAIN sent' : \A j \in 1 .. k - 1 : j \in DOMAIN sent'
    BY <2>1
  <2>4. \A n, m : n = 0 /\ m = 0 => n <= m
    OBVIOUS
  <2>5. ASSUME NEW k \in DOMAIN sent', NEW u \in sent'[k].usage,
               NEW j \in 1 .. k - 1, NEW v \in sent'[j].usage
        PROVE  v.completion <= u.completion
    <3>1. u.completion = 0 /\ v.completion = 0
      BY <2>2, <2>3
    <3> QED BY <2>4, <3>1
  <2> QED BY <2>2, <2>5 DEF Counted
<1>9. ToolFinish'
  BY <1>2 DEF ToolFinish, Opens
<1> QED BY <1>5, <1>6, <1>7, <1>8, <1>9 DEF SoFar

LEMMA TakeKeeps ==
    ASSUME WellFormed(req), StreamOK, SoFar, NEW p, TakeResult(p)
    PROVE  StreamOK' /\ SoFar' /\ phase' = "streaming"
<1> DEFINE there == {i \in LanesOf(p) : pending[i] # {}}
           Out(i, q) == [i |-> i, toks |-> q.toks, fin |-> q.fin,
                         prompted |-> server.details = "every" \/ p \notin known]
<1>1. /\ res = {} /\ there \subseteq Lanes /\ \A i \in there : pending[i] # {}
      /\ pending' = [i \in Lanes |-> IF i \in there THEN {} ELSE pending[i]]
      /\ sent' = (IF first /\ req.kind = "chat" THEN sent \o Opening ELSE sent)
      /\ first' = FALSE
      /\ UNCHANGED <<phase, req, server, text, made, ended, lane, parser, usage>>
      /\ phase = "streaming"
  BY DEF TakeResult, LanesOf
<1>2. res' = UNION {{Out(i, q) : q \in pending[i]} : i \in there}
  BY DEF TakeResult
<1> HIDE DEF there
<1>3. EngineOK /\ ResOK /\ CountOK /\ LaneOK /\ ChunkOK /\ ToolOK /\ usage = {}
  BY DEF StreamOK
<1>4. Lanes' = Lanes /\ Mode' = Mode /\ \A j : Sharers(j)' = Sharers(j)
  BY <1>1, SameRequest
<1>5. \A i, q : Out(i, q).i = i /\ Out(i, q).toks = q.toks /\ Out(i, q).fin = q.fin
  OBVIOUS
<1> HIDE DEF Out
<1>6. \A o : o \in res' <=> \E i \in there : \E q \in pending[i] : o = Out(i, q)
  <2>1. \A S, T : S = UNION T => \A o : o \in S <=> \E t \in T : o \in t
    OBVIOUS
  <2>2. \A i : \A o : o \in {Out(i, q) : q \in pending[i]} <=> \E q \in pending[i] : o = Out(i, q)
    OBVIOUS
  <2> DEFINE T == {{Out(i, q) : q \in pending[i]} : i \in there}
  <2>3. \A o : (\E t \in T : o \in t) <=>
                  \E i \in there : o \in {Out(i, q) : q \in pending[i]}
    OBVIOUS
  <2>4. res' = UNION T
    BY <1>2
  <2> HIDE DEF T
  <2>5. \A o : o \in res' <=> \E t \in T : o \in t
    BY <2>1, <2>4
  <2>6. \A o : o \in res' <=> \E i \in there : o \in {Out(i, q) : q \in pending[i]}
    BY <2>3, <2>5
  <2>7. \A o : (\E i \in there : o \in {Out(i, q) : q \in pending[i]}) <=>
                  \E i \in there : \E q \in pending[i] : o = Out(i, q)
    BY Zenon
  <2> QED BY ONLY <2>6, <2>7
<1>7. /\ \A i \in there : pending'[i] = {}
      /\ \A i \in Lanes \ there : pending'[i] = pending[i]
      /\ DOMAIN pending' = Lanes
  BY <1>1
<1>8. \A i \in there : \A q \in pending[i] :
          /\ pending[i] = {q} /\ q.toks \in Seq(Token) /\ q.fin = ended[i]
          /\ q.fin \in {"stop", "length"} => q.toks # <<>>
  BY <1>1, <1>3 DEF EngineOK, Deposited
<1>9. EngineOK'
  <2>1. \A i \in Lanes : Deposited(i)'
    <3> TAKE i \in Lanes
    <3>1. CASE i \in there
      BY <1>7, <3>1 DEF Deposited
    <3>2. CASE i \notin there
      BY <1>1, <1>3, <1>7, <3>2 DEF Deposited, EngineOK
    <3> QED BY <3>1, <3>2
  <2> QED BY <1>1, <1>3, <1>4, <1>7, <2>1 DEF EngineOK
<1>10. \A o \in res' : \E q \in pending[o.i] :
           /\ o.i \in there /\ o = Out(o.i, q) /\ o.toks = q.toks /\ o.fin = q.fin
  BY <1>5, <1>6
<1>11. ResOK'
  <2>1. ASSUME NEW o \in res'
        PROVE  /\ o.i \in Lanes /\ o.toks \in Seq(Token)
               /\ o.fin = IF pending'[o.i] = {} THEN ended[o.i] ELSE ""
               /\ o.fin \in {"stop", "length"} => o.toks # <<>>
    <3>1. PICK q \in pending[o.i] : o.i \in there /\ o.toks = q.toks /\ o.fin = q.fin
      BY <1>10
    <3>2. /\ q.toks \in Seq(Token) /\ q.fin = ended[o.i]
          /\ q.fin \in {"stop", "length"} => q.toks # <<>>
      BY <1>8, <3>1
    <3>3. o.i \in Lanes /\ pending'[o.i] = {}
      BY <1>1, <1>7, <3>1
    <3> QED BY <3>1, <3>2, <3>3
  <2>2. ASSUME NEW o \in res', NEW x \in res', o.i = x.i PROVE o = x
    BY <1>8, <1>10, <2>2
  <2> QED BY <1>1, <1>4, <2>1, <2>2 DEF ResOK
<1>12. \A i \in Lanes : InRes(i)' <=> i \in there
  <2> TAKE i \in Lanes
  <2>1. i \in there => \E q : q \in pending[i]
    BY <1>1
  <2>2. i \in there => \E o \in res' : o.i = i
    BY <1>5, <1>6, <2>1
  <2>3. (\E o \in res' : o.i = i) => i \in there
    BY <1>10
  <2> QED BY <2>2, <2>3 DEF InRes
<1>13. \A i \in Lanes : ~InRes(i)
  BY <1>1 DEF InRes
<1>14. CountOK'
  <2>1. \A i \in Lanes : made[i] = lane[i].num + Held(i)
    BY <1>3, <1>13 DEF CountOK
  <2>2. \A i \in there : Held(i)' = 0
    BY <1>7 DEF Held
  <2>3. \A i \in Lanes \ there : Held(i)' = Held(i)
    <3> TAKE i \in Lanes \ there
    <3>1. pending'[i] = pending[i]
      BY <1>7
    <3> QED BY <3>1 DEF Held
  <2>4. \A i \in Lanes : lane[i].num \in Nat
    BY <1>3 DEF LaneOK, IsLane
  <2>5. ASSUME NEW o \in res' PROVE made[o.i] = lane[o.i].num + Len(o.toks) + Held(o.i)'
    <3>1. PICK q \in pending[o.i] : o.i \in there /\ o.toks = q.toks
      BY <1>10
    <3>2. Held(o.i) = Len(o.toks) /\ Len(o.toks) \in Nat /\ o.i \in Lanes
      BY <1>1, <1>3, <1>8, <3>1, HeldIs
    <3>3. Held(o.i)' = 0
      BY <2>2, <3>1
    <3>4. lane[o.i].num + Len(o.toks) + 0 = lane[o.i].num + Len(o.toks)
      BY <2>4, <3>2
    <3> QED BY <2>1, <3>2, <3>3, <3>4
  <2>6. ASSUME NEW i \in Lanes, ~InRes(i)' PROVE made[i] = lane[i].num + Held(i)'
    BY <1>12, <2>1, <2>3, <2>6
  <2> QED BY <1>1, <1>4, <2>5, <2>6 DEF CountOK
<1>15. \A i \in Lanes : Over(i)' <=> Over(i)
  <2> TAKE i \in Lanes
  <2>1. CASE i \in there
    BY <1>1, <1>12, <2>1 DEF Over
  <2>2. CASE i \notin there
    BY <1>1, <1>7, <1>12, <1>13, <2>2 DEF Over
  <2> QED BY <2>1, <2>2
<1>16. CASE sent' = sent
  <2>1. SoFar'
    BY <1>1, <1>3, <1>16, SameSoFar
  <2>2. \A j \in Lanes : Finished(j)' <=> Finished(j)
    BY <1>16 DEF Finished
  <2>3. LaneOK'
    BY <1>1, <1>3, <1>4, <1>15, <2>2 DEF LaneOK
  <2>4. ChunkOK'
    BY <1>1, <1>3, <1>4, <1>15, <1>16 DEF ChunkOK
  <2>5. \A s, pz : (LaneTools(s, pz)' <=> LaneTools(s, pz)) /\ (Found(s, pz)' <=> Found(s, pz))
    BY <1>4 DEF LaneTools, Found
  <2>6. ToolOK'
    BY <1>1, <1>3, <1>4, <1>16, <2>5 DEF ToolOK
  <2> QED BY <1>1, <1>3, <1>9, <1>11, <1>14, <2>1, <2>3, <2>4, <2>6 DEF StreamOK
<1>17. CASE sent' # sent
  <2>1. sent = <<>> /\ sent' = sent \o Opening
    BY <1>1, <1>3, <1>17 DEF ChunkOK
  <2>2. sent' = Opening
    <3>1. Opening \in Seq({Opening[k] : k \in DOMAIN Opening})
      BY OpeningIs DEF IsSeq
    <3>2. <<>> \o Opening = Opening
      BY <3>1
    <3> QED BY <2>1, <3>2
  <2>3. ChunkOK' /\ ToolOK' /\ SoFar'
    BY <1>1, <2>1, <2>2, OpenedChunks
  <2>4. \A j \in Lanes : ~Finished(j)
    BY <2>1 DEF Finished
  <2>5. LaneOK'
    BY <1>1, <1>3, <1>4, <1>15, <2>4 DEF LaneOK
  <2> QED BY <1>1, <1>3, <1>9, <1>11, <1>14, <2>3, <2>5 DEF StreamOK
<1> QED BY <1>1, <1>16, <1>17

-----------------------------------------------------------------------------
(* An output is worked through: it leaves the result, and its lane has     *)
(* counted its tokens.                                                     *)

Turn(o, new) ==
    /\ o \in res /\ res' = res \ {o}
    /\ DOMAIN lane' = Lanes /\ lane'[o.i] = new
    /\ \A j \in Lanes \ {o.i} : lane'[j] = lane[j]
    /\ UNCHANGED <<req, server, text, made, ended, pending, first, usage>>
    /\ IsLane(new) /\ new.num = lane[o.i].num + Len(o.toks)
    /\ new.sent => o.fin # ""
    /\ parser'.calls \in Seq(Seq(Token)) /\ LaneTools(new, parser')
    /\ Mode # "named" /\ Found(lane[o.i], parser) => Found(new, parser')

LEMMA TurnKeeps ==
    ASSUME StreamOK, NEW o, NEW new, Turn(o, new)
    PROVE  /\ EngineOK' /\ ResOK' /\ CountOK'
           /\ o.i \in Lanes /\ ~Over(o.i)
           /\ \A j \in Lanes : Over(j)' <=> Over(j) \/ (j = o.i /\ o.fin # "")
           /\ DOMAIN lane' = Lanes /\ lane'[o.i] = new
           /\ \A j \in Lanes : j # o.i => lane'[j] = lane[j]
           /\ \A j \in Lanes : /\ IsLane(lane'[j]) /\ lane[j].num <= lane'[j].num
                               /\ lane[j].num \in Nat
                               /\ lane'[j].sent => Over(j)'
                               /\ LaneTools(lane'[j], parser')
           /\ o.fin # "" => made[o.i] = new.num /\ ended[o.i] = o.fin
<1>1. EngineOK /\ ResOK /\ CountOK /\ LaneOK /\ ChunkOK /\ ToolOK /\ usage = {}
  BY DEF StreamOK
<1>2. /\ o \in res /\ res' = res \ {o}
      /\ DOMAIN lane' = Lanes /\ lane'[o.i] = new
      /\ \A j \in Lanes \ {o.i} : lane'[j] = lane[j]
      /\ UNCHANGED <<req, server, text, made, ended, pending>>
      /\ IsLane(new) /\ new.num = lane[o.i].num + Len(o.toks)
      /\ (new.sent => o.fin # "")
  BY DEF Turn
<1>3. Lanes' = Lanes /\ Mode' = Mode
  BY <1>2, SameRequest
<1>4. /\ o.i \in Lanes /\ o.toks \in Seq(Token) /\ Len(o.toks) \in Nat
      /\ o.fin = IF pending[o.i] = {} THEN ended[o.i] ELSE ""
  <2>1. /\ o.i \in Lanes /\ o.toks \in Seq(Token)
        /\ o.fin = IF pending[o.i] = {} THEN ended[o.i] ELSE ""
    BY <1>1, <1>2 DEF ResOK
  <2>2. Len(o.toks) \in Nat
    BY <2>1, LenProperties
  <2> QED BY ONLY <2>1, <2>2
<1>5. ~Over(o.i)
  BY <1>2 DEF Over, InRes
<1>6. /\ DOMAIN lane' = Lanes /\ lane'[o.i] = new
      /\ \A j \in Lanes : j # o.i => lane'[j] = lane[j]
  BY <1>1, <1>2, <1>4 DEF LaneOK
<1>7. EngineOK'
  <2>1. \A i : Deposited(i)' <=> Deposited(i)
    BY <1>2 DEF Deposited
  <2> QED BY <1>1, <1>2, <1>3, <2>1 DEF EngineOK
<1>8. ResOK'
  <2>1. first' = first
    BY DEF Turn
  <2> QED BY <1>1, <1>2, <1>3, <2>1 DEF ResOK
<1>9. /\ \A j \in Lanes : j # o.i => (InRes(j)' <=> InRes(j))
      /\ ~InRes(o.i)'
  BY <1>1, <1>2 DEF InRes, ResOK
<1>10. \A j \in Lanes : Over(j)' <=> Over(j) \/ (j = o.i /\ o.fin # "")
  <2> TAKE j \in Lanes
  <2>1. CASE j = o.i
    BY <1>2, <1>4, <1>5, <1>9, <2>1 DEF Over
  <2>2. CASE j # o.i
    BY <1>2, <1>9, <2>2 DEF Over
  <2> QED BY <2>1, <2>2
<1>11. \A j \in Lanes : Held(j)' = Held(j) /\ Held(j) \in Nat
  <2>1. \A j \in Lanes : Held(j) \in Nat
    BY <1>1, HeldIs
  <2>2. pending' = pending
    BY <1>2
  <2>3. \A j : Held(j)' = Held(j)
    <3> TAKE j
    <3> QED BY <2>2 DEF Held
  <2> QED BY <2>1, <2>3
<1>12. made[o.i] = new.num + Held(o.i)
  BY <1>1, <1>2 DEF CountOK
<1>13. CountOK'
  <2>1. ASSUME NEW x \in res' PROVE made[x.i] = lane'[x.i].num + Len(x.toks) + Held(x.i)'
    <3>1. x \in res /\ x.i # o.i /\ x.i \in Lanes
      BY <1>1, <1>2 DEF ResOK
    <3>2. made[x.i] = lane[x.i].num + Len(x.toks) + Held(x.i)
      BY <1>1, <3>1 DEF CountOK
    <3> QED BY <1>6, <1>11, <3>1, <3>2
  <2>2. ASSUME NEW j \in Lanes, ~InRes(j)' PROVE made[j] = lane'[j].num + Held(j)'
    <3>1. CASE j = o.i
      BY <1>6, <1>11, <1>12, <3>1
    <3>2. CASE j # o.i
      <4>1. made[j] = lane[j].num + Held(j)
        BY <1>1, <1>9, <2>2, <3>2 DEF CountOK
      <4> QED BY <1>6, <1>11, <3>2, <4>1
    <3> QED BY <3>1, <3>2
  <2> QED BY <1>2, <1>3, <2>1, <2>2 DEF CountOK
<1>14. o.fin # "" => made[o.i] = new.num /\ ended[o.i] = o.fin
  <2> SUFFICES ASSUME o.fin # "" PROVE made[o.i] = new.num /\ ended[o.i] = o.fin
    OBVIOUS
  <2>1. pending[o.i] = {} /\ ended[o.i] = o.fin
    BY <1>4
  <2>2. Held(o.i) = 0
    BY <2>1 DEF Held
  <2>3. new.num \in Nat
    BY <1>2 DEF IsLane
  <2>4. made[o.i] = new.num
    BY ONLY <1>12, <2>2, <2>3
  <2> QED BY <2>1, <2>4
<1>15. ASSUME NEW j \in Lanes
       PROVE  /\ IsLane(lane'[j]) /\ lane[j].num <= lane'[j].num /\ lane[j].num \in Nat
              /\ lane'[j].sent => Over(j)'
              /\ LaneTools(lane'[j], parser')
  <2>1. IsLane(lane[j]) /\ (lane[j].sent => Over(j)) /\ LaneTools(lane[j], parser)
    BY <1>1 DEF LaneOK, ToolOK
  <2>2. CASE j = o.i
    <3>1. lane'[j] = new /\ LaneTools(new, parser')
      BY <1>6, <2>2 DEF Turn
    <3>2. lane[j].num \in Nat /\ new.num = lane[j].num + Len(o.toks)
      BY <1>2, <2>1, <2>2 DEF IsLane
    <3>3. lane[j].num <= new.num
      <4>1. Len(o.toks) \in Nat
        BY <1>4
      <4> QED BY ONLY <3>2, <4>1
    <3>4. new.sent => Over(j)'
      BY <1>2, <1>10, <2>2
    <3> QED BY <1>2, <3>1, <3>2, <3>3, <3>4
  <2>3. CASE j # o.i
    <3>1. lane'[j] = lane[j] /\ lane[j].num \in Nat /\ lane[j].num <= lane[j].num
      BY <1>6, <2>1, <2>3 DEF IsLane
    <3>2. Mode = "auto" /\ parser.calls # <<>> => parser'.calls # <<>>
      BY DEF Turn, Found
    <3>3. LaneTools(lane'[j], parser')
      BY <2>1, <3>1, <3>2 DEF LaneTools
    <3> QED BY <1>10, <2>1, <3>1, <3>3
  <2> QED BY <2>2, <2>3
<1> QED BY <1>4, <1>5, <1>6, <1>7, <1>8, <1>10, <1>13, <1>14, <1>15

(* Nothing is sent of it: there was nothing in it, or more will come. *)
LEMMA TurnQuiet ==
    ASSUME StreamOK, SoFar, NEW o, NEW new, Turn(o, new), sent' = sent,
           o.fin = "" \/ (o.toks = <<>> /\ lane[o.i].num = 0),
           Mode # "named" /\ Found(new, parser') => Found(lane[o.i], parser)
    PROVE  StreamOK' /\ SoFar'
<1>1. EngineOK /\ ResOK /\ CountOK /\ LaneOK /\ ChunkOK /\ ToolOK /\ usage = {}
  BY DEF StreamOK
<1>2. UNCHANGED <<req, server, made, ended, first, usage>> /\ o \in res
      /\ parser'.calls \in Seq(Seq(Token))
      /\ new.num = lane[o.i].num + Len(o.toks)
  BY DEF Turn
<1>3. Lanes' = Lanes /\ Mode' = Mode /\ \A j : Sharers(j)' = Sharers(j)
  BY <1>2, SameRequest
<1>4. /\ EngineOK' /\ ResOK' /\ CountOK'
      /\ o.i \in Lanes
      /\ \A j \in Lanes : Over(j)' <=> Over(j) \/ (j = o.i /\ o.fin # "")
      /\ DOMAIN lane' = Lanes /\ lane'[o.i] = new
      /\ \A j \in Lanes : j # o.i => lane'[j] = lane[j]
      /\ \A j \in Lanes : /\ IsLane(lane'[j]) /\ lane[j].num <= lane'[j].num
                          /\ lane[j].num \in Nat
                          /\ lane'[j].sent => Over(j)'
                          /\ LaneTools(lane'[j], parser')
      /\ o.fin # "" => made[o.i] = new.num /\ ended[o.i] = o.fin
  BY TurnKeeps
<1>5. SoFar'
  BY <1>1, <1>2, SameSoFar
<1>6. LaneOK'
  <2>1. o.fin # "" => ended[o.i] = "error" /\ made[o.i] = 0
    <3> SUFFICES ASSUME o.fin # "" PROVE ended[o.i] = "error" /\ made[o.i] = 0
      OBVIOUS
    <3>1. o.toks = <<>> /\ lane[o.i].num = 0 /\ Len(o.toks) = 0
      OBVIOUS
    <3>2. o.fin \notin {"stop", "length"}
      BY <1>1, <1>2, <3>1 DEF ResOK
    <3>3. ended[o.i] = o.fin /\ ended[o.i] \in Fins
      BY <1>1, <1>4 DEF EngineOK
    <3>4. made[o.i] = 0
      <4>1. new.num = lane[o.i].num + Len(o.toks)
        BY <1>2
      <4>2. new.num = 0
        BY ONLY <3>1, <4>1
      <4> QED BY <1>4, <4>2
    <3> QED BY <3>2, <3>3, <3>4 DEF Fins
  <2>2. \A j \in Lanes : Finished(j)' <=> Finished(j)
    BY DEF Finished
  <2> QED BY <1>1, <1>2, <1>3, <1>4, <2>1, <2>2 DEF LaneOK
<1>7. ChunkOK'
  <2>1. ASSUME NEW k \in DOMAIN sent
        PROVE  /\ sent[k].i \in Lanes /\ sent[k].kind \in {"role", "delta"}
               /\ sent[k].fin # "" => Over(sent[k].i)'
               /\ \A u \in sent[k].usage :
                     u.completion \in Nat /\ u.completion <= lane'[sent[k].i].num
    <3>1. sent[k].i \in Lanes /\ sent[k].kind \in {"role", "delta"}
          /\ (sent[k].fin # "" => Over(sent[k].i))
      BY <1>1 DEF ChunkOK
    <3>2. ASSUME NEW u \in sent[k].usage
          PROVE  u.completion \in Nat /\ u.completion <= lane'[sent[k].i].num
      <4>1. u.completion \in Nat /\ u.completion <= lane[sent[k].i].num
        BY <1>1 DEF ChunkOK
      <4>2. lane[sent[k].i].num <= lane'[sent[k].i].num /\ lane[sent[k].i].num \in Nat
            /\ lane'[sent[k].i].num \in Nat
        BY <1>4, <3>1 DEF IsLane
      <4> QED BY ONLY <4>1, <4>2
    <3> QED BY <1>4, <3>1, <3>2
  <2> QED BY <1>1, <1>2, <1>3, <2>1 DEF ChunkOK
<1>8. ToolOK'
  <2>1. \A s, pz : (LaneTools(s, pz)' <=> LaneTools(s, pz)) /\ (Found(s, pz)' <=> Found(s, pz))
    BY <1>3 DEF LaneTools, Found
  <2>2. ASSUME Mode # "named", NEW j \in Lanes
        PROVE  Found(lane'[j], parser') <=> Found(lane[j], parser)
    <3>1. Found(new, parser') <=> Found(lane[o.i], parser)
      BY <2>2 DEF Turn
    <3>2. CASE j = o.i
      BY <1>4, <3>1, <3>2
    <3>3. CASE j # o.i
      BY <1>4, <3>1, <3>3 DEF Found
    <3> QED BY <3>2, <3>3
  <2>3. \A k \in DOMAIN sent : sent[k].i \in Lanes
    BY <1>1 DEF ChunkOK
  <2> QED BY <1>1, <1>2, <1>3, <1>4, <2>1, <2>2, <2>3 DEF ToolOK
<1> QED BY <1>2, <1>4, <1>5, <1>6, <1>7, <1>8, <1>1 DEF StreamOK

(* A chunk of it is sent. *)
Says(x, o, new) ==
    /\ sent' = Append(sent, x) /\ x.kind = "delta" /\ x.i = o.i
    /\ o.fin # "error"
    /\ \A u \in x.usage : u.completion = new.num
    /\ o.fin = "" => x.fin = ""
    /\ o.fin # "" => x.fin = IF Mode # "named" /\ Found(new, parser') THEN "tool_calls" ELSE o.fin
    /\ Mode # "named" => /\ Tells(x) => Found(new, parser')
                         /\ req.parallel_tool_calls /\ Found(new, parser') =>
                               Found(lane[o.i], parser) \/ Tells(x)

LEMMA TurnChunk ==
    ASSUME StreamOK, SoFar, NEW o, NEW new, Turn(o, new), NEW x, Says(x, o, new)
    PROVE  StreamOK' /\ SoFar'
<1> DEFINE n == Len(sent)
<1>1. EngineOK /\ ResOK /\ CountOK /\ LaneOK /\ ChunkOK /\ ToolOK /\ usage = {}
  BY DEF StreamOK
<1>2. UNCHANGED <<req, server, made, ended, first, usage>> /\ o \in res
      /\ parser'.calls \in Seq(Seq(Token))
  BY DEF Turn
<1>3. Lanes' = Lanes /\ Mode' = Mode /\ \A j : Sharers(j)' = Sharers(j)
  BY <1>2, SameRequest
<1>4. /\ EngineOK' /\ ResOK' /\ CountOK'
      /\ o.i \in Lanes /\ ~Over(o.i)
      /\ \A j \in Lanes : Over(j)' <=> Over(j) \/ (j = o.i /\ o.fin # "")
      /\ DOMAIN lane' = Lanes /\ lane'[o.i] = new
      /\ \A j \in Lanes : j # o.i => lane'[j] = lane[j]
      /\ \A j \in Lanes : /\ IsLane(lane'[j]) /\ lane[j].num <= lane'[j].num
                          /\ lane[j].num \in Nat
                          /\ lane'[j].sent => Over(j)'
                          /\ LaneTools(lane'[j], parser')
      /\ o.fin # "" => made[o.i] = new.num /\ ended[o.i] = o.fin
  BY TurnKeeps
<1>5. /\ sent' = Append(sent, x) /\ x.kind = "delta" /\ x.i = o.i
      /\ \A u \in x.usage : u.completion = new.num
      /\ (x.fin # "" <=> o.fin # "")
  BY DEF Says
<1>6. /\ IsSeq(sent') /\ n \in Nat /\ DOMAIN sent = 1 .. n
      /\ Len(sent') = n + 1 /\ DOMAIN sent' = 1 .. n + 1
      /\ \A k \in 1 .. n : sent'[k] = sent[k]
      /\ sent'[n + 1] = x
  <2> DEFINE a == Append(sent, x)
  <2>1. IsSeq(sent) /\ sent' = a
    BY <1>1, <1>5 DEF ChunkOK
  <2>2. /\ IsSeq(a) /\ n \in Nat /\ DOMAIN sent = 1 .. n
        /\ Len(a) = n + 1 /\ DOMAIN a = 1 .. n + 1
        /\ (\A k \in 1 .. n : a[k] = sent[k]) /\ a[n + 1] = x
    BY <2>1, AppendIs
  <2> HIDE DEF a, n
  <2> QED BY <2>1, <2>2
<1> HIDE DEF n
<1>7. \A k \in DOMAIN sent' : (k \in 1 .. n /\ k \in DOMAIN sent) \/ k = n + 1
  BY <1>6
<1>8. \A k \in 1 .. n : /\ sent[k].i \in Lanes /\ sent[k].kind \in {"role", "delta"}
                        /\ sent[k].fin # "" => Over(sent[k].i)
                        /\ \A u \in sent[k].usage :
                              u.completion \in Nat /\ u.completion <= lane[sent[k].i].num
  BY <1>1, <1>6 DEF ChunkOK
<1>9. \A j \in Lanes : lane'[j].num \in Nat
  BY <1>4 DEF IsLane
<1>10. \A k \in 1 .. n : \A u \in sent[k].usage :
           u.completion \in Nat /\ u.completion <= lane'[sent[k].i].num
  <2> TAKE k \in 1 .. n
  <2> TAKE u \in sent[k].usage
  <2>1. u.completion \in Nat /\ u.completion <= lane[sent[k].i].num
    BY <1>8
  <2>2. lane[sent[k].i].num <= lane'[sent[k].i].num /\ lane[sent[k].i].num \in Nat
        /\ lane'[sent[k].i].num \in Nat
    BY <1>4, <1>8, <1>9
  <2> QED BY ONLY <2>1, <2>2
<1>11. ChunkOK'
  <2>1. ASSUME NEW k \in DOMAIN sent'
        PROVE  /\ sent'[k].i \in Lanes /\ sent'[k].kind \in {"role", "delta"}
               /\ (sent[k].fin # "" => Over(sent[k].i))'
    <3>1. CASE k \in 1 .. n
      <4>1. sent'[k] = sent[k]
        BY <1>6, <3>1
      <4>2. \A j \in Lanes : j = sent[k].i /\ sent[k].fin # "" => Over(j)'
        BY <1>4, <1>8, <3>1
      <4> QED BY <1>8, <3>1, <4>1, <4>2 DEF Over, InRes
    <3>2. CASE k = n + 1
      <4>1. sent'[k] = x
        BY <1>6, <3>2
      <4>2. \A j \in Lanes : j = o.i /\ x.fin # "" => Over(j)'
        BY <1>4, <1>5
      <4> QED BY <1>4, <1>5, <4>1, <4>2 DEF Over, InRes
    <3> QED BY <1>7, <3>1, <3>2
  <2>2. ASSUME NEW k \in DOMAIN sent', NEW u \in sent'[k].usage
        PROVE  u.completion \in Nat /\ u.completion <= lane'[sent'[k].i].num
    <3>1. CASE k \in 1 .. n
      <4>1. sent'[k] = sent[k]
        BY <1>6, <3>1
      <4> QED BY <1>10, <3>1, <4>1
    <3>2. CASE k = n + 1
      <4>1. u.completion = new.num /\ lane'[sent'[k].i] = new
        BY <1>4, <1>5, <1>6, <3>2
      <4>2. new.num \in Nat
        BY <1>4, <1>9
      <4>3. new.num <= new.num
        BY ONLY <4>2
      <4> QED BY <4>1, <4>2, <4>3
    <3> QED BY <1>7, <3>1, <3>2
  <2>3. ~first
    BY <1>1, <1>2 DEF ResOK
  <2> QED BY <1>2, <1>3, <1>6, <2>1, <2>2, <2>3 DEF ChunkOK
<1>12. LaneOK'
  <2>1. \A j \in Lanes : Finished(j) => Finished(j)'
    <3> TAKE j \in Lanes
    <3>1. \A k \in DOMAIN sent : k \in DOMAIN sent' /\ sent'[k] = sent[k]
      BY <1>6
    <3> QED BY <3>1 DEF Finished
  <2>2. o.fin # "" => Finished(o.i)'
    <3>1. n + 1 \in DOMAIN sent'
      BY <1>6
    <3> QED BY <1>5, <1>6, <3>1 DEF Finished
  <2> QED BY <1>1, <1>2, <1>3, <1>4, <2>1, <2>2 DEF LaneOK
<1>13. LastWord'
  <2>1. ASSUME NEW k \in DOMAIN sent', sent'[k].fin # "", NEW j \in (k + 1) .. Len(sent')
        PROVE  sent'[j].i # sent'[k].i
    <3>1. k \in 1 .. n /\ j \in (k + 1) .. (n + 1) /\ k \in DOMAIN sent
      <4>1. j \in (k + 1) .. (n + 1) /\ k \in 1 .. n + 1 /\ n \in Nat
        BY <1>6
      <4>2. k \in 1 .. n
        BY ONLY <4>1
      <4> QED BY <1>6, <4>1, <4>2
    <3>2. sent'[k] = sent[k]
      BY <1>6, <3>1
    <3>3. CASE j <= n
      <4>1. j \in (k + 1) .. Len(sent) /\ sent'[j] = sent[j]
        BY <1>6, <3>1, <3>3 DEF n
      <4> QED BY <2>1, <3>1, <3>2, <4>1 DEF SoFar, LastWord
    <3>4. CASE j = n + 1
      BY ZenonT(30), <1>4, <1>5, <1>6, <1>8, <2>1, <3>1, <3>2, <3>4
    <3> QED BY <1>6, <3>1, <3>3, <3>4
  <2> QED BY <2>1 DEF LastWord
<1>14. Counted'
  <2>1. ASSUME NEW k \in DOMAIN sent', NEW u \in sent'[k].usage
        PROVE  /\ sent'[k].fin # "" => u.completion = made[sent'[k].i]
               /\ \A j \in 1 .. k - 1 : \A v \in sent'[j].usage :
                     sent'[j].i = sent'[k].i => v.completion <= u.completion
    <3>1. CASE k \in 1 .. n
      <4>1. sent'[k] = sent[k] /\ \A j \in 1 .. k - 1 : sent'[j] = sent[j]
        BY <1>6, <3>1
      <4>2. k \in DOMAIN sent
        BY <1>6, <3>1
      <4> QED BY <2>1, <4>1, <4>2 DEF SoFar, Counted
    <3>2. CASE k = n + 1
      <4>1. sent'[k] = x /\ u.completion = new.num
        BY <1>5, <1>6, <2>1, <3>2
      <4>2. ASSUME NEW j \in 1 .. k - 1, NEW v \in sent'[j].usage, sent'[j].i = sent'[k].i
            PROVE  v.completion <= u.completion
        <5>0. j \in 1 .. n
          <6>1. n \in Nat /\ k = n + 1 /\ j \in 1 .. k - 1
            BY <1>6, <3>2
          <6> QED BY ONLY <6>1
        <5>1. j \in 1 .. n /\ sent'[j] = sent[j] /\ sent[j].i = o.i
          BY <1>5, <1>6, <4>1, <4>2, <5>0
        <5> QED BY <1>4, <1>10, <4>1, <5>1, <4>2
      <4> QED BY <1>4, <1>5, <4>1, <4>2
    <3> QED BY <1>7, <3>1, <3>2
  <2> QED BY <1>2, <2>1 DEF Counted
<1>15. \A s, pz : (LaneTools(s, pz)' <=> LaneTools(s, pz)) /\ (Found(s, pz)' <=> Found(s, pz))
  BY <1>3 DEF LaneTools, Found
<1>16. ASSUME Mode # "named"
       PROVE  /\ \A k \in DOMAIN sent' : Tells(sent'[k]) => Found(lane'[sent'[k].i], parser')
              /\ req.parallel_tool_calls =>
                    \A i \in Lanes : Found(lane'[i], parser') =>
                       \E k \in DOMAIN sent' : Tells(sent'[k]) /\ sent'[k].i \in Sharers(i)
  <2>1. \A i \in Lanes : Found(lane[i], parser) => Found(lane'[i], parser')
    <3> TAKE i \in Lanes
    <3>1. Found(lane[o.i], parser) => Found(new, parser')
      BY <1>16 DEF Turn
    <3>2. CASE i = o.i
      BY <1>4, <3>1, <3>2
    <3>3. CASE i # o.i
      BY <1>4, <3>1, <3>3 DEF Found
    <3> QED BY <3>2, <3>3
  <2>2. ASSUME NEW k \in DOMAIN sent', Tells(sent'[k])
        PROVE  Found(lane'[sent'[k].i], parser')
    <3>1. CASE k \in 1 .. n
      <4>1. sent'[k] = sent[k] /\ k \in DOMAIN sent
        BY <1>6, <3>1
      <4>2. Found(lane[sent[k].i], parser)
        BY <1>1, <1>16, <2>2, <4>1 DEF ToolOK
      <4> QED BY <1>8, <2>1, <3>1, <4>1, <4>2
    <3>2. CASE k = n + 1
      BY <1>4, <1>5, <1>6, <1>16, <2>2, <3>2 DEF Says
    <3> QED BY <1>7, <3>1, <3>2
  <2>3. ASSUME req.parallel_tool_calls, NEW i \in Lanes, Found(lane'[i], parser')
        PROVE  \E k \in DOMAIN sent' : Tells(sent'[k]) /\ sent'[k].i \in Sharers(i)
    <3>1. CASE Found(lane[i], parser)
      <4>1. PICK k \in DOMAIN sent : Tells(sent[k]) /\ sent[k].i \in Sharers(i)
        BY <1>1, <1>16, <2>3, <3>1 DEF ToolOK
      <4>2. k \in DOMAIN sent' /\ sent'[k] = sent[k]
        BY <1>6
      <4> QED BY <4>1, <4>2
    <3>2. CASE ~Found(lane[i], parser)
      <4>1. Found(new, parser') /\ ~Found(lane[o.i], parser) /\ o.i \in Sharers(i)
        <5>1. CASE Mode = "auto"
          BY <1>4, <2>3, <3>2, <5>1 DEF Found, Sharers
        <5>2. CASE Mode # "auto"
          <6>1. i = o.i
            BY <1>4, <2>3, <3>2, <5>2 DEF Found
          <6> QED BY <1>4, <2>3, <3>2, <5>2, <6>1 DEF Sharers
        <5> QED BY <5>1, <5>2
      <4>2. Tells(x)
        BY <1>16, <2>3, <4>1 DEF Says
      <4>3. n + 1 \in DOMAIN sent'
        BY <1>6
      <4> QED BY <1>5, <1>6, <4>1, <4>2, <4>3
    <3> QED BY <3>1, <3>2
  <2> QED BY <2>2, <2>3
<1>17. ToolOK'
  BY <1>2, <1>3, <1>4, <1>15, <1>16 DEF ToolOK
<1>18. ToolFinish'
  <2> DEFINE Called(k) == \E j \in 1 .. k : /\ sent'[j].kind = "delta"
                                            /\ sent'[j].i \in Sharers(sent'[k].i)
                                            /\ sent'[j].m.tools # <<>>
  <2>1. ASSUME NEW k \in DOMAIN sent'
        PROVE  /\ sent'[k].kind # "choice"
               /\ sent'[k].fin = "tool_calls" =>
                     (Called(k) \/ ~req.parallel_tool_calls) /\ Mode # "named"
               /\ sent'[k].fin = "stop" => ~Called(k) \/ Mode = "named"
    <3>1. CASE k \in 1 .. n
      <4>1. sent'[k] = sent[k] /\ \A j \in 1 .. k : sent'[j] = sent[j]
        BY <1>6, <3>1
      <4>2. k \in DOMAIN sent /\ sent[k].kind # "choice"
        BY <1>6, <1>8, <3>1
      <4>3. Called(k) <=> \E j \in 1 .. k : /\ sent[j].kind = "delta"
                                            /\ sent[j].i \in Sharers(sent[k].i)
                                            /\ sent[j].m.tools # <<>>
        BY <4>1
      <4> HIDE DEF Called
      <4> QED BY <4>1, <4>2, <4>3 DEF SoFar, ToolFinish
    <3>2. CASE k = n + 1
      <4>1. sent'[k] = x /\ x.kind = "delta" /\ x.i = o.i
        BY <1>5, <1>6, <3>2
      <4>2. Called(k) <=> \E j \in DOMAIN sent' : Tells(sent'[j]) /\ sent'[j].i \in Sharers(o.i)
        BY <1>6, <3>2, <4>1 DEF Tells
      <4> HIDE DEF Called
      <4>3. x.fin # "" => x.fin = IF Mode # "named" /\ Found(new, parser')
                                  THEN "tool_calls" ELSE o.fin
        BY DEF Says
      <4>4. o.fin # "tool_calls"
        <5>1. ended[o.i] \in Fins
          BY <1>1, <1>4 DEF EngineOK
        <5>2. o.fin \in Fins
          BY <1>1, <1>2, <5>1 DEF ResOK, Fins
        <5> QED BY <5>2 DEF Fins
      <4>5. Mode # "named" /\ Found(new, parser') => Called(k) \/ ~req.parallel_tool_calls
        BY <1>4, <1>16, <4>2
      <4>6. Mode # "named" /\ Called(k) => Found(new, parser')
        <5> SUFFICES ASSUME Mode # "named", Called(k) PROVE Found(new, parser')
          OBVIOUS
        <5>1. PICK j \in DOMAIN sent' : Tells(sent'[j]) /\ sent'[j].i \in Sharers(o.i)
          BY <4>2
        <5>2. Found(lane'[sent'[j].i], parser')
          BY <1>16, <5>1
        <5> QED BY <1>4, <5>1, <5>2 DEF Found, Sharers
      <4> QED BY <4>1, <4>3, <4>4, <4>5, <4>6
    <3> QED BY <1>7, <3>1, <3>2
  <2> QED BY <1>2, <1>3, <2>1 DEF ToolFinish
<1> QED BY <1>1, <1>2, <1>4, <1>11, <1>12, <1>13, <1>14, <1>17, <1>18 DEF StreamOK, SoFar

-----------------------------------------------------------------------------
(* The end of a stream: chunks of no choice, the last one [DONE].          *)

Ends(t) ==
    /\ IsSeq(t) /\ t # <<>>
    /\ \A k \in DOMAIN t : /\ t[k].i = -1 /\ t[k].fin = ""
                           /\ t[k].kind \notin {"delta", "choice"}
                           /\ t[k].kind = "done" <=> k = Len(t)
    /\ \A j, k \in DOMAIN t : t[j].usage # {} /\ t[k].usage # {} => j = k

LEMMA EndsRight ==
    ASSUME ChunkOK, SoFar, UNCHANGED <<req, server, made, ended>>,
           NEW t, Ends(t), sent' = sent \o t,
           \A u \in usage' : u = FullUsage',
           phase' = "closed" => \A i \in Lanes : Finished(i) \/ (ended[i] = "error" /\ made[i] = 0)
    PROVE  FinishesRight'
<1> DEFINE n == Len(sent)
           m == Len(t)
<1>1. Lanes' = Lanes /\ Mode' = Mode /\ \A j : Sharers(j)' = Sharers(j)
  BY SameRequest
<1>2. /\ n \in Nat /\ DOMAIN sent = 1 .. n /\ m \in Nat /\ DOMAIN t = 1 .. m
      /\ IsSeq(sent') /\ Len(sent') = n + m /\ DOMAIN sent' = 1 .. n + m
      /\ \A k \in 1 .. n : sent'[k] = sent[k]
      /\ \A k \in 1 .. m : sent'[n + k] = t[k]
  <2> DEFINE a == sent \o t
  <2>1. IsSeq(sent) /\ IsSeq(t) /\ sent' = a
    BY DEF ChunkOK, Ends
  <2>2. /\ n \in Nat /\ DOMAIN sent = 1 .. n /\ m \in Nat /\ DOMAIN t = 1 .. m
        /\ IsSeq(a) /\ Len(a) = n + m /\ DOMAIN a = 1 .. n + m
        /\ \A k \in 1 .. n : a[k] = sent[k]
        /\ \A k \in 1 .. m : a[n + k] = t[k]
    BY <2>1, ConcatIs
  <2> HIDE DEF a, n, m
  <2> QED BY <2>1, <2>2
<1>3. m > 0
  <2>1. t \in Seq({t[k] : k \in DOMAIN t}) /\ t # <<>>
    BY DEF Ends, IsSeq
  <2> QED BY <2>1
<1>4. \A k \in DOMAIN sent : sent[k].i \in Lanes /\ sent[k].kind \in {"role", "delta"}
  BY DEF ChunkOK
<1>5. -1 \notin Lanes
  BY DEF Lanes
<1>6. \A k \in 1 .. m : /\ t[k].i = -1 /\ t[k].fin = "" /\ t[k].kind \notin {"delta", "choice"}
                        /\ t[k].kind = "done" <=> k = m
  BY <1>2 DEF Ends
<1> HIDE DEF n, m
<1>7. \A k \in 1 .. n + m : k \in 1 .. n \/ (k - n \in 1 .. m /\ k = n + (k - n) /\ k > n)
  BY <1>2
<1>8. \A k \in 1 .. n + m :
          \/ k \in 1 .. n /\ sent'[k] = sent[k] /\ k \in DOMAIN sent
          \/ k - n \in 1 .. m /\ sent'[k] = t[k - n] /\ k > n
  BY <1>2, <1>7
<1>81. ASSUME NEW k \in 1 .. n + m
       PROVE  \/ k \in 1 .. n /\ sent'[k] = sent[k] /\ k \in DOMAIN sent
              \/ /\ k > n /\ sent'[k].i = -1 /\ sent'[k].fin = ""
                 /\ sent'[k].kind \notin {"delta", "choice"}
                 /\ sent'[k].kind = "done" => k = n + m
  <2>1. CASE k \in 1 .. n /\ sent'[k] = sent[k] /\ k \in DOMAIN sent
    BY <2>1
  <2>2. CASE k - n \in 1 .. m /\ sent'[k] = t[k - n] /\ k > n
    <3> DEFINE h == k - n
    <3>1. h \in 1 .. m /\ sent'[k] = t[h] /\ k > n /\ k = n + h
      BY <1>2, <2>2
    <3> HIDE DEF h
    <3>2. /\ t[h].i = -1 /\ t[h].fin = "" /\ t[h].kind \notin {"delta", "choice"}
          /\ t[h].kind = "done" <=> h = m
      BY <1>6, <3>1
    <3> QED BY <3>1, <3>2
  <2> QED BY <1>8, <2>1, <2>2
<1>9. LastWord'
  <2>1. ASSUME NEW k \in DOMAIN sent', sent'[k].fin # "", NEW j \in (k + 1) .. Len(sent')
        PROVE  sent'[j].i # sent'[k].i
    <3>1. k \in 1 .. n /\ sent'[k] = sent[k] /\ k \in DOMAIN sent
      BY <1>2, <1>81, <2>1
    <3>2. j \in (k + 1) .. n + m /\ j \in 1 .. n + m
      BY <1>2, <3>1
    <3>3. CASE j \in 1 .. n
      <4>1. j \in (k + 1) .. Len(sent) /\ sent'[j] = sent[j]
        BY <1>2, <3>2, <3>3 DEF n
      <4> QED BY <2>1, <3>1, <4>1 DEF SoFar, LastWord
    <3>4. CASE sent'[j].i = -1
      BY <1>4, <1>5, <3>1, <3>4
    <3> QED BY <1>81, <3>2, <3>3, <3>4
  <2> QED BY <2>1 DEF LastWord
<1>10. Counted'
  <2>1. ASSUME NEW k \in DOMAIN sent', NEW u \in sent'[k].usage
        PROVE  /\ sent'[k].fin # "" => u.completion = made[sent'[k].i]
               /\ \A j \in 1 .. k - 1 : \A v \in sent'[j].usage :
                     sent'[j].i = sent'[k].i => v.completion <= u.completion
    <3>1. CASE k \in 1 .. n /\ sent'[k] = sent[k] /\ k \in DOMAIN sent
      <4>1. \A j \in 1 .. k - 1 : sent'[j] = sent[j]
        BY <1>2, <3>1
      <4> QED BY ZenonT(30), <2>1, <3>1, <4>1 DEF SoFar, Counted
    <3>2. CASE k - n \in 1 .. m /\ sent'[k] = t[k - n] /\ k > n
      <4>1. sent'[k].i = -1 /\ sent'[k].fin = ""
        BY <1>6, <3>2
      <4>2. ASSUME NEW j \in 1 .. k - 1, NEW v \in sent'[j].usage
            PROVE  sent'[j].i # sent'[k].i
        <5>1. j \in 1 .. n + m /\ k \in 1 .. n + m /\ j # k
          BY <1>2
        <5>2. CASE j \in 1 .. n /\ sent'[j] = sent[j] /\ j \in DOMAIN sent
          BY <1>4, <1>5, <4>1, <5>2
        <5>3. CASE j - n \in 1 .. m /\ sent'[j] = t[j - n] /\ j > n
          <6>1. t[j - n].usage # {} /\ t[k - n].usage # {}
            BY <2>1, <3>2, <4>2, <5>3
          <6>2. j - n = k - n
            BY <1>2, <3>2, <5>3, <6>1 DEF Ends
          <6> QED BY <1>2, <5>1, <6>2
        <5> QED BY <1>8, <5>1, <5>2, <5>3
      <4> QED BY <4>1, <4>2
    <3> QED BY <1>2, <1>8, <3>1, <3>2
  <2> QED BY <2>1 DEF Counted
<1>11. ToolFinish'
  <2>1. ASSUME NEW k \in DOMAIN sent', sent'[k].fin # ""
        PROVE  LET called == \E j \in 1 .. k : /\ sent'[j].kind = "delta"
                                               /\ sent'[j].i \in Sharers(sent'[k].i)
                                               /\ sent'[j].m.tools # <<>>
               IN  /\ sent'[k].kind # "choice"
                   /\ sent'[k].fin = "tool_calls" =>
                         (called \/ ~req.parallel_tool_calls) /\ Mode # "named"
                   /\ sent'[k].fin = "stop" => ~called \/ Mode = "named"
    <3>1. k \in 1 .. n /\ sent'[k] = sent[k] /\ k \in DOMAIN sent
      BY <1>2, <1>81, <2>1
    <3>2. \A j \in 1 .. k : sent'[j] = sent[j]
      BY <1>2, <3>1
    <3>3. sent[k].kind # "choice"
      BY <1>4, <3>1
    <3> QED BY <3>1, <3>2, <3>3 DEF SoFar, ToolFinish
  <2> QED BY <1>1, <2>1 DEF ToolFinish
<1>12. n + m \in DOMAIN sent' /\ sent'[n + m] = t[m] /\ t[m].kind = "done"
  <2>1. n \in Nat /\ m \in Nat /\ m > 0
    BY <1>2, <1>3
  <2>2. n + m \in 1 .. n + m /\ m \in 1 .. m
    BY ONLY <2>1
  <2>3. sent'[n + m] = t[m]
    BY <1>2, <2>2
  <2>4. t[m].kind = "done"
    BY <1>6, <2>2
  <2> QED BY <1>2, <2>2, <2>3, <2>4
<1>13. \A k \in DOMAIN sent' : sent'[k].kind = "done" => k = n + m
  <2>1. ASSUME NEW k \in DOMAIN sent', sent'[k].kind = "done" PROVE k = n + m
    <3>1. k \in 1 .. n + m
      BY <1>2
    <3> QED BY <1>4, <1>81, <2>1, <3>1
  <2> QED BY <2>1
<1>14. \A i : Finished(i) => Finished(i)'
  <2> TAKE i
  <2>1. \A k \in DOMAIN sent : k \in DOMAIN sent' /\ sent'[k] = sent[k]
    BY <1>2
  <2> QED BY <2>1 DEF Finished
<1>15. FinishOnce'
  <2>1. Last(sent').kind = "done"
    BY <1>2, <1>12 DEF Last
  <2>2. \A k \in DOMAIN sent' : sent'[k].kind = "done" => k = Len(sent')
    BY <1>2, <1>13
  <2>3. phase' = "closed" => \A i \in Lanes : Finished(i)' \/ (ended[i] = "error" /\ made[i] = 0)
    BY <1>14
  <2> QED BY <1>1, <1>9, <2>1, <2>2, <2>3 DEF FinishOnce, LastWord, Finished
<1>16. UsageAddsUp'
  BY <1>10 DEF UsageAddsUp, Counted
<1> QED BY <1>11, <1>15, <1>16 DEF FinishesRight

LEMMA MadeLen ==
    ASSUME NEW S, NEW s \in Seq(S), NEW n \in Nat, n <= Len(s)
    PROVE  /\ Len(SubSeq(s, 1, n)) = n
           /\ \A k \in 1 .. n : SubSeq(s, 1, n)[k] = s[k]
OBVIOUS

LEMMA NoChoice ==
    ASSUME NEW kind
    PROVE  LET x == Chunk(kind, -1, Empty, "", 0)
           IN  /\ DOMAIN x = {"kind", "i", "m", "fin", "logprobs", "usage"}
               /\ x.kind = kind /\ x.i = -1 /\ x.fin = "" /\ x.usage = {}
<1> DEFINE x == Chunk(kind, -1, Empty, "", 0)
<1>1. IsChunk(x, kind, -1, Empty, "", 0)
  BY ChunkIs
<1>2. ~(-1 >= 0)
  OBVIOUS
<1> HIDE DEF x
<1>3. /\ DOMAIN x = {"kind", "i", "m", "fin", "logprobs", "usage"}
      /\ x.kind = kind /\ x.i = -1 /\ x.fin = "" /\ x.usage = {}
  BY <1>1, <1>2 DEF IsChunk
<1> QED BY <1>3 DEF x

LEMMA OneDone == Ends(<<Done>>)
<1>1. Done.kind = "done" /\ Done.i = -1 /\ Done.fin = "" /\ Done.usage = {}
  BY NoChoice DEF Done
<1> DEFINE t == <<Done>>
<1>2. Len(t) = 1 /\ t[1] = Done /\ DOMAIN t = 1 .. 1 /\ t \in Seq({Done}) /\ t # <<>>
  OBVIOUS
<1> HIDE DEF t
<1>3. IsSeq(t)
  BY <1>2, OwnValues
<1>4. \A k \in DOMAIN t : k = 1
  BY <1>2
<1>5. Ends(t)
  BY <1>1, <1>2, <1>3, <1>4 DEF Ends
<1> QED BY <1>5 DEF t

LEMMA PairIs ==
    ASSUME NEW x, NEW y
    PROVE  LET t == <<x, y>>
           IN  Len(t) = 2 /\ t[1] = x /\ t[2] = y /\ DOMAIN t = 1 .. 2 /\ IsSeq(t) /\ t # <<>>
<1> DEFINE t == <<x, y>>
<1>1. t \in Seq({x, y})
  OBVIOUS
<1>2. Len(t) = 2
  OBVIOUS
<1>3. DOMAIN t = 1 .. 2
  OBVIOUS
<1>4. t[1] = x /\ t[2] = y
  OBVIOUS
<1>5. t # <<>>
  OBVIOUS
<1> HIDE DEF t
<1>6. IsSeq(t)
  BY <1>1, OwnValues
<1>7. Len(t) = 2 /\ t[1] = x /\ t[2] = y /\ DOMAIN t = 1 .. 2 /\ IsSeq(t) /\ t # <<>>
  BY <1>2, <1>3, <1>4, <1>5, <1>6
<1> QED BY <1>7 DEF t

LEMMA TwoEnds ==
    ASSUME NEW x, x.i = -1, x.fin = "", x.kind \in {"error", "usage"}
    PROVE  Ends(<<x, Done>>)
<1> DEFINE d == Done
           t == <<x, d>>
<1>1. d.kind = "done" /\ d.i = -1 /\ d.fin = "" /\ d.usage = {}
  BY NoChoice DEF Done
<1> HIDE DEF d
<1>2. Len(t) = 2 /\ t[1] = x /\ t[2] = d /\ DOMAIN t = 1 .. 2 /\ IsSeq(t) /\ t # <<>>
  BY PairIs
<1> HIDE DEF t
<1>4. \A k \in DOMAIN t : k = 1 \/ k = 2
  <2>1. ASSUME NEW k \in 1 .. 2 PROVE k = 1 \/ k = 2
    BY ONLY <2>1
  <2> QED BY ONLY <1>2, <2>1
<1>5. \A k \in DOMAIN t : /\ t[k].i = -1 /\ t[k].fin = ""
                          /\ t[k].kind \notin {"delta", "choice"}
                          /\ t[k].kind = "done" <=> k = Len(t)
                          /\ t[k].usage # {} => k = 1
  <2>1. t[1].i = -1 /\ t[1].fin = "" /\ t[1].kind \notin {"delta", "choice", "done"}
    BY <1>2
  <2>2. t[2].i = -1 /\ t[2].fin = "" /\ t[2].kind = "done" /\ t[2].usage = {}
    BY <1>1, <1>2
  <2> QED BY <1>2, <1>4, <2>1, <2>2
<1>6. Ends(t)
  BY ZenonT(30), <1>2, <1>5 DEF Ends
<1> QED BY <1>6 DEF t, d

LEMMA AbortRight ==
    ASSUME StreamOK, SoFar, UNCHANGED <<req, server, made, ended, usage>>, Abort
    PROVE  FinishesRight' /\ phase' = "broken"
<1>1. sent' = sent \o <<Error, Done>> /\ phase' = "broken"
  BY DEF Abort
<1>2. Error.i = -1 /\ Error.fin = "" /\ Error.kind = "error"
  BY NoChoice DEF Error
<1>3. Ends(<<Error, Done>>)
  BY <1>2, TwoEnds
<1>4. ChunkOK /\ usage' = {}
  BY DEF StreamOK
<1> DEFINE t == <<Error, Done>>
<1> HIDE DEF t
<1>5. Ends(t) /\ sent' = sent \o t
  BY <1>1, <1>3 DEF t
<1> QED BY <1>1, <1>4, <1>5, EndsRight

LEMMA EndRight ==
    ASSUME StreamOK, SoFar, EndStream
    PROVE  FinishesRight' /\ phase' = "closed"
<1>1. /\ res = {} /\ AllEnded /\ usage' = {StreamUsage} /\ phase' = "closed"
      /\ UNCHANGED <<req, server, text, made, ended, lane>>
  BY DEF EndStream, engineVars, localVars
<1>2. EngineOK /\ CountOK /\ LaneOK /\ ChunkOK
  BY DEF StreamOK
<1>3. \A i \in Lanes : Over(i)
  BY <1>1 DEF AllEnded, Over, InRes
<1>4. \A i \in Lanes : lane[i].num = Len(Tokens(i))
  <2> TAKE i \in Lanes
  <2>1. made[i] = lane[i].num + Held(i)
    BY <1>2, <1>3 DEF CountOK, Over
  <2>2. Held(i) = 0
    BY <1>3 DEF Over, Held
  <2>3. lane[i].num \in Nat /\ made[i] \in Nat
    BY <1>2 DEF LaneOK, IsLane, EngineOK
  <2>4. lane[i].num = made[i]
    BY ONLY <2>1, <2>2, <2>3
  <2>5. Len(SubSeq(text[i], 1, made[i])) = made[i]
    <3>1. text[i] \in Seq(Token) /\ made[i] <= Len(text[i])
      BY <1>2 DEF EngineOK
    <3> QED BY <2>3, <3>1, MadeLen
  <2> QED BY <2>4, <2>5 DEF Tokens
<1>5. StreamUsage = FullUsage'
  <2>1. Lanes' = Lanes /\ NumPrompts' = NumPrompts
    BY <1>1, SameRequest
  <2>2. \A i : Tokens(i)' = Tokens(i)
    BY <1>1 DEF Tokens
  <2> DEFINE c == [i \in Lanes |-> lane[i].num]
             e == [i \in Lanes |-> Len(Tokens(i))]
  <2>3. c = e
    BY <1>4
  <2>4. StreamUsage = [prompt |-> PromptLen * NumPrompts, completion |-> Total(c)]
    BY DEF StreamUsage, UsageOf
  <2>5. FullUsage' = [prompt |-> PromptLen * NumPrompts, completion |-> Total(e)]
    BY <2>1, <2>2 DEF FullUsage, UsageOf
  <2> QED BY <2>3, <2>4, <2>5
<1>6. \A i \in Lanes : Finished(i) \/ (ended[i] = "error" /\ made[i] = 0)
  BY <1>2, <1>3 DEF LaneOK
<1>7. \E t : Ends(t) /\ sent' = sent \o t
  <2> DEFINE x == [Chunk("usage", -1, Empty, "", 0) EXCEPT !.usage = {StreamUsage}]
  <2>1. x.i = -1 /\ x.fin = "" /\ x.kind = "usage"
    <3> DEFINE y == Chunk("usage", -1, Empty, "", 0)
    <3>1. /\ DOMAIN y = {"kind", "i", "m", "fin", "logprobs", "usage"}
          /\ y.i = -1 /\ y.fin = "" /\ y.kind = "usage"
      BY NoChoice
    <3>2. x = [y EXCEPT !.usage = {StreamUsage}]
      OBVIOUS
    <3> HIDE DEF x, y
    <3> QED BY <3>1, <3>2
  <2>2. sent' = sent \o <<x, Done>> \/ sent' = sent \o <<Done>>
    BY DEF EndStream
  <2> HIDE DEF x
  <2>3. Ends(<<x, Done>>) /\ Ends(<<Done>>)
    BY <2>1, TwoEnds, OneDone
  <2> QED BY <2>2, <2>3
<1>8. PICK t : Ends(t) /\ sent' = sent \o t
  BY <1>7
<1>9. \A u \in usage' : u = FullUsage'
  BY <1>1, <1>5
<1> QED BY <1>1, <1>2, <1>6, <1>8, <1>9, EndsRight

-----------------------------------------------------------------------------
(* The outputs of a chat.                                                  *)

(* What is shown of a delta has a tool call if the delta has one. *)
LEMMA ShownCall ==
    ASSUME NEW msg, IsMsg(msg), NEW fin, NEW pz
    PROVE  LET m == IF msg = {} THEN Empty ELSE CHOOSE x \in msg : TRUE
               out == IF fin = "" THEN m ELSE Unstreamed(m, pz)
           IN  DOMAIN out = {"r", "c", "tools"} /\ (out.tools # <<>> <=> HasCall(msg))
<1> DEFINE m == IF msg = {} THEN Empty ELSE CHOOSE x \in msg : TRUE
<1>1. DOMAIN m = {"r", "c", "tools"} /\ (m.tools # <<>> <=> HasCall(msg))
  <2>1. CASE msg = {}
    <3>1. m = Empty
      BY <2>1
    <3>2. ~HasCall(msg)
      BY <2>1 DEF HasCall
    <3>3. DOMAIN Empty = {"r", "c", "tools"} /\ Empty.tools = <<>>
      BY DEF Empty
    <3> HIDE DEF m
    <3> QED BY <3>1, <3>2, <3>3
  <2>2. CASE msg # {}
    <3>1. PICK r, c, tools : msg = Message(r, c, tools)
      BY <2>2 DEF IsMsg
    <3> DEFINE y == [r |-> r, c |-> c, tools |-> tools]
    <3>2. msg = {y} /\ y.tools = tools /\ DOMAIN y = {"r", "c", "tools"}
      BY <3>1 DEF Message
    <3> HIDE DEF y
    <3>3. m = y
      BY <3>2
    <3>4. HasCall(msg) <=> tools # <<>>
      BY <3>1, MessageCalls
    <3> QED BY <3>2, <3>3, <3>4
  <2> QED BY <2>1, <2>2
<1> HIDE DEF m
<1>2. CASE fin = "" \/ Unstreamed(m, pz) = m
  BY <1>1, <1>2 DEF m
<1>3. CASE fin # "" /\ Unstreamed(m, pz) # m
  <2>1. m.tools # <<>> /\ \E piece : Unstreamed(m, pz) = [r |-> <<>>, c |-> <<>>, tools |-> <<piece>>]
    BY <1>3 DEF Unstreamed
  <2>2. PICK piece : Unstreamed(m, pz) = [r |-> <<>>, c |-> <<>>, tools |-> <<piece>>]
    BY <2>1
  <2> DEFINE u == Unstreamed(m, pz)
  <2>3. DOMAIN u = {"r", "c", "tools"} /\ u.tools = <<piece>>
    BY <2>2
  <2>4. <<piece>> # <<>>
    OBVIOUS
  <2> HIDE DEF u
  <2>5. DOMAIN u = {"r", "c", "tools"} /\ (u.tools # <<>> <=> HasCall(msg))
    BY <1>1, <2>1, <2>3, <2>4
  <2> QED BY <1>3, <2>5 DEF u, m
<1> QED BY <1>2, <1>3

(* A chunk with its log-probabilities, of a message filtered or not. *)
LEMMA ScoredChunk ==
    ASSUME NEW i, NEW m, NEW fin, NEW count, NEW scores
    PROVE  LET x == [Chunk("delta", i, m, fin, count) EXCEPT !.logprobs = scores]
           IN  /\ x.kind = "delta" /\ x.i = i /\ x.m = m /\ x.fin = fin
               /\ \A u \in x.usage : u.completion = count
<1> DEFINE y == Chunk("delta", i, m, fin, count)
<1>1. IsChunk(y, "delta", i, m, fin, count)
  BY ChunkIs
<1> HIDE DEF y
<1> DEFINE x == [y EXCEPT !.logprobs = scores]
<1>2. /\ x.kind = "delta" /\ x.i = i /\ x.m = m /\ x.fin = fin
      /\ x.usage = y.usage
  BY <1>1 DEF IsChunk
<1>3. /\ x.kind = "delta" /\ x.i = i /\ x.m = m /\ x.fin = fin
      /\ \A u \in x.usage : u.completion = count
  BY <1>1, <1>2 DEF IsChunk
<1> QED BY <1>3 DEF y

(* What an output of a chat needs of the state before. *)
LEMMA ChatFacts ==
    ASSUME StreamOK, WellFormed(req), req.kind = "chat", NEW o \in res
    PROVE  /\ o.i \in Lanes /\ IsLane(lane[o.i]) /\ o.toks \in Seq(Token)
           /\ ~lane[o.i].sent /\ LaneTools(lane[o.i], parser)
           /\ parser.calls \in Seq(Seq(Token))
           /\ DeltaOK(lane[o.i], ChatDelta(o.i, lane[o.i], o.toks))
<1>1. ResOK /\ LaneOK /\ ToolOK
  BY DEF StreamOK
<1>2. o.i \in Lanes /\ o.toks \in Seq(Token)
  BY <1>1 DEF ResOK
<1>3. ~Over(o.i)
  BY DEF Over, InRes
<1>4. IsLane(lane[o.i]) /\ ~lane[o.i].sent
  BY <1>1, <1>2, <1>3 DEF LaneOK
<1>5. LaneTools(lane[o.i], parser) /\ parser.calls \in Seq(Seq(Token))
  BY <1>1, <1>2 DEF ToolOK
<1>6. Mode \in Modes /\ Mode # "completion"
  BY ModeIs
<1>7. DeltaOK(lane[o.i], ChatDelta(o.i, lane[o.i], o.toks))
  BY <1>2, <1>4, <1>5, <1>6, ChatDeltaOK
<1> QED BY <1>2, <1>4, <1>5, <1>7

(* The branch of ChatOutput that reads the delta. *)
ChatRead(o, d) ==
    LET s == lane[o.i]
        told == [d.lane EXCEPT !.num = @ + Len(o.toks)]
        m == IF d.msg = {} THEN Empty ELSE CHOOSE x \in d.msg : TRUE
        out == IF o.fin = "" THEN m ELSE Unstreamed(m, d.parser)
        fin == IF o.fin = "" THEN "" ELSE FinishReason(told, d.parser, o.fin)
    IN  /\ parser' = d.parser
        /\ lane' = [lane EXCEPT ![o.i] = [told EXCEPT !.sent = o.fin # ""]]
        /\ sent' = IF d.msg = {} /\ o.fin = "" /\ ~req.return_token_ids THEN sent
                   ELSE Append(sent,
                          [Chunk("delta", o.i,
                              [out EXCEPT !.tools = maybe_filter_parallel_tool_calls(@)],
                              fin, told.num)
                           EXCEPT !.logprobs = _create_chat_logprobs(o.toks)])

LEMMA ChatReadKeeps ==
    ASSUME StreamOK, SoFar, WellFormed(req), req.kind = "chat",
           NEW o \in res, o.fin # "error", res' = res \ {o},
           UNCHANGED <<req, server, text, made, ended, pending, first, usage>>,
           ChatRead(o, ChatDelta(o.i, lane[o.i], o.toks))
    PROVE  StreamOK' /\ SoFar'
<1> DEFINE s == lane[o.i]
           d == ChatDelta(o.i, s, o.toks)
           told == [d.lane EXCEPT !.num = @ + Len(o.toks)]
           ends == o.fin # ""
           new == [told EXCEPT !.sent = ends]
           m == IF d.msg = {} THEN Empty ELSE CHOOSE x \in d.msg : TRUE
           out == IF o.fin = "" THEN m ELSE Unstreamed(m, d.parser)
           shown == [out EXCEPT !.tools = maybe_filter_parallel_tool_calls(@)]
           fin == IF o.fin = "" THEN "" ELSE FinishReason(told, d.parser, o.fin)
           x == [Chunk("delta", o.i, shown, fin, told.num)
                     EXCEPT !.logprobs = _create_chat_logprobs(o.toks)]
<1>1. /\ parser' = d.parser /\ lane' = [lane EXCEPT ![o.i] = new]
      /\ \/ d.msg = {} /\ o.fin = "" /\ sent' = sent
         \/ sent' = Append(sent, x)
  BY DEF ChatRead
<1>2. /\ IsLane(s) /\ o.toks \in Seq(Token) /\ LaneTools(s, parser) /\ DeltaOK(s, d)
  BY ChatFacts
<1> HIDE DEF d
<1>3. Len(o.toks) \in Nat /\ ends \in BOOLEAN /\ IsLane(d.lane)
  BY <1>2 DEF DeltaOK
<1>4. /\ told.tools = d.lane.tools /\ told.num = d.lane.num + Len(o.toks)
      /\ IsLane(new) /\ new.num = told.num /\ new.sent = ends
      /\ new.tools = d.lane.tools /\ new.named = d.lane.named
  <2> DEFINE l == d.lane
             n == Len(o.toks)
             a == [l EXCEPT !.num = @ + n]
             e == [a EXCEPT !.sent = ends]
  <2>1. n \in Nat /\ ends \in BOOLEAN /\ IsLane(l)
    BY <1>3
  <2> HIDE DEF ends, l, n
  <2>11. a = [l EXCEPT !.num = @ + n] /\ e = [a EXCEPT !.sent = ends]
    OBVIOUS
  <2> HIDE DEF a, e
  <2>2. /\ a.tools = l.tools /\ a.num = l.num + n
        /\ IsLane(e) /\ e.num = l.num + n /\ e.sent = ends
        /\ e.tools = l.tools /\ e.named = l.named
    BY <2>1, <2>11, LaneFields DEF IsLane
  <2>3. a = told /\ e = new
    BY DEF a, e, l, n
  <2> QED BY <2>2, <2>3 DEF l, n
<1>5. d.lane.num = s.num /\ IsMsg(d.msg) /\ d.parser.calls \in Seq(Seq(Token))
      /\ LaneTools(d.lane, d.parser)
      /\ (Mode # "named" => (Found(d.lane, d.parser) <=> HasCall(d.msg) \/ Found(s, parser)))
  BY <1>2 DEF DeltaOK
<1>6. DOMAIN out = {"r", "c", "tools"} /\ (out.tools # <<>> <=> HasCall(d.msg))
  BY <1>5, ShownCall
<1> DEFINE t == told.tools
           q == told.num
<1>7. fin = IF o.fin = "" THEN ""
            ELSE IF (Mode = "auto" /\ d.parser.calls # <<>>) \/ (t /\ Mode # "named")
                 THEN "tool_calls" ELSE o.fin
  BY DEF FinishReason
<1> HIDE DEF told, m, out
<1>8. shown.tools = maybe_filter_parallel_tool_calls(out.tools)
  BY <1>6
<1>9. (shown.tools # <<>> => HasCall(d.msg))
      /\ (req.parallel_tool_calls /\ HasCall(d.msg) => shown.tools # <<>>)
  BY <1>6, <1>8 DEF maybe_filter_parallel_tool_calls
<1> HIDE DEF shown
<1>10. LaneTools(new, d.parser) /\ (Found(new, d.parser) <=> Found(d.lane, d.parser))
  BY <1>4, <1>5 DEF LaneTools, Found
<1>11. Turn(o, new)
  <2>1. new.num = s.num + Len(o.toks)
    BY <1>4, <1>5
  <2>2. new.sent => o.fin # ""
    BY <1>4
  <2> HIDE DEF new
  <2>3. /\ DOMAIN lane' = Lanes /\ lane'[o.i] = new
        /\ \A j \in Lanes \ {o.i} : lane'[j] = lane[j]
    <3>1. DOMAIN lane = Lanes /\ o.i \in Lanes
      BY DEF StreamOK, LaneOK, ResOK
    <3> QED BY <1>1, <3>1
  <2> QED BY <1>1, <1>4, <1>5, <1>10, <2>1, <2>2, <2>3 DEF Turn
<1>12. /\ x.kind = "delta" /\ x.i = o.i /\ x.m = shown /\ x.fin = fin
       /\ \A u \in x.usage : u.completion = told.num
  <2> HIDE DEF fin
  <2> QED BY ScoredChunk
<1>13. Mode # "named" /\ Found(new, d.parser) <=>
           (Mode = "auto" /\ d.parser.calls # <<>>) \/ (t /\ Mode # "named")
  BY <1>4, <1>5, <1>10 DEF Found, LaneTools
<1> HIDE DEF new, x, fin
<1>14. CASE d.msg = {} /\ o.fin = "" /\ sent' = sent
  <2>1. ~HasCall(d.msg)
    BY <1>14 DEF HasCall
  <2>2. Mode # "named" /\ Found(new, parser') => Found(s, parser)
    BY <1>1, <1>5, <1>10, <2>1
  <2> QED BY <1>11, <1>14, <2>2, TurnQuiet
<1>15. CASE sent' = Append(sent, x)
  <2>1. \A u \in x.usage : u.completion = new.num
    BY <1>4, <1>12
  <2>2. o.fin = "" => x.fin = ""
    BY <1>7, <1>12
  <2>3. o.fin # "" => x.fin = IF Mode # "named" /\ Found(new, parser') THEN "tool_calls" ELSE o.fin
    BY <1>1, <1>7, <1>12, <1>13
  <2>4. Mode # "named" => /\ Tells(x) => Found(new, parser')
                          /\ req.parallel_tool_calls /\ Found(new, parser') =>
                                Found(s, parser) \/ Tells(x)
    BY <1>1, <1>5, <1>9, <1>10, <1>12 DEF Tells
  <2>5. Says(x, o, new)
    BY <1>12, <1>15, <2>1, <2>2, <2>3, <2>4 DEF Says
  <2> QED BY <1>11, <2>5, TurnChunk
<1> QED BY <1>1, <1>14, <1>15

LEMMA ChatOutputKeeps ==
    ASSUME StreamOK, SoFar, WellFormed(req), ChatOutput
    PROVE  /\ UNCHANGED <<req, server>>
           /\ \/ StreamOK' /\ SoFar' /\ phase' = "streaming"
              \/ FinishesRight' /\ phase' = "broken"
<1>1. /\ phase = "streaming" /\ req.kind = "chat"
      /\ UNCHANGED <<req, server, text, made, ended, pending, first, usage>>
  BY DEF ChatOutput, engineVars
<1>2. PICK o \in NextOutput :
          /\ res' = res \ {o}
          /\ \/ lane[o.i].sent
             \/ /\ o.toks = <<>> /\ lane[o.i].num = 0 /\ UNCHANGED <<phase, lane, parser, sent>>
             \/ Abort
             \/ /\ o.fin # "error" /\ phase' = phase
                /\ ChatRead(o, ChatDelta(o.i, lane[o.i], o.toks))
  <2> DEFINE told(o, d) == [d.lane EXCEPT !.num = @ + Len(o.toks)]
             m(d) == IF d.msg = {} THEN Empty ELSE CHOOSE x \in d.msg : TRUE
             out(o, d) == IF o.fin = "" THEN m(d) ELSE Unstreamed(m(d), d.parser)
             fin(o, d) == IF o.fin = "" THEN "" ELSE FinishReason(told(o, d), d.parser, o.fin)
             unread(o) == o.toks = <<>> /\ lane[o.i].num = 0
  <2>1. \E o \in NextOutput : \E d \in {ChatDelta(o.i, lane[o.i], o.toks)} :
          /\ res' = res \ {o}
          /\ \/ lane[o.i].sent
             \/ unread(o) /\ UNCHANGED <<phase, lane, parser, sent>>
             \/ Abort
             \/ /\ o.fin # "error" /\ phase' = phase
                /\ parser' = d.parser
                /\ lane' = [lane EXCEPT ![o.i] = [told(o, d) EXCEPT !.sent = o.fin # ""]]
                /\ sent' = IF d.msg = {} /\ o.fin = "" /\ ~req.return_token_ids THEN sent
                           ELSE Append(sent,
                                  [Chunk("delta", o.i,
                                      [out(o, d) EXCEPT !.tools = maybe_filter_parallel_tool_calls(@)],
                                      fin(o, d), told(o, d).num)
                                   EXCEPT !.logprobs = _create_chat_logprobs(o.toks)])
    BY ZenonT(30) DEF ChatOutput
  <2>2. PICK o \in NextOutput : \E d \in {ChatDelta(o.i, lane[o.i], o.toks)} :
          /\ res' = res \ {o}
          /\ \/ lane[o.i].sent
             \/ unread(o) /\ UNCHANGED <<phase, lane, parser, sent>>
             \/ Abort
             \/ o.fin # "error" /\ phase' = phase /\ ChatRead(o, d)
    BY <2>1 DEF ChatRead
  <2> QED BY <2>2
<1>3. o \in res
  BY DEF NextOutput
<1>4. /\ o.i \in Lanes /\ IsLane(lane[o.i]) /\ o.toks \in Seq(Token)
      /\ ~lane[o.i].sent /\ LaneTools(lane[o.i], parser)
      /\ parser.calls \in Seq(Seq(Token))
  BY <1>1, <1>3, ChatFacts
<1>5. CASE o.toks = <<>> /\ lane[o.i].num = 0 /\ UNCHANGED <<phase, lane, parser, sent>>
  <2> DEFINE new == lane[o.i]
  <2>1. /\ DOMAIN lane' = Lanes /\ lane'[o.i] = new
        /\ \A j \in Lanes \ {o.i} : lane'[j] = lane[j]
    BY <1>4, <1>5 DEF StreamOK, LaneOK
  <2>2. new.num = new.num + Len(o.toks)
    <3>1. Len(o.toks) = 0 /\ new.num \in Nat
      BY <1>4, <1>5 DEF IsLane
    <3> HIDE DEF new
    <3> QED BY <3>1
  <2>3. parser' = parser
    BY <1>5
  <2>4. Turn(o, new)
    BY <1>1, <1>2, <1>3, <1>4, <2>1, <2>2, <2>3 DEF Turn
  <2>5. StreamOK' /\ SoFar'
    BY <1>5, <2>3, <2>4, TurnQuiet
  <2> QED BY <1>1, <1>5, <2>5
<1>6. CASE Abort
  BY <1>1, <1>6, AbortRight
<1>7. CASE o.fin # "error" /\ phase' = phase /\ ChatRead(o, ChatDelta(o.i, lane[o.i], o.toks))
  BY <1>1, <1>2, <1>3, <1>7, ChatReadKeeps
<1> QED BY <1>2, <1>4, <1>5, <1>6, <1>7

-----------------------------------------------------------------------------
(* The outputs of a completion.                                            *)

LEMMA CompletionFacts ==
    ASSUME StreamOK, WellFormed(req), req.kind = "completion", NEW o \in res
    PROVE  /\ o.i \in Lanes /\ IsLane(lane[o.i]) /\ o.toks \in Seq(Token)
           /\ ~lane[o.i].sent /\ ~lane[o.i].tools /\ Mode = "completion"
           /\ parser.calls \in Seq(Seq(Token))
<1>1. ResOK /\ LaneOK /\ ToolOK
  BY DEF StreamOK
<1>2. o.i \in Lanes /\ o.toks \in Seq(Token)
  BY <1>1 DEF ResOK
<1>3. ~Over(o.i)
  BY DEF Over, InRes
<1>4. IsLane(lane[o.i]) /\ ~lane[o.i].sent
  BY <1>1, <1>2, <1>3 DEF LaneOK
<1>5. Mode = "completion"
  BY ModeIs
<1>6. ~lane[o.i].tools /\ parser.calls \in Seq(Seq(Token))
  BY <1>1, <1>2, <1>5 DEF ToolOK, LaneTools
<1> QED BY <1>2, <1>4, <1>5, <1>6

(* A completion's turn: no tools, and its parser is not used. *)
LEMMA CompletionTurn ==
    ASSUME StreamOK, WellFormed(req), req.kind = "completion", NEW o \in res, res' = res \ {o},
           UNCHANGED <<req, server, text, made, ended, pending, first, parser, usage>>,
           NEW new, lane' = [lane EXCEPT ![o.i] = new],
           IsLane(new), new.num = lane[o.i].num + Len(o.toks),
           new.sent = lane[o.i].sent, new.tools = lane[o.i].tools
    PROVE  /\ Turn(o, new) /\ Mode = "completion"
           /\ ~Found(new, parser') /\ ~Found(lane[o.i], parser)
<1>1. ~lane[o.i].sent /\ ~lane[o.i].tools /\ Mode = "completion"
      /\ parser.calls \in Seq(Seq(Token))
  BY CompletionFacts
<1>2. ~Found(new, parser') /\ ~Found(lane[o.i], parser) /\ LaneTools(new, parser')
  BY <1>1 DEF Found, LaneTools
<1>3. /\ DOMAIN lane' = Lanes /\ lane'[o.i] = new
      /\ \A j \in Lanes \ {o.i} : lane'[j] = lane[j]
  <2>1. DOMAIN lane = Lanes /\ o.i \in Lanes
    BY DEF StreamOK, LaneOK, ResOK
  <2> QED BY <2>1
<1> QED BY <1>1, <1>2, <1>3 DEF Turn

(* The branches of CompletionOutput that do not end the stream. *)
CompletionSkips(o, b) ==
    /\ o.toks = <<>> /\ lane[o.i].num = 0 /\ phase' = phase /\ sent' = sent
    /\ lane' = [lane EXCEPT ![o.i].echoed = b]

CompletionSays(o, c, scored, b, len) ==
    LET told == [lane[o.i] EXCEPT !.num = @ + Len(o.toks), !.len = @ + len, !.echoed = b]
    IN  /\ o.fin # "error" /\ phase' = phase
        /\ lane' = [lane EXCEPT ![o.i] = told]
        /\ sent' = Append(sent,
              [Chunk("delta", o.i, [Empty EXCEPT !.c = c], o.fin, told.num)
               EXCEPT !.logprobs = scored])

LEMMA CompletionSkipsKeeps ==
    ASSUME StreamOK, SoFar, WellFormed(req), req.kind = "completion", NEW o \in res,
           res' = res \ {o}, NEW b, CompletionSkips(o, b),
           UNCHANGED <<req, server, text, made, ended, pending, first, parser, usage>>
    PROVE  StreamOK' /\ SoFar'
<1> DEFINE s == lane[o.i]
           new == [s EXCEPT !.echoed = b]
           n == Len(o.toks)
<1>1. IsLane(s) /\ o.toks = <<>> /\ s.num = 0 /\ n = 0 /\ sent' = sent
  BY CompletionFacts DEF CompletionSkips
<1>2. lane' = [lane EXCEPT ![o.i] = new]
  BY DEF CompletionSkips
<1> HIDE DEF s
<1>3. IsLane(new) /\ new.num = s.num /\ new.sent = s.sent /\ new.tools = s.tools
  BY <1>1, LaneFields DEF IsLane
<1>4. new.num = s.num + n
  BY <1>1, <1>3
<1> HIDE DEF new
<1>5. Turn(o, new) /\ ~Found(new, parser')
  BY <1>2, <1>3, <1>4, CompletionTurn DEF s
<1> QED BY <1>1, <1>5, TurnQuiet DEF s

LEMMA CompletionSaysKeeps ==
    ASSUME StreamOK, SoFar, WellFormed(req), req.kind = "completion", NEW o \in res,
           res' = res \ {o}, NEW c, NEW scored, NEW b, NEW len,
           CompletionSays(o, c, scored, b, len),
           UNCHANGED <<req, server, text, made, ended, pending, first, parser, usage>>
    PROVE  StreamOK' /\ SoFar'
<1> DEFINE s == lane[o.i]
           n == Len(o.toks)
           new == [s EXCEPT !.num = @ + n, !.len = @ + len, !.echoed = b]
           m == [Empty EXCEPT !.c = c]
           q == new.num
           x == [Chunk("delta", o.i, m, o.fin, q) EXCEPT !.logprobs = scored]
<1>1. IsLane(s) /\ n \in Nat /\ Mode = "completion"
  <2>1. IsLane(s) /\ o.toks \in Seq(Token) /\ Mode = "completion"
    BY CompletionFacts
  <2> QED BY <2>1, LenProperties
<1>2. lane' = [lane EXCEPT ![o.i] = new] /\ o.fin # "error" /\ sent' = Append(sent, x)
  BY DEF CompletionSays
<1>3. m.tools = <<>>
  BY DEF Empty
<1> HIDE DEF s, n, m
<1>31. new = [s EXCEPT !.num = @ + n, !.len = @ + len, !.echoed = b]
  OBVIOUS
<1> HIDE DEF new
<1>4. IsLane(new) /\ new.num = s.num + n /\ new.sent = s.sent /\ new.tools = s.tools
  BY <1>1, <1>31, LaneFields DEF IsLane
<1>5. /\ x.kind = "delta" /\ x.i = o.i /\ x.m = m /\ x.fin = o.fin
      /\ \A u \in x.usage : u.completion = q
  <2> HIDE DEF q
  <2> QED BY ScoredChunk
<1> HIDE DEF x
<1>6. Turn(o, new) /\ ~Found(new, parser')
  BY <1>2, <1>4, CompletionTurn DEF s, n
<1>7. ~Tells(x)
  BY <1>3, <1>5 DEF Tells
<1>8. Says(x, o, new)
  BY <1>1, <1>2, <1>5, <1>6, <1>7 DEF Says
<1> QED BY <1>6, <1>8, TurnChunk

LEMMA CompletionOutputKeeps ==
    ASSUME StreamOK, SoFar, WellFormed(req), CompletionOutput
    PROVE  /\ UNCHANGED <<req, server>>
           /\ \/ StreamOK' /\ SoFar' /\ phase' = "streaming"
              \/ FinishesRight' /\ phase' = "broken"
<1>1. /\ phase = "streaming" /\ req.kind = "completion"
      /\ UNCHANGED <<req, server, text, made, ended, pending, first, parser, usage>>
  BY DEF CompletionOutput, engineVars
<1>2. PICK o \in NextOutput :
          /\ res' = res \ {o}
          /\ \/ Abort
             \/ \E b : CompletionSkips(o, b)
             \/ \E c, scored, b, len : CompletionSays(o, c, scored, b, len)
  <2> DEFINE Echoing(o) == req.echo /\ ~lane[o.i].echoed
             Echo(o) == IF req.return_token_ids THEN <<>> ELSE Echoed(o.i)
             c(o) == IF ~Echoing(o) THEN o.toks
                     ELSE IF req.max_tokens = {0} THEN Echo(o) ELSE Echo(o) \o o.toks
             b(o) == lane[o.i].echoed \/ req.echo \/ req.return_token_ids
             len(o) == TextLength(o.toks)
             scored(o) == IF Echoing(o)
                          THEN Echoed(o.i) \o (IF req.max_tokens = {0} THEN <<>> ELSE o.toks)
                          ELSE o.toks
             probs(o) == _create_completion_logprobs(scored(o), lane[o.i].len)
             told(o) == [lane[o.i] EXCEPT !.num = @ + Len(o.toks), !.len = @ + len(o),
                                          !.echoed = @ \/ req.echo \/ req.return_token_ids]
  <2>1. PICK o \in NextOutput :
          /\ res' = res \ {o}
          /\ \/ Abort
             \/ /\ o.toks = <<>> /\ lane[o.i].num = 0 /\ phase' = phase /\ sent' = sent
                /\ lane' = [lane EXCEPT ![o.i].echoed = told(o).echoed]
             \/ /\ o.fin # "error" /\ phase' = phase
                /\ lane' = [lane EXCEPT ![o.i] = told(o)]
                /\ sent' = Append(sent,
                      [Chunk("delta", o.i, [Empty EXCEPT !.c = c(o)], o.fin, told(o).num)
                       EXCEPT !.logprobs = probs(o)])
    <3> USE DEF CompletionOutput
    <3> QED OBVIOUS
  <2>2. told(o) = [lane[o.i] EXCEPT !.num = @ + Len(o.toks), !.len = @ + len(o), !.echoed = b(o)]
    OBVIOUS
  <2>3. CASE Abort
    BY <2>1, <2>3
  <2>4. CASE /\ o.toks = <<>> /\ lane[o.i].num = 0 /\ phase' = phase /\ sent' = sent
             /\ lane' = [lane EXCEPT ![o.i].echoed = told(o).echoed]
    BY <2>1, <2>4 DEF CompletionSkips
  <2>5. CASE /\ o.fin # "error" /\ phase' = phase
             /\ lane' = [lane EXCEPT ![o.i] = told(o)]
             /\ sent' = Append(sent,
                   [Chunk("delta", o.i, [Empty EXCEPT !.c = c(o)], o.fin, told(o).num)
                    EXCEPT !.logprobs = probs(o)])
    <3>1. CompletionSays(o, c(o), probs(o), b(o), len(o))
      BY <2>2, <2>5 DEF CompletionSays
    <3> QED BY <2>1, <3>1
  <2> QED BY <2>1, <2>3, <2>4, <2>5
<1>3. o \in res
  BY DEF NextOutput
<1>4. CASE Abort
  BY <1>1, <1>4, AbortRight
<1>5. CASE \E b : CompletionSkips(o, b)
  <2>1. PICK b : CompletionSkips(o, b)
    BY <1>5
  <2>2. phase' = phase
    BY <2>1 DEF CompletionSkips
  <2> QED BY <1>1, <1>2, <1>3, <2>1, <2>2, CompletionSkipsKeeps
<1>6. CASE \E c, scored, b, len : CompletionSays(o, c, scored, b, len)
  <2>1. PICK c, scored, b, len : CompletionSays(o, c, scored, b, len)
    BY <1>6
  <2>2. phase' = phase
    BY <2>1 DEF CompletionSays
  <2> QED BY <1>1, <1>2, <1>3, <2>1, <2>2, CompletionSaysKeeps
<1> QED BY <1>1, <1>2, <1>4, <1>5, <1>6

-----------------------------------------------------------------------------
(* What FinishesRight says when nothing, or nothing more, is sent.         *)

LEMMA SoFarAfter ==
    ASSUME phase' = "streaming", ChunkOK', usage' = {}, SoFar'
    PROVE  FinishesRight'
<1>1. \A k \in DOMAIN sent' : sent'[k].kind # "done"
  BY DEF ChunkOK
<1>2. FinishOnce'
  BY <1>1 DEF FinishOnce, LastWord, SoFar
<1>3. UsageAddsUp'
  BY DEF UsageAddsUp, Counted, SoFar
<1> QED BY <1>2, <1>3 DEF FinishesRight, SoFar

LEMMA EmptyRight ==
    ASSUME sent' = <<>>, usage' = {}, phase' \in {"closed", "broken"} => ~req'.stream
    PROVE  FinishesRight'
<1>1. DOMAIN sent' = {}
  OBVIOUS
<1>2. FinishOnce'
  BY <1>1 DEF FinishOnce
<1>3. UsageAddsUp'
  BY <1>1 DEF UsageAddsUp
<1>4. ToolFinish'
  BY <1>1 DEF ToolFinish
<1> QED BY <1>2, <1>3, <1>4 DEF FinishesRight

LEMMA SameUsage ==
    ASSUME UNCHANGED <<req, server, text, made>>
    PROVE  FullUsage' = FullUsage
<1>1. Lanes' = Lanes /\ NumPrompts' = NumPrompts
  BY SameRequest
<1>2. \A i : Tokens(i)' = Tokens(i)
  BY DEF Tokens
<1> QED BY <1>1, <1>2 DEF FullUsage, UsageOf

LEMMA SameRight ==
    ASSUME FinishesRight, UNCHANGED <<req, server, sent, usage, text, made, ended>>,
           phase' = phase \/ phase' \notin {"closed", "broken"}
    PROVE  FinishesRight'
<1>1. Lanes' = Lanes
  BY SameRequest
<1>2. FinishOnce'
  BY <1>1 DEF FinishesRight, FinishOnce
<1>3. ToolFinish'
  BY SameTools DEF FinishesRight
<1>4. UsageAddsUp'
  <2>1. FullUsage' = FullUsage
    BY SameUsage
  <2> QED BY <2>1 DEF FinishesRight, UsageAddsUp
<1> QED BY <1>2, <1>3, <1>4 DEF FinishesRight

-----------------------------------------------------------------------------
(* A request that is created.                                              *)

LEMMA NewLaneIs ==
    /\ IsLane(NewLane) /\ NewLane.num = 0 /\ ~NewLane.sent /\ ~NewLane.tools /\ ~NewLane.named
    /\ NewParser.calls = <<>>
<1>1. <<>> \in Seq(Token) /\ 0 \in Nat
  OBVIOUS
<1>2. /\ NewLane.num = 0 /\ NewLane.sent = FALSE /\ NewLane.tools = FALSE
      /\ NewLane.named = FALSE /\ NewLane.prev = <<>>
  BY DEF NewLane
<1>3. NewParser.calls = <<>>
  BY DEF NewParser
<1> QED BY <1>1, <1>2, <1>3 DEF IsLane

(* A text of classes, as the tokens of a lane. *)
LEMMA TextTyped ==
    ASSUME NEW t \in Seq(STRING), NEW i \in Nat,
           NEW x, x = [k \in DOMAIN t |-> [c |-> t[k], k |-> k, lane |-> i]]
    PROVE  /\ x \in Seq(Token) /\ DOMAIN x = DOMAIN t
           /\ \A k \in DOMAIN t : x[k].c = t[k]
<1>1. Len(t) \in Nat /\ DOMAIN t = 1 .. Len(t) /\ \A k \in DOMAIN t : t[k] \in STRING /\ k \in Nat
  BY LenProperties
<1>2. \A k \in DOMAIN t : x[k] = [c |-> t[k], k |-> k, lane |-> i]
  OBVIOUS
<1>3. \A k \in DOMAIN t : x[k] \in Token /\ x[k].c = t[k]
  BY <1>1, <1>2 DEF Token
<1>4. x \in [1 .. Len(t) -> Token]
  BY <1>1, <1>3
<1>5. x \in Seq(Token)
  BY <1>1, <1>4
<1> QED BY <1>3, <1>5

LEMMA TextsTyped ==
    ASSUME WellFormed(req), server.reasoning \in BOOLEAN, Create, ~Refused
    PROVE  /\ text' \in [Lanes -> Seq(Token)]
           /\ Mode = "required" => \A i \in Lanes : Calling(text'[i])
<1> DEFINE shape == [mode |-> Mode, reasoning |-> server.reasoning, off |-> req.thinking_off]
           T == Texts(shape)
<1>1. PICK choice \in [Lanes -> T] :
          text' = [i \in Lanes |->
                     [k \in DOMAIN choice[i] |-> [c |-> choice[i][k], k |-> k, lane |-> i]]]
  BY DEF Create
<1>2. /\ T \subseteq Seq(STRING)
      /\ Mode = "required" =>
            \A t \in T :
               LET start == IF server.reasoning /\ ~req.thinking_off
                            THEN {k \in DOMAIN t : t[k] = "E"} ELSE {0}
               IN  \E k \in DOMAIN t : t[k] = "p" /\ \E j \in start : j < k
  <2>1. Mode \in Modes /\ req.thinking_off \in BOOLEAN
    BY ModeIs DEF WellFormed
  <2> QED BY <2>1, TextAssumption
<1> HIDE DEF T
<1>3. Lanes \subseteq Nat
  BY LanesAre
<1>4. ASSUME NEW i \in Lanes
      PROVE  /\ text'[i] \in Seq(Token) /\ DOMAIN text'[i] = DOMAIN choice[i]
             /\ \A k \in DOMAIN choice[i] : text'[i][k].c = choice[i][k]
  <2>1. choice[i] \in Seq(STRING) /\ i \in Nat
    BY <1>1, <1>2, <1>3
  <2>2. text'[i] = [k \in DOMAIN choice[i] |-> [c |-> choice[i][k], k |-> k, lane |-> i]]
    BY <1>1
  <2> QED BY <2>1, <2>2, TextTyped
<1>5. text' \in [Lanes -> Seq(Token)]
  <2>1. DOMAIN text' = Lanes /\ text' = [i \in Lanes |-> text'[i]]
    BY <1>1
  <2> QED BY <1>4, <2>1
<1>6. ASSUME Mode = "required", NEW i \in Lanes
      PROVE  Calling(text'[i])
  <2>1. choice[i] \in T
    BY <1>1
  <2>2. PICK k \in DOMAIN choice[i] :
            /\ choice[i][k] = "p"
            /\ \E j \in IF server.reasoning /\ ~req.thinking_off
                        THEN {h \in DOMAIN choice[i] : choice[i][h] = "E"} ELSE {0} : j < k
    BY <1>2, <1>6, <2>1
  <2>3. text'[i][k].c = "p" /\ k \in DOMAIN text'[i]
    BY <1>4, <2>2
  <2>4. ASSUME server.reasoning /\ ~req.thinking_off
        PROVE  \E j \in DOMAIN text'[i] : text'[i][j].c = "E" /\ j < k
    BY <1>4, <2>2, <2>4
  <2> QED BY <2>3, <2>4 DEF Calling
<1> QED BY <1>5, <1>6

LEMMA CreateKeeps ==
    ASSUME WellFormed(req), server.reasoning \in BOOLEAN, Create, ~Refused,
           sent = <<>>, usage = {}, res = {}, first, parser = NewParser
    PROVE  /\ EngineOK' /\ FinishesRight'
           /\ phase' = "streaming" => req'.stream /\ StreamOK'
           /\ phase' = "collecting" =>
                 /\ ~req'.stream /\ sent' = <<>> /\ usage' = {}
                 /\ Mode' = "required" => (\A i \in Lanes : Calling(text[i]))'
<1>1. /\ UNCHANGED <<server, req, res, first, parser, sent, usage>>
      /\ phase' \in {"handed", "streaming", "collecting"}
      /\ phase' = "streaming" => req.stream
      /\ phase' = "collecting" => ~req.stream
      /\ made' = [i \in Lanes |-> 0] /\ ended' = [i \in Lanes |-> ""]
      /\ pending' = [i \in Lanes |-> {}] /\ lane' = [i \in Lanes |-> NewLane]
  BY DEF Create
<1>2. Lanes' = Lanes /\ Mode' = Mode
  BY <1>1, SameRequest
<1>3. text' \in [Lanes -> Seq(Token)] /\ (Mode = "required" => \A i \in Lanes : Calling(text'[i]))
  BY TextsTyped
<1>4. \A i \in Lanes : /\ made'[i] = 0 /\ ended'[i] = "" /\ pending'[i] = {}
                       /\ lane'[i] = NewLane
  BY <1>1
<1>5. EngineOK'
  <2>1. made' \in [Lanes -> Nat] /\ ended' \in [Lanes -> Fins] /\ DOMAIN pending' = Lanes
    BY <1>1 DEF Fins
  <2>2. ASSUME NEW i \in Lanes
        PROVE  /\ made'[i] <= Len(text'[i])
               /\ ended'[i] = "stop" => made'[i] = Len(text'[i])
               /\ Deposited(i)'
    <3>1. Len(text'[i]) \in Nat
      <4>1. text'[i] \in Seq(Token)
        BY <1>3
      <4> QED BY <4>1, LenProperties
    <3>2. made'[i] <= Len(text'[i])
      <4> DEFINE n == Len(text'[i])
                 m == made'[i]
      <4>1. n \in Nat /\ m = 0
        BY <1>4, <3>1
      <4> HIDE DEF n, m
      <4>2. m <= n
        BY <4>1
      <4> QED BY <4>2 DEF n, m
    <3> QED BY <1>4, <3>2 DEF Deposited
  <2> QED BY <1>2, <1>3, <2>1, <2>2 DEF EngineOK
<1>6. FinishesRight'
  <2>1. sent' = <<>> /\ usage' = {} /\ phase' \notin {"closed", "broken"}
    BY <1>1
  <2> QED BY <2>1, EmptyRight
<1>7. StreamOK'
  <2>1. /\ IsLane(NewLane) /\ NewLane.num = 0 /\ ~NewLane.sent /\ ~NewLane.tools
        /\ ~NewLane.named /\ NewParser.calls = <<>>
    BY NewLaneIs
  <2>2. res' = {} /\ DOMAIN sent' = {} /\ usage' = {} /\ sent' = <<>> /\ parser' = NewParser
    <3>1. DOMAIN <<>> = {}
      OBVIOUS
    <3> QED BY <1>1, <3>1
  <2>3. ResOK'
    BY <2>2 DEF ResOK
  <2>4. CountOK'
    <3>1. ASSUME NEW i \in Lanes PROVE made'[i] = lane'[i].num + Held(i)'
      <4>1. Held(i)' = 0
        BY <1>4 DEF Held
      <4>2. made'[i] = 0 /\ lane'[i].num = 0
        BY <1>4, <2>1
      <4>3. 0 = 0 + 0
        OBVIOUS
      <4> QED BY <4>1, <4>2, <4>3
    <3> QED BY <1>2, <2>2, <3>1 DEF CountOK, InRes
  <2>5. LaneOK'
    <3>1. \A i \in Lanes : ~Over(i)'
      BY <1>4 DEF Over
    <3> QED BY <1>1, <1>2, <1>4, <2>1, <3>1 DEF LaneOK
  <2>6. ChunkOK'
    <3>1. <<>> \in Seq({})
      OBVIOUS
    <3>2. IsSeq(<<>>)
      BY <3>1, OwnValues
    <3> QED BY <2>2, <3>2 DEF ChunkOK
  <2>7. ToolOK'
    <3>1. <<>> \in Seq(Seq(Token))
      OBVIOUS
    <3>2. \A i \in Lanes : LaneTools(lane'[i], parser') /\ ~Found(lane'[i], parser')
      BY <1>4, <2>1, <2>2 DEF LaneTools, Found
    <3>3. \A l, pz : (LaneTools(l, pz)' <=> LaneTools(l, pz)) /\ (Found(l, pz)' <=> Found(l, pz))
      BY <1>2 DEF LaneTools, Found
    <3> QED BY <1>2, <2>1, <2>2, <3>1, <3>2, <3>3 DEF ToolOK
  <2> QED BY <1>5, <2>2, <2>3, <2>4, <2>5, <2>6, <2>7 DEF StreamOK
<1>8. Mode' = "required" => (\A i \in Lanes : Calling(text[i]))'
  BY <1>1, <1>2, <1>3 DEF Calling
<1> QED BY <1>1, <1>2, <1>3, <1>5, <1>6, <1>7, <1>8

-----------------------------------------------------------------------------
(* The answer in one piece.                                                *)

(* A list of tools has a call for each of its parameters. *)
LEMMA ListCalls ==
    ASSUME NEW t \in Seq(Token), NEW k \in DOMAIN t, t[k].c = "p"
    PROVE  RequiredCalls(t) # <<>>
<1> DEFINE keys == OfClass(t, "p")
           n == Cardinality(keys)
<1>1. DOMAIN t = 1 .. Len(t) /\ Len(t) \in Nat
  BY LenProperties
<1>2. IsFiniteSet(DOMAIN t) /\ keys \subseteq DOMAIN t /\ k \in keys
  BY <1>1, FS_Interval DEF OfClass
<1>3. IsFiniteSet(keys)
  BY <1>2, FS_Subset
<1>4. n \in Nat /\ n # 0
  <2> HIDE DEF keys
  <2> QED BY <1>2, <1>3, FS_CardinalityType, FS_EmptySet
<1>5. DOMAIN RequiredCalls(t) = 1 .. n
  BY DEF RequiredCalls
<1> HIDE DEF n
<1>6. 1 \in 1 .. n
  BY <1>4
<1>7. DOMAIN <<>> = {}
  OBVIOUS
<1> QED BY <1>5, <1>6, <1>7

LEMMA TailOf ==
    ASSUME NEW S, NEW s \in Seq(S), NEW f \in 0 .. Len(s)
    PROVE  /\ SubSeq(s, f + 1, Len(s)) \in Seq(S)
           /\ Len(SubSeq(s, f + 1, Len(s))) = Len(s) - f
           /\ \A h \in 1 .. Len(s) - f : SubSeq(s, f + 1, Len(s))[h] = s[f + h]
<1> DEFINE n == Len(s)
           a == f + 1
           t == SubSeq(s, a, n)
<1>1. n \in Nat /\ a \in 1 .. n + 1
  BY LenProperties
<1>2. t \in Seq(S)
  BY <1>1, SubSeqProperties
<1>3. Len(t) = n - f
  BY <1>1, SubSeqProperties
<1>4. \A h \in 1 .. n - f : t[h] = s[f + h]
  BY <1>1, SubSeqProperties
<1> QED BY <1>2, <1>3, <1>4

(* A call after the end of the reasoning is in the content. *)
LEMMA ContentCalls ==
    ASSUME NEW t \in Seq(Token), NEW k \in DOMAIN t, t[k].c = "p",
           NEW j \in DOMAIN t, t[j].c = "E", j < k
    PROVE  RequiredCalls(extract_content_ids(t)) # <<>>
<1> DEFINE f == FirstEnd(t)
           n == Len(t)
           c == extract_content_ids(t)
<1>1. DOMAIN t = 1 .. n /\ n \in Nat
  BY LenProperties
<1>2. f \in 1 .. n /\ f <= j
  <2> DEFINE E == OfClass(t, "E")
  <2>1. E \subseteq Nat /\ j \in E /\ E \subseteq DOMAIN t
    BY <1>1 DEF OfClass
  <2> HIDE DEF E
  <2>2. \E x \in E : \A y \in E : x <= y
    BY <2>1, LeastExists
  <2>3. f \in E /\ \A y \in E : f <= y
    BY <2>2 DEF FirstEnd, E
  <2> QED BY <1>1, <2>1, <2>3
<1>3. c = SubSeq(t, f + 1, n)
  <2>1. is_reasoning_end(t)
    BY DEF is_reasoning_end, OfClass
  <2> QED BY <2>1 DEF extract_content_ids
<1> HIDE DEF f, c
<1>4. k \in 1 .. n /\ j \in 1 .. n
  BY <1>1
<1> HIDE DEF n
<1>5. k - f \in 1 .. n - f /\ f + 1 \in Nat /\ f + 1 >= 1 /\ f + 1 <= n + 1
      /\ n - (f + 1) + 1 = n - f
  BY ONLY <1>1, <1>2, <1>4, j < k
<1>51. /\ c \in Seq(Token) /\ Len(c) = n - f
       /\ \A h \in 1 .. n - f : c[h] = t[f + h]
  <2>1. f \in 0 .. n
    BY ONLY <1>1, <1>2
  <2> QED BY <1>3, <2>1, TailOf DEF n
<1>6. k - f \in DOMAIN c /\ c[k - f] = t[k]
  <2>1. DOMAIN c = 1 .. n - f
    BY <1>51, LenProperties
  <2>2. f + (k - f) = k
    BY ONLY <1>1, <1>2, <1>4
  <2> QED BY <1>5, <1>51, <2>1, <2>2
<1>7. RequiredCalls(c) # <<>>
  BY <1>51, <1>6, ListCalls
<1> QED BY <1>7 DEF c

(* Why a choice of an answer in one piece finishes as it does. *)
LEMMA FullFinishRight ==
    ASSUME EngineOK, NEW i \in Lanes, ended[i] # "error",
           Mode = "required" => Calling(text[i]),
           NEW m, m = FullMessage(i, Tokens(i))
    PROVE  /\ FullFinish(i, m) = "tool_calls" => m.calls # <<>> /\ Mode # "named"
           /\ FullFinish(i, m) = "stop" => m.calls = <<>> \/ Mode = "named"
<1>1. ended[i] \in {"", "stop", "length", "error"} /\ made[i] \in Nat
      /\ text[i] \in Seq(Token) /\ (ended[i] = "stop" => made[i] = Len(text[i]))
  BY DEF EngineOK, Fins
<1>2. Mode = "required" /\ ended[i] = "stop" => m.calls # <<>>
  <2> SUFFICES ASSUME Mode = "required", ended[i] = "stop" PROVE m.calls # <<>>
    OBVIOUS
  <2> DEFINE t == text[i]
             thinks == server.reasoning /\ ~req.thinking_off
             content == IF thinks THEN extract_content_ids(t) ELSE t
  <2>1. Tokens(i) = t
    <3>1. SubSeq(t, 1, Len(t)) = t
      BY <1>1
    <3> QED BY <1>1, <3>1 DEF Tokens
  <2>2. Calling(t) /\ t \in Seq(Token)
    BY <1>1
  <2> HIDE DEF t
  <2>3. PICK k \in DOMAIN t : t[k].c = "p"
                              /\ (thinks => \E j \in DOMAIN t : t[j].c = "E" /\ j < k)
    BY <2>2 DEF Calling
  <2>4. RequiredCalls(content) # <<>>
    <3>1. CASE thinks
      <4>1. PICK j \in DOMAIN t : t[j].c = "E" /\ j < k
        BY <2>3, <3>1
      <4>2. RequiredCalls(extract_content_ids(t)) # <<>>
        BY <2>2, <2>3, <4>1, ContentCalls
      <4> QED BY <3>1, <4>2
    <3>2. CASE ~thinks
      <4>1. RequiredCalls(t) # <<>>
        BY <2>2, <2>3, ListCalls
      <4> QED BY <3>2, <4>1
    <3> QED BY <3>1, <3>2
  <2>5. ChatMessage(t).calls = RequiredCalls(content)
    BY DEF ChatMessage, Thinks
  <2> DEFINE calls == ChatMessage(t).calls
  <2>6. m.calls = IF req.parallel_tool_calls \/ calls = <<>> THEN calls ELSE <<calls[1]>>
    BY <2>1 DEF FullMessage
  <2>7. \A c : <<c>> # <<>>
    OBVIOUS
  <2> HIDE DEF calls, content
  <2>8. calls # <<>>
    BY <2>4, <2>5 DEF calls
  <2> QED BY <2>6, <2>7, <2>8
<1>3. Mode \notin {"named", "required", "auto", "harmony"} => m.calls = <<>>
  <2> SUFFICES ASSUME Mode \notin {"named", "required", "auto", "harmony"} PROVE m.calls = <<>>
    OBVIOUS
  <2>1. CASE Mode = "completion"
    BY <2>1 DEF FullMessage, request_output_to_completion_response
  <2>2. CASE Mode # "completion"
    <3> DEFINE c == ChatMessage(Tokens(i))
    <3>1. c.calls = <<>>
      BY DEF ChatMessage
    <3> HIDE DEF c
    <3>2. m = [r |-> IF req.include_reasoning THEN c.r ELSE <<>>,
               c |-> (IF req.echo THEN Echoed(i) ELSE <<>>) \o c.c,
               calls |-> IF req.parallel_tool_calls \/ c.calls = <<>> THEN c.calls
                         ELSE <<c.calls[1]>>]
      BY <2>2 DEF FullMessage, c
    <3> QED BY <3>1, <3>2
  <2> QED BY <2>1, <2>2
<1>4. FullFinish(i, m) =
        IF \/ Mode \in {"auto", "harmony"} /\ m.calls # <<>>
           \/ Mode = "required" /\ ended[i] = "stop"
        THEN "tool_calls" ELSE ended[i]
  BY DEF FullFinish
<1> QED BY <1>1, <1>2, <1>3, <1>4

LEMMA RespondRight ==
    ASSUME WellFormed(req), EngineOK, ~req.stream, sent = <<>>, usage = {}, Respond,
           Mode = "required" => \A i \in Lanes : Calling(text[i])
    PROVE  FinishesRight' /\ phase' \in {"broken", "closed"}
<1>1. UNCHANGED <<req, server, text, made, ended>> /\ phase' \in {"broken", "closed"}
  BY DEF Respond, engineVars
<1>2. CASE UNCHANGED <<sent, usage>>
  BY <1>1, <1>2, EmptyRight
<1>3. CASE ~UNCHANGED <<sent, usage>>
  <2> DEFINE N == req.n * NumPrompts
             M(k) == FullMessage(k - 1, Tokens(k - 1))
             Choice(k) == [kind |-> "choice", i |-> k - 1, m |-> M(k),
                           fin |-> FullFinish(k - 1, M(k)), usage |-> {},
                           logprobs |-> FullLogprobs(k - 1)]
  <2>1. /\ \A i \in Lanes : ended[i] # "error"
        /\ usage' = {FullUsage}
        /\ sent' = [k \in 1 .. N |-> Choice(k)]
    BY <1>3 DEF Respond
  <2>2. N \in Nat /\ \A k \in 1 .. N : k - 1 \in Lanes
    BY LanesAre
  <2>3. \A k : /\ Choice(k).kind = "choice" /\ Choice(k).i = k - 1 /\ Choice(k).m = M(k)
               /\ Choice(k).fin = FullFinish(k - 1, M(k)) /\ Choice(k).usage = {}
    OBVIOUS
  <2> HIDE DEF N, Choice
  <2>4. /\ DOMAIN sent' = 1 .. N /\ Len(sent') = N
        /\ \A k \in 1 .. N : sent'[k] = Choice(k)
    <3>1. DOMAIN sent' = 1 .. N /\ \A k \in 1 .. N : sent'[k] = Choice(k)
      BY <2>1
    <3>2. sent' = [k \in 1 .. N |-> sent'[k]]
      BY <2>1
    <3> QED BY <2>2, <3>1, <3>2, RowIs
  <2>5. \A k \in 1 .. N : /\ sent'[k].kind = "choice" /\ sent'[k].i = k - 1
                          /\ sent'[k].m = M(k) /\ sent'[k].usage = {}
                          /\ sent'[k].fin = FullFinish(k - 1, M(k))
    BY <2>3, <2>4
  <2>6. FinishOnce'
    <3>1. ASSUME NEW k \in 1 .. N, NEW j \in (k + 1) .. N
          PROVE  sent'[j].i # sent'[k].i
      <4>1. j \in 1 .. N /\ j # k
        BY <2>2
      <4>2. sent'[j].i = j - 1 /\ sent'[k].i = k - 1
        BY <2>5, <4>1
      <4>3. j - 1 # k - 1
        BY ONLY <2>2, <4>1, k \in 1 .. N
      <4> QED BY <4>2, <4>3
    <3>2. \A k \in 1 .. N : sent'[k].kind # "done"
      BY <2>5
    <3> QED BY <1>1, <2>4, <3>1, <3>2 DEF FinishOnce
  <2>7. UsageAddsUp'
    <3>1. FullUsage' = FullUsage
      BY <1>1, SameUsage
    <3> QED BY ZenonT(30), <2>1, <2>4, <2>5, <3>1 DEF UsageAddsUp
  <2>8. ToolFinish'
    <3>1. Mode' = Mode
      BY <1>1, SameRequest
    <3>2. ASSUME NEW k \in 1 .. N
          PROVE  /\ sent'[k].fin = "tool_calls" => sent'[k].m.calls # <<>> /\ Mode # "named"
                 /\ sent'[k].fin = "stop" => sent'[k].m.calls = <<>> \/ Mode = "named"
      <4> DEFINE i == k - 1
                 m == M(k)
      <4>1. i \in Lanes /\ ended[i] # "error" /\ (Mode = "required" => Calling(text[i]))
        BY <2>1, <2>2
      <4>2. m = FullMessage(i, Tokens(i))
        OBVIOUS
      <4>3. sent'[k].m = m /\ sent'[k].fin = FullFinish(i, m)
        BY <2>5
      <4> HIDE DEF i, m
      <4> QED BY <4>1, <4>2, <4>3, FullFinishRight
    <3> QED BY <2>4, <2>5, <3>1, <3>2 DEF ToolFinish
  <2> QED BY <1>1, <2>6, <2>7, <2>8 DEF FinishesRight
<1> QED BY <1>2, <1>3

-----------------------------------------------------------------------------
(* The invariant and its theorem.                                          *)

LEMMA FinishInit == Init => FinishInv
<1> SUFFICES ASSUME Init PROVE FinishInv
  OBVIOUS
<1>1. /\ phase = "raw" /\ sent = <<>> /\ usage = {} /\ res = {} /\ first /\ parser = NewParser
      /\ ~failed /\ known = {}
  BY DEF Init
<1>2. ServableInv
  <2>1. IdsInv
    BY IdsInit
  <2> QED BY <1>1, <2>1 DEF ServableInv, Serving, AdmittedServable, EchoInv
<1>3. server.reasoning \in BOOLEAN
  BY InputAssumption DEF Init
<1>4. FinishesRight
  <2>1. DOMAIN sent = {}
    BY <1>1
  <2>2. FinishOnce /\ UsageAddsUp /\ ToolFinish
    BY <1>1, <2>1 DEF FinishOnce, UsageAddsUp, ToolFinish
  <2> QED BY <2>2 DEF FinishesRight
<1> QED BY <1>1, <1>2, <1>3, <1>4 DEF FinishInv

(* An engine step adds to what a lane has pending. *)
LEMMA EngineAdds ==
    ASSUME EngineOK, NEW i \in Lanes, Generate(i) \/ Prefill(i) \/ Fail(i)
    PROVE  /\ \E toks, fin : Added(i, toks, fin)
           /\ UNCHANGED <<phase, req, server, text, res, first, lane, parser, sent, usage>>
<1>1. \E toks, fin : Added(i, toks, fin)
  BY GenerateAdds, PrefillAdds, FailAdds
<1>2. UNCHANGED <<phase, req, server, text, res, first, lane, parser, sent, usage>>
  BY DEF Generate, Prefill, Fail, localVars
<1> QED BY <1>1, <1>2

LEMMA StreamStep ==
    ASSUME WellFormed(req), phase = "streaming", req.stream, StreamOK, FinishesRight, Next
    PROVE  /\ UNCHANGED <<req, server>>
           /\ FinishesRight'
           /\ \/ phase' = "streaming" /\ StreamOK'
              \/ phase' \in {"closed", "broken", "gone"}
<1>1. SoFar /\ ChunkOK /\ EngineOK /\ usage = {}
  BY SoFarIs DEF StreamOK
<1>2. SoFar' /\ StreamOK' /\ phase' = "streaming" => FinishesRight'
  BY SoFarAfter DEF StreamOK
<1>3. ASSUME NEW i \in Lanes, Generate(i) \/ Prefill(i) \/ Fail(i)
      PROVE  SoFar' /\ StreamOK' /\ phase' = "streaming" /\ UNCHANGED <<req, server>>
  <2>1. UNCHANGED <<phase, req, server, text, res, first, lane, parser, sent, usage>>
    BY <1>1, <1>3, EngineAdds
  <2>2. PICK toks, fin : Added(i, toks, fin)
    BY <1>1, <1>3, EngineAdds
  <2> QED BY <1>1, <2>1, <2>2, AddedStream
<1>4. ASSUME NEW p \in Prompts, TakeResult(p)
      PROVE  SoFar' /\ StreamOK' /\ phase' = "streaming" /\ UNCHANGED <<req, server>>
  <2>1. UNCHANGED <<req, server>>
    BY <1>4 DEF TakeResult
  <2> QED BY <1>1, <1>4, <2>1, TakeKeeps
<1>5. CASE ChatOutput
  BY <1>1, <1>2, <1>5, ChatOutputKeeps
<1>6. CASE CompletionOutput
  BY <1>1, <1>2, <1>6, CompletionOutputKeeps
<1>7. CASE EndStream
  <2>1. UNCHANGED <<req, server>>
    BY <1>7 DEF EndStream
  <2> QED BY <1>1, <1>7, <2>1, EndRight
<1>8. CASE EngineDies
  <2>1. Abort /\ UNCHANGED <<req, server, made, ended, usage>>
    BY <1>8 DEF EngineDies, engineVars
  <2> QED BY <1>1, <2>1, AbortRight
<1>9. CASE Disconnect
  <2>1. phase' = "gone" /\ UNCHANGED <<req, server, sent, usage, text, made, ended>>
    BY <1>9 DEF Disconnect, engineVars
  <2>2. FinishesRight'
    BY <2>1, SameRight
  <2> QED BY <2>1, <2>2
<1>10. ~Validate /\ ~Create /\ ~Respond
  BY DEF Validate, Create, Respond
<1> QED BY <1>2, <1>3, <1>4, <1>5, <1>6, <1>7, <1>8, <1>9, <1>10 DEF Next

LEMMA CollectStep ==
    ASSUME WellFormed(req), phase = "collecting", ~req.stream, EngineOK, sent = <<>>, usage = {},
           Mode = "required" => \A i \in Lanes : Calling(text[i]), Next
    PROVE  /\ UNCHANGED <<req, server>>
           /\ FinishesRight'
           /\ \/ /\ phase' = "collecting" /\ EngineOK' /\ UNCHANGED <<sent, usage, text>>
              \/ phase' \in {"closed", "broken", "gone"}
<1>1. ASSUME NEW i \in Lanes, Generate(i) \/ Prefill(i) \/ Fail(i)
      PROVE  /\ EngineOK' /\ FinishesRight'
             /\ UNCHANGED <<phase, req, server, sent, usage, text>>
  <2>1. UNCHANGED <<phase, req, server, sent, usage, text>>
    BY <1>1, EngineAdds
  <2>2. PICK toks, fin : Added(i, toks, fin)
    BY <1>1, EngineAdds
  <2>3. EngineOK'
    BY <2>2, AddedEngine
  <2>4. FinishesRight'
    BY <2>1, EmptyRight
  <2> QED BY <2>1, <2>3, <2>4
<1>2. CASE Respond
  <2>1. UNCHANGED <<req, server>>
    BY <1>2 DEF Respond
  <2> QED BY <1>2, <2>1, RespondRight
<1>3. CASE EngineDies
  <2>1. phase' = "broken" /\ UNCHANGED <<req, server, sent, usage>>
    BY <1>3 DEF EngineDies
  <2> QED BY <2>1, EmptyRight
<1>4. CASE Disconnect
  <2>1. phase' = "gone" /\ UNCHANGED <<req, server, sent, usage>>
    BY <1>4 DEF Disconnect
  <2> QED BY <2>1, EmptyRight
<1>5. /\ ~Validate /\ ~Create /\ ~ChatOutput /\ ~CompletionOutput /\ ~EndStream
      /\ \A p : ~TakeResult(p)
  BY DEF Validate, Create, ChatOutput, CompletionOutput, EndStream, TakeResult
<1> QED BY <1>1, <1>2, <1>3, <1>4, <1>5 DEF Next

LEMMA FinishStep == FinishInv /\ [Next]_vars => FinishInv'
<1> SUFFICES ASSUME FinishInv, [Next]_vars PROVE FinishInv'
  OBVIOUS
<1>1. ServableInv'
  BY ServableStep DEF FinishInv
<1>2. WellFormed(req) /\ server.reasoning \in BOOLEAN /\ FinishesRight
  BY DEF FinishInv, ServableInv, IdsInv
<1>3. CASE Validate
  <2>1. /\ phase = "raw" /\ phase' \in {"refused", "admitted"}
        /\ UNCHANGED <<server, res, first, parser, sent, usage>>
    BY <1>2, <1>3, ValidateKeeps DEF Validate, localVars
  <2>2. sent = <<>> /\ usage = {} /\ res = {} /\ first /\ parser = NewParser
    BY <2>1 DEF FinishInv
  <2>3. FinishesRight'
    BY <2>1, <2>2, EmptyRight
  <2> QED BY <1>1, <1>2, <2>1, <2>2, <2>3 DEF FinishInv
<1>4. CASE Create
  <2>1. /\ phase = "admitted" /\ UNCHANGED <<server, req, res, first, parser, sent, usage>>
    BY <1>4 DEF Create
  <2>2. sent = <<>> /\ usage = {} /\ res = {} /\ first /\ parser = NewParser
    BY <2>1 DEF FinishInv
  <2>3. CASE Refused
    <3>1. phase' = "refused"
      BY <1>4, <2>3 DEF Create
    <3>2. FinishesRight'
      BY <2>1, <2>2, <3>1, EmptyRight
    <3> QED BY <1>1, <1>2, <2>1, <3>1, <3>2 DEF FinishInv
  <2>4. CASE ~Refused
    <3>1. phase' \in {"handed", "streaming", "collecting"}
      BY <1>4, <2>4 DEF Create
    <3>2. /\ EngineOK' /\ FinishesRight'
          /\ phase' = "streaming" => req'.stream /\ StreamOK'
          /\ phase' = "collecting" =>
                /\ ~req'.stream /\ sent' = <<>> /\ usage' = {}
                /\ Mode' = "required" => (\A i \in Lanes : Calling(text[i]))'
      BY <1>2, <1>4, <2>2, <2>4, CreateKeeps
    <3> QED BY <1>1, <1>2, <2>1, <3>1, <3>2 DEF FinishInv
  <2> QED BY <2>3, <2>4
<1>5. CASE UNCHANGED vars
  <2>1. /\ UNCHANGED <<phase, server, req, text, made, ended, pending, res, first, lane, parser,
                       sent, usage>>
    BY <1>5 DEF vars, engineVars, localVars
  <2>2. FinishesRight'
    BY <1>2, <2>1, SameRight
  <2>3. Lanes' = Lanes /\ Mode' = Mode /\ \A j : Sharers(j)' = Sharers(j)
    BY <2>1, SameRequest
  <2>4. EngineOK' <=> EngineOK
    BY <2>1, <2>3 DEF EngineOK, Deposited
  <2>5. StreamOK => StreamOK'
    <3>1. ResOK => ResOK'
      BY <2>1, <2>3 DEF ResOK
    <3>2. \A i : (Over(i)' <=> Over(i)) /\ (InRes(i)' <=> InRes(i)) /\ Held(i)' = Held(i)
                 /\ (Finished(i)' <=> Finished(i))
      BY <2>1 DEF Over, InRes, Held, Finished
    <3>3. CountOK => CountOK'
      BY <2>1, <2>3, <3>2 DEF CountOK
    <3>4. LaneOK => LaneOK'
      BY <2>1, <2>3, <3>2 DEF LaneOK
    <3>5. ChunkOK => ChunkOK'
      BY <2>1, <2>3, <3>2 DEF ChunkOK
    <3>6. ToolOK => ToolOK'
      BY <2>1, <2>3 DEF ToolOK, LaneTools, Found
    <3> QED BY <2>1, <2>4, <3>1, <3>3, <3>4, <3>5, <3>6 DEF StreamOK
  <2>6. (\A i \in Lanes : Calling(text[i])) => (\A i \in Lanes : Calling(text[i]))'
    BY <2>1, <2>3 DEF Calling
  <2> QED BY <1>1, <1>2, <2>1, <2>2, <2>3, <2>4, <2>5, <2>6 DEF FinishInv
<1>6. CASE Next /\ phase = "streaming"
  <2>1. /\ UNCHANGED <<req, server>> /\ FinishesRight' /\ req.stream
        /\ \/ phase' = "streaming" /\ StreamOK'
           \/ phase' \in {"closed", "broken", "gone"}
    BY <1>2, <1>6, StreamStep DEF FinishInv
  <2> QED BY <1>1, <1>2, <2>1 DEF FinishInv
<1>7. CASE Next /\ phase = "collecting"
  <2>1. /\ ~req.stream /\ EngineOK /\ sent = <<>> /\ usage = {}
        /\ Mode = "required" => \A i \in Lanes : Calling(text[i])
    BY <1>7 DEF FinishInv
  <2>2. /\ UNCHANGED <<req, server>> /\ FinishesRight'
        /\ \/ phase' = "collecting" /\ EngineOK' /\ UNCHANGED <<sent, usage, text>>
           \/ phase' \in {"closed", "broken", "gone"}
    BY <1>2, <1>7, <2>1, CollectStep
  <2>3. Lanes' = Lanes /\ Mode' = Mode
    BY <2>2, SameRequest
  <2>4. phase' = "collecting" /\ Mode' = "required" => (\A i \in Lanes : Calling(text[i]))'
    BY <2>1, <2>2, <2>3 DEF Calling
  <2> QED BY <1>1, <1>2, <2>1, <2>2, <2>3, <2>4 DEF FinishInv
<1>8. Validate \/ Create \/ UNCHANGED vars \/ (Next /\ phase \in {"streaming", "collecting"})
  BY DEF Next, Serving, ChatOutput, CompletionOutput, EndStream, Respond, EngineDies, Disconnect
<1> QED BY <1>3, <1>4, <1>5, <1>6, <1>7, <1>8

(* FinishesRight for every request, text and number of choices: however    *)
(* the engine merges, interleaves and fails the outputs of the choices, a  *)
(* choice of a stream finishes once and says nothing afterwards, [DONE] is *)
(* last on every way out, a finish tells a tool call exactly when one was  *)
(* answered, and the usage is that of the tokens generated.                *)
THEOREM StreamsFinish == Spec => []FinishesRight
<1>1. FinishInv => FinishesRight
  BY DEF FinishInv
<1> QED BY <1>1, FinishInit, FinishStep, PTL DEF Spec
=============================================================================
