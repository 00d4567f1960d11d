---------------------------- MODULE WindowEngine ----------------------------
(***************************************************************************)
(* How the engine generates windows (src/src/engine.cpp): one batch step   *)
(* by step on context A, or two batches that alternate on contexts A and   *)
(* B, so that the GPU decodes one while the other is sampled.  A decode is *)
(* asynchronous: it is issued by the mining thread and finished by the     *)
(* GPU, in order on each context.                                          *)
(*                                                                         *)
(* A batch's logits are abstracted to the batch, the context and the step  *)
(* that they are for; its streams go through every step together.  llama,  *)
(* the GPU and the sampler (SamplerPool) are external: each call may fail. *)
(***************************************************************************)
EXTENDS Integers, Sequences, FiniteSets

CONSTANTS
    Window,         \* window_tokens: 256
    MaxBatches      \* bound: calls of generate_windows_*

ASSUME EngineAssumption == Window \in Nat \ {0, 1} /\ MaxBatches \in Nat

Contexts == {"A", "B"}      \* in.ctx and in.ctx_b
Other(c) == IF c = "A" THEN "B" ELSE "A"

VARIABLES
    want_double,    \* MEOW_DOUBLE_BUFFER
    want_dev,       \* want_dev_logits
    compare_device, \* MEOW_COMPARE_DEVICE_LOGITS
    refresh,        \* split_model and refresh_split_context
    double_ok,      \* main.cpp: double_ok
    used_stepwise,  \* in.used_stepwise
    pc,             \* where the mining thread is in its call
    mode,           \* "single" or "double": which function it called
    turn,           \* the context whose batch is sampled next
    i,              \* step_i
    dev_mode,       \* single: dev_mode
    first,          \* double: first
    batch,          \* number of the call
    skip,           \* llama_set_skip_logits_copy, per context
    kv,             \* sampled tokens in a context's memory, -1 without a prompt
    queue,          \* decodes issued on a context and not finished
    tensor,         \* output tensor on the device, per context
    host,           \* llama's host copy of the output, per context
    dbuf,           \* in.dbuf: private copies, per context
    ctxv,           \* tokens sampled for the batch on each context
    source,         \* where the logits handed to the sampler are
    fed,            \* history: the logits the sampler wanted and got last
    ret             \* what the last call returned: windows per stream, or < 0

config == <<want_double, want_dev, compare_device, refresh>>
gpu == <<kv, queue, tensor, host>>
local == <<turn, i, dev_mode, first, ctxv, source>>
engineVars == <<config, double_ok, used_stepwise, pc, mode, batch, skip, gpu, dbuf, local, fed, ret>>

Logits(b, c, k) == [batch |-> b, ctx |-> c, step |-> k]
NoLogits == Logits(0, "A", 0)
PerContext(v) == [c \in Contexts |-> v]

EngineInit ==
    /\ want_double \in BOOLEAN /\ want_dev \in BOOLEAN
    /\ compare_device \in BOOLEAN /\ refresh \in BOOLEAN
    /\ refresh => ~want_dev
    /\ double_ok = want_double /\ used_stepwise = FALSE
    /\ pc = "idle" /\ mode = "single" /\ turn = "A" /\ i = 0
    /\ dev_mode = FALSE /\ first = TRUE /\ batch = 0
    /\ skip = PerContext(FALSE) /\ kv = PerContext(-1) /\ queue = PerContext(<<>>)
    /\ tensor = PerContext(NoLogits) /\ host = PerContext(NoLogits)
    /\ dbuf = PerContext(NoLogits) /\ ctxv = PerContext(0)
    /\ source = [place |-> "host", ctx |-> "A"]
    /\ fed = [want |-> NoLogits, got |-> NoLogits] /\ ret = 0

-----------------------------------------------------------------------------
(* llama and the GPU, external.                                            *)

Idle(c) == queue[c] = <<>>

\* A decode of the batch's last token at position pos.  Its logits are of the
\* next step if the context holds the tokens before and the token is the one
\* sampled for that position; otherwise they are of nothing.
Decoded(c, pos) ==
    IF kv[c] = pos /\ ctxv[c] = pos + 1 THEN Logits(batch, c, pos + 1) ELSE NoLogits

\* Whether the result is copied to the host is settled when the decode is issued.
Issue(c, v) == queue' = [queue EXCEPT ![c] = Append(@, [out |-> v, copied |-> ~skip[c]])]

GpuFinishes(c) ==
    /\ ~Idle(c)
    /\ tensor' = [tensor EXCEPT ![c] = Head(queue[c]).out]
    /\ host' = IF Head(queue[c]).copied THEN [host EXCEPT ![c] = Head(queue[c]).out] ELSE host
    /\ queue' = [queue EXCEPT ![c] = Tail(@)]
    /\ UNCHANGED <<config, double_ok, used_stepwise, pc, mode, batch, skip, kv, dbuf, local,
                   fed, ret>>

-----------------------------------------------------------------------------
(* The calls of the mining loop.                                           *)

Begin(m) ==
    /\ pc = "idle" /\ batch < MaxBatches
    /\ batch' = batch + 1
    /\ mode' = m
    /\ turn' = "A" /\ i' = 0 /\ dev_mode' = FALSE /\ first' = TRUE
    /\ ctxv' = PerContext(0)
    /\ source' = [place |-> "host", ctx |-> "A"]

\* A prompt that cannot be tokenised or leaves no room for the window.
Refused ==
    /\ Begin(IF double_ok THEN "double" ELSE "single")
    /\ ret' = -1
    /\ UNCHANGED <<config, double_ok, used_stepwise, pc, skip, gpu, dbuf, fed>>

\* generate_windows_stepwise_tok: context A is created anew in refresh mode,
\* which may fail, and emptied.
RefreshFails ==
    /\ ~double_ok /\ refresh /\ used_stepwise
    /\ Begin("single")
    /\ ret' = -1
    /\ queue' = [queue EXCEPT !["A"] = <<>>]
    /\ skip' = [skip EXCEPT !["A"] = FALSE]
    /\ UNCHANGED <<config, double_ok, used_stepwise, pc, kv, tensor, host, dbuf, fed>>

StepwiseStart ==
    /\ ~double_ok
    /\ Begin("single")
    /\ used_stepwise' = TRUE
    /\ kv' = [kv EXCEPT !["A"] = -1]
    /\ IF refresh /\ used_stepwise
       THEN /\ queue' = [queue EXCEPT !["A"] = <<>>]
            /\ skip' = [skip EXCEPT !["A"] = FALSE]
            /\ tensor' = [tensor EXCEPT !["A"] = NoLogits]
            /\ host' = [host EXCEPT !["A"] = NoLogits]
       ELSE UNCHANGED <<queue, skip, tensor, host>>
    /\ pc' = "prompt"
    /\ UNCHANGED <<config, double_ok, dbuf, fed, ret>>

\* The private buffers are allocated by the first call.  They cannot be had: -2.
NoBuffers ==
    /\ double_ok /\ batch = 0
    /\ Begin("double")
    /\ ret' = -2 /\ double_ok' = FALSE
    /\ UNCHANGED <<config, used_stepwise, pc, skip, gpu, dbuf, fed>>

\* generate_windows_double_tok: both contexts are emptied and, for the prompt,
\* copy to the host.
DoubleStart ==
    /\ double_ok
    /\ Begin("double")
    /\ kv' = PerContext(-1)
    /\ skip' = PerContext(FALSE)
    /\ pc' = "prompt"
    /\ UNCHANGED <<config, double_ok, used_stepwise, queue, tensor, host, dbuf, fed, ret>>

-----------------------------------------------------------------------------
(* How a call ends.                                                        *)

\* The host copy is switched on again.  Mutation: not on the paths that fail.
RestoredIfOk(r) == IF r < 0 THEN skip ELSE PerContext(FALSE)
Restored(r) == IF mode = "double" THEN PerContext(FALSE)
               ELSE IF dev_mode THEN [skip EXCEPT !["A"] = FALSE] ELSE skip

\* What the mining loop makes of the result.
End(r) ==
    /\ pc' = "idle"
    /\ ret' = r
    /\ skip' = Restored(r)
    /\ double_ok' = (double_ok /\ r # -2)

Leave(r) ==
    /\ End(r)
    /\ UNCHANGED <<config, used_stepwise, mode, batch, gpu, dbuf, local, fed>>

-----------------------------------------------------------------------------
(* Prompt pass and steps.                                                  *)

\* The prompt of the batch on context turn is decoded.
PromptPass ==
    /\ pc = "prompt"
    /\ Issue(turn, Logits(batch, turn, 0))
    /\ kv' = [kv EXCEPT ![turn] = 0]
    /\ source' = [place |-> "host", ctx |-> turn]
    /\ pc' = "sample"
    /\ UNCHANGED <<config, double_ok, used_stepwise, mode, batch, skip, tensor, host, dbuf,
                   turn, i, dev_mode, first, ctxv, fed, ret>>

PromptFails == pc = "prompt" /\ Leave(-1)

\* What the sampler finds where it was told to look.
Found == CASE source.place = "host" -> host[source.ctx]
           [] source.place = "tensor" -> tensor[source.ctx]
           [] source.place = "dbuf" -> dbuf[source.ctx]

\* The sampler runs.  llama_get_logits_ith and llama_get_logits_device have
\* waited for the context first.  Mutation: nothing waits.
NoWait(c) == TRUE
Synchronized(c) == Idle(c)

\* Where a step continues once its tokens are there.
AfterSample ==
    IF mode = "single" THEN "decode"
    ELSE IF i = 0 THEN (IF turn = "A" THEN "prompt" ELSE "pipe")
    ELSE IF turn = "B" /\ i + 1 = Window THEN "drain" ELSE "sync"

SampleTokens ==
    /\ pc = "sample"
    /\ source.place # "dbuf" => Synchronized(source.ctx)
    /\ fed' = [want |-> Logits(batch, turn, ctxv[turn]), got |-> Found]
    /\ ctxv' = [ctxv EXCEPT ![turn] = @ + 1]
    /\ pc' = AfterSample
    /\ IF mode = "double" THEN turn' = Other(turn) ELSE UNCHANGED turn
    /\ i' = IF mode = "double" /\ i > 0 /\ turn = "B" THEN i + 1 ELSE i
    /\ UNCHANGED <<config, double_ok, used_stepwise, mode, batch, skip, gpu, dbuf,
                   dev_mode, first, source, ret>>

\* The logits are missing, or the sampler failed.
SampleFails == pc = "sample" /\ Leave(-1)

-----------------------------------------------------------------------------
(* generate_windows_stepwise_tok.                                          *)

\* The decode of the sampled token, and the next step.  The last decode is waste;
\* nobody waits for it.
DecodeNext ==
    /\ pc = "decode"
    /\ Issue("A", Decoded("A", i))
    /\ kv' = [kv EXCEPT !["A"] = @ + 1]
    /\ i' = i + 1
    /\ IF i + 1 = Window THEN End(1)
       ELSE pc' = "fetch" /\ UNCHANGED <<ret, skip, double_ok>>
    /\ UNCHANGED <<config, used_stepwise, mode, batch, tensor, host, dbuf, turn, dev_mode,
                   first, ctxv, source, fed>>

DecodeFails == pc = "decode" /\ Leave(-1)

\* From step 1 on the device's tensor is read in place.  When it is seen for the
\* first time the host copy is switched off, except in compare mode.
FetchDevice ==
    /\ pc = "fetch" /\ want_dev /\ Synchronized("A")
    /\ dev_mode' = TRUE
    /\ skip' = IF dev_mode THEN skip ELSE [skip EXCEPT !["A"] = ~compare_device]
    /\ source' = [place |-> "tensor", ctx |-> "A"]
    /\ pc' = "sample"
    /\ UNCHANGED <<config, double_ok, used_stepwise, mode, batch, gpu, dbuf, turn, i, first,
                   ctxv, fed, ret>>

\* No device tensor: llama's host copy, but only if it was made.  Mutation: the
\* host copy is used whenever the device is gone.
AlwaysHost == TRUE
HostIsCurrent == ~dev_mode

FetchHost ==
    /\ pc = "fetch" /\ HostIsCurrent
    /\ source' = [place |-> "host", ctx |-> "A"]
    /\ pc' = "sample"
    /\ UNCHANGED <<config, double_ok, used_stepwise, mode, batch, skip, gpu, dbuf, turn, i,
                   dev_mode, first, ctxv, fed, ret>>

\* The device tensor vanished, or differs from the host's rows.
FetchFails == pc = "fetch" /\ want_dev /\ (dev_mode \/ compare_device) /\ Leave(-1)

-----------------------------------------------------------------------------
(* generate_windows_double_tok, after the two prompts.                     *)

\* Host copies are skipped from here on, and A's first decode fills the pipe.
FirstDecode ==
    /\ pc = "pipe"
    /\ skip' = PerContext(TRUE)
    /\ queue' = [queue EXCEPT !["A"] = Append(@, [out |-> Decoded("A", 0), copied |-> FALSE])]
    /\ kv' = [kv EXCEPT !["A"] = @ + 1]
    /\ i' = 1
    /\ pc' = "sync"
    /\ UNCHANGED <<config, double_ok, used_stepwise, mode, batch, tensor, host, dbuf, turn,
                   dev_mode, first, ctxv, source, fed, ret>>

\* sync_and_copy of the context whose turn it is.
SyncAndCopy ==
    /\ pc = "sync" /\ Synchronized(turn)
    /\ dbuf' = [dbuf EXCEPT ![turn] = tensor[turn]]
    /\ source' = [place |-> "dbuf", ctx |-> turn]
    /\ first' = FALSE
    /\ pc' = "fill"
    /\ UNCHANGED <<config, double_ok, used_stepwise, mode, batch, skip, gpu, turn, i,
                   dev_mode, ctxv, fed, ret>>

\* The device tensor cannot be had or copied: fall back if this is the first time.
SyncFails == pc = "sync" /\ Leave(IF first THEN -2 ELSE -1)

\* The position of the other batch's token: B is one step behind A.  Mutation: it
\* is not.
NoLag == i
FillPos == IF turn = "A" THEN i - 1 ELSE i

\* The other context's decode is issued before this one is sampled.
FillPipe ==
    /\ pc = "fill"
    /\ Issue(Other(turn), Decoded(Other(turn), FillPos))
    /\ kv' = [kv EXCEPT ![Other(turn)] = @ + 1]
    /\ pc' = "sample"
    /\ UNCHANGED <<config, double_ok, used_stepwise, mode, batch, skip, tensor, host, dbuf,
                   local, fed, ret>>

\* A decode that is not issued: the first one of A or the other context's.
FillFails == pc \in {"pipe", "fill"} /\ Leave(-1)

\* Both contexts are drained, and the call returns two windows per stream.
Drain ==
    /\ pc = "drain" /\ \A c \in Contexts : Idle(c)
    /\ Leave(2)

EngineStep ==
    \/ PromptPass \/ PromptFails \/ SampleTokens \/ SampleFails \/ DecodeNext \/ DecodeFails
    \/ FetchDevice \/ FetchHost \/ FetchFails
    \/ FirstDecode \/ SyncAndCopy \/ SyncFails \/ FillPipe \/ FillFails \/ Drain

EngineNext ==
    \/ Refused \/ RefreshFails \/ StepwiseStart \/ NoBuffers \/ DoubleStart
    \/ EngineStep
    \/ \E c \in Contexts : GpuFinishes(c)

EngineSpec == EngineInit /\ [][EngineNext]_engineVars

-----------------------------------------------------------------------------
(* Properties.                                                             *)

LogitsSet == [batch : 0 .. MaxBatches, ctx : Contexts, step : 0 .. Window]

EngineTypeOK ==
    /\ <<want_double, want_dev, compare_device, refresh>> \in [1 .. 4 -> BOOLEAN]
    /\ double_ok \in BOOLEAN /\ used_stepwise \in BOOLEAN
    /\ pc \in {"idle", "prompt", "sample", "decode", "fetch", "pipe", "sync", "fill", "drain"}
    /\ mode \in {"single", "double"} /\ turn \in Contexts /\ i \in 0 .. Window
    /\ dev_mode \in BOOLEAN /\ first \in BOOLEAN /\ batch \in 0 .. MaxBatches
    /\ skip \in [Contexts -> BOOLEAN] /\ kv \in [Contexts -> -1 .. Window]
    /\ queue \in [Contexts -> Seq([out : LogitsSet, copied : BOOLEAN])]
    /\ tensor \in [Contexts -> LogitsSet] /\ host \in [Contexts -> LogitsSet]
    /\ dbuf \in [Contexts -> LogitsSet] /\ ctxv \in [Contexts -> 0 .. Window]
    /\ source \in [place : {"host", "tensor", "dbuf"}, ctx : Contexts]
    /\ fed \in [want : LogitsSet, got : LogitsSet]
    /\ ret \in -2 .. 2

\* The sampler is always given the logits of the batch, context and step whose
\* token it chooses: no row of an earlier call left in a buffer whose copy was
\* skipped, none of a decode that is still running, none of the other batch, and
\* none decoded at a wrong position, whatever failed in the calls before.
SamplerSeesItsStep == fed.got = fed.want

\* The comment at the end of generate_windows_stepwise_tok: the host copy is on
\* again for the next window's prompt pass, on every way out of a call.
HostCopyRestored == pc = "idle" => skip = PerContext(FALSE)

\* A call that reports windows has sampled all the steps of each batch it counts
\* (the mining loop: failed attempts must not count as completed windows).
WholeWindows ==
    pc = "idle" /\ ret > 0 =>
        ret = Cardinality({c \in Contexts : ctxv[c] = Window})

\* A call leaves the engine as the next one needs it, whatever failed in it: the host
\* copy is on again, and the windows it reports are whole.
CallsAreWhole == EngineTypeOK /\ HostCopyRestored /\ WholeWindows
=============================================================================
