------------------------- MODULE WindowEngineProofs -------------------------
(***************************************************************************)
(* The engine's windows, proved for every window length and every number   *)
(* of calls.                                                               *)
(*                                                                         *)
(* A context may still hold decodes of a call that failed.  The argument   *)
(* does not follow them one by one: what counts is the output a context    *)
(* will have when it has finished (Final) and whether the host will have   *)
(* the same (HostCurrent).  The GPU changes neither.  SingleCall,          *)
(* PromptsOfTwo and Alternation say, at every point of a call, how many    *)
(* tokens each batch has sampled and each context holds, and which logits  *)
(* are on their way to the sampler.                                        *)
(*                                                                         *)
(* The sampler pool, which samples each step of both batches, is proved    *)
(* for every set of groups and every split of the streams over them: its   *)
(* invariant (IInv) says where each group is with respect to the           *)
(* generation of the call, and from it the pool is shown to implement      *)
(* SampleStep.                                                             *)
(***************************************************************************)
EXTENDS WindowEngine, SamplerPool, FiniteSetTheorems, TLAPS

LastOf(c) == queue[c][Len(queue[c])]
Final(c) == IF queue[c] = <<>> THEN tensor[c] ELSE LastOf(c).out
HostCurrent(c) == IF queue[c] = <<>> THEN host[c] = tensor[c] ELSE LastOf(c).copied

SampledBoth(a, b) == ctxv["A"] = a /\ ctxv["B"] = b
Held(a, b) == kv["A"] = a /\ kv["B"] = b
HostOn == skip["A"] = FALSE /\ skip["B"] = FALSE

\* generate_windows_stepwise_tok, at each of its points.
SingleCall ==
    mode = "single" /\ pc /= "idle" =>
        /\ pc \in {"prompt", "sample", "decode", "fetch"}
        /\ turn = "A" /\ ctxv["B"] = 0
        /\ skip["B"] = FALSE /\ (skip["A"] => dev_mode)
        /\ pc = "prompt" => i = 0 /\ ctxv["A"] = 0 /\ HostOn
        /\ pc = "sample" => /\ i < Window /\ ctxv["A"] = i /\ kv["A"] = i
                            /\ Final("A") = Logits(batch, "A", i)
                            /\ source.ctx = "A" /\ source.place \in {"host", "tensor"}
                            /\ source.place = "host" => HostCurrent("A")
        /\ pc = "decode" => i < Window /\ ctxv["A"] = i + 1 /\ kv["A"] = i
        /\ pc = "fetch" => /\ i < Window /\ ctxv["A"] = i /\ kv["A"] = i
                           /\ Final("A") = Logits(batch, "A", i)
                           /\ ~ dev_mode => HostCurrent("A")

\* generate_windows_double_tok up to the two first tokens.
PromptsOfTwo ==
    mode = "double" =>
        /\ pc = "prompt" => /\ i = 0 /\ HostOn /\ ctxv["B"] = 0
                            /\ turn = "A" => ctxv["A"] = 0
                            /\ turn = "B" => ctxv["A"] = 1 /\ kv["A"] = 0
        /\ pc = "sample" /\ i = 0 =>
               /\ HostOn /\ source.place = "host" /\ source.ctx = turn
               /\ Final(turn) = Logits(batch, turn, 0) /\ HostCurrent(turn)
               /\ kv[turn] = 0 /\ ctxv["B"] = 0
               /\ turn = "A" => ctxv["A"] = 0
               /\ turn = "B" => ctxv["A"] = 1 /\ kv["A"] = 0
        /\ pc = "pipe" => i = 0 /\ turn = "A" /\ SampledBoth(1, 1) /\ Held(0, 0)

\* Its loop: B is one step behind A.
Alternation ==
    mode = "double" =>
        /\ pc \in {"idle", "prompt", "sample", "pipe", "sync", "fill", "drain"}
        /\ pc \in {"sync", "fill"} =>
               /\ i \in 1 .. (Window - 1) /\ Final(turn) = Logits(batch, turn, i)
               /\ turn = "A" => SampledBoth(i, i) /\ Held(i, i - 1)
               /\ turn = "B" => SampledBoth(i + 1, i) /\ Held(i, i)
        /\ pc = "sample" /\ i > 0 =>
               /\ i \in 1 .. (Window - 1)
               /\ turn = "A" => /\ SampledBoth(i, i) /\ Held(i, i)
                                /\ Final("B") = Logits(batch, "B", i)
               /\ turn = "B" => /\ SampledBoth(i + 1, i) /\ Held(i + 1, i)
                                /\ Final("A") = Logits(batch, "A", i + 1)
        /\ pc = "fill" \/ (pc = "sample" /\ i > 0) =>
               dbuf[turn] = Logits(batch, turn, i) /\ source.place = "dbuf" /\ source.ctx = turn
        /\ pc = "drain" => SampledBoth(Window, Window)

ConfigTypes == <<want_double, want_dev, compare_device, refresh>> \in [1 .. 4 -> BOOLEAN]

CallTypes ==
    /\ double_ok \in BOOLEAN /\ used_stepwise \in BOOLEAN
    /\ pc \in {"idle", "prompt", "sample", "decode", "fetch", "pipe", "sync", "fill", "drain"}
    /\ mode \in {"single", "double"} /\ turn \in Contexts /\ i \in 0 .. Window
    /\ dev_mode \in BOOLEAN /\ first \in BOOLEAN /\ batch \in 0 .. MaxBatches
    /\ source \in [place : {"host", "tensor", "dbuf"}, ctx : Contexts]
    /\ ret \in -2 .. 2

Decodes == [out : LogitsSet, copied : BOOLEAN]

DataTypes ==
    /\ skip \in [Contexts -> BOOLEAN] /\ kv \in [Contexts -> -1 .. Window]
    /\ queue \in [Contexts -> Seq(Decodes)]
    /\ tensor \in [Contexts -> LogitsSet] /\ host \in [Contexts -> LogitsSet]
    /\ dbuf \in [Contexts -> LogitsSet] /\ ctxv \in [Contexts -> 0 .. Window]
    /\ fed \in [want : LogitsSet, got : LogitsSet]

EngineTypes == ConfigTypes /\ CallTypes /\ DataTypes

EngineInv ==
    /\ EngineTypes
    /\ SingleCall /\ PromptsOfTwo /\ Alternation
    /\ HostCopyRestored /\ WholeWindows /\ SamplerSeesItsStep

-----------------------------------------------------------------------------
(* Logits and queues.                                                      *)

LEMMA LogitsTyped ==
    ASSUME NEW b \in 0 .. MaxBatches, NEW c \in Contexts, NEW n \in 0 .. Window
    PROVE  Logits(b, c, n) \in LogitsSet
BY DEF Logits, LogitsSet

LEMMA NoLogitsTyped == NoLogits \in LogitsSet /\ PerContext(NoLogits) \in [Contexts -> LogitsSet]
<1>1. 0 \in 0 .. MaxBatches /\ 0 \in 0 .. Window /\ "A" \in Contexts
  BY EngineAssumption DEF Contexts
<1>2. NoLogits \in LogitsSet
  BY <1>1, LogitsTyped DEF NoLogits
<1> QED BY <1>2 DEF PerContext

(* Issuing a decode: its output is what the context will have, and the     *)
(* host will have it if it is copied.                                      *)
LEMMA Issued ==
    ASSUME DataTypes, NEW c \in Contexts, NEW x \in LogitsSet, NEW cp \in BOOLEAN,
           queue' = [queue EXCEPT ![c] = Append(@, [out |-> x, copied |-> cp])],
           tensor' = tensor, host' = host
    PROVE  /\ queue' \in [Contexts -> Seq(Decodes)]
           /\ Final(c)' = x
           /\ HostCurrent(c)' <=> cp
           /\ \A d \in Contexts \ {c} : Final(d)' = Final(d) /\ (HostCurrent(d)' <=> HostCurrent(d))
<1> DEFINE e == [out |-> x, copied |-> cp]
<1>1. e \in Decodes /\ e.out = x /\ e.copied = cp
  BY DEF Decodes
<1>2. queue \in [Contexts -> Seq(Decodes)] /\ queue[c] \in Seq(Decodes)
  BY DEF DataTypes
<1> HIDE DEF e
<1>3. queue' = [queue EXCEPT ![c] = Append(queue[c], e)]
  BY <1>2 DEF e
<1>4. /\ Append(queue[c], e) \in Seq(Decodes) /\ Append(queue[c], e) /= <<>>
      /\ Len(Append(queue[c], e)) = Len(queue[c]) + 1
      /\ Append(queue[c], e)[Len(queue[c]) + 1] = e
  BY SMTT(30), <1>1, <1>2
<1>5. queue'[c] = Append(queue[c], e) /\ \A d \in Contexts \ {c} : queue'[d] = queue[d]
  BY <1>2, <1>3
<1>6. queue' \in [Contexts -> Seq(Decodes)]
  BY <1>2, <1>3, <1>4
<1>7. LastOf(c)' = e /\ queue'[c] /= <<>>
  BY <1>4, <1>5 DEF LastOf
<1>8. Final(c)' = x /\ (HostCurrent(c)' <=> cp)
  BY <1>1, <1>7 DEF Final, HostCurrent
<1>9. \A d \in Contexts \ {c} : Final(d)' = Final(d) /\ (HostCurrent(d)' <=> HostCurrent(d))
  BY <1>5 DEF Final, HostCurrent, LastOf
<1> QED BY <1>6, <1>8, <1>9

(* The GPU finishing a decode changes neither what a context will have nor *)
(* whether the host will have it.                                          *)
LEMMA Finished ==
    ASSUME DataTypes, NEW c \in Contexts, GpuFinishes(c)
    PROVE  /\ queue' \in [Contexts -> Seq(Decodes)]
           /\ tensor' \in [Contexts -> LogitsSet] /\ host' \in [Contexts -> LogitsSet]
           /\ \A d \in Contexts : Final(d)' = Final(d) /\ (HostCurrent(d) => HostCurrent(d)')
<1>1. /\ queue \in [Contexts -> Seq(Decodes)] /\ queue[c] \in Seq(Decodes)
      /\ tensor \in [Contexts -> LogitsSet] /\ host \in [Contexts -> LogitsSet]
  BY DEF DataTypes
<1> DEFINE q == queue[c]
<1>2. /\ q /= <<>> /\ queue' = [queue EXCEPT ![c] = Tail(q)]
      /\ tensor' = [tensor EXCEPT ![c] = Head(q).out]
      /\ host' = IF Head(q).copied THEN [host EXCEPT ![c] = Head(q).out] ELSE host
  BY <1>1 DEF GpuFinishes, Idle
<1>3. q \in Seq(Decodes)
  BY <1>1
<1> HIDE DEF q
<1>4. /\ Head(q) = q[1] /\ q[1] \in Decodes /\ Tail(q) \in Seq(Decodes) /\ Len(q) \in Nat \ {0}
      /\ Len(Tail(q)) = Len(q) - 1
      /\ \A n \in 1 .. (Len(q) - 1) : Tail(q)[n] = q[n + 1]
      /\ Tail(q) = <<>> <=> Len(q) = 1
  <2>1. Len(q) \in Nat \ {0}
    BY <1>2, <1>3
  <2>2. Head(q) = q[1] /\ q[1] \in Decodes
    BY <1>3, <2>1
  <2>3. Tail(q) \in Seq(Decodes) /\ Len(Tail(q)) = Len(q) - 1
    BY <1>2, <1>3
  <2>4. \A n \in 1 .. (Len(q) - 1) : Tail(q)[n] = q[n + 1]
    BY <1>2, <1>3
  <2>5. Tail(q) = <<>> <=> Len(Tail(q)) = 0
    BY <2>3
  <2> QED BY <2>1, <2>2, <2>3, <2>4, <2>5
<1>5. Head(q).out \in LogitsSet /\ Head(q).copied \in BOOLEAN
  BY <1>4 DEF Decodes
<1>6. queue' \in [Contexts -> Seq(Decodes)] /\ tensor' \in [Contexts -> LogitsSet]
      /\ host' \in [Contexts -> LogitsSet]
  BY <1>1, <1>2, <1>4, <1>5
<1>7. /\ queue'[c] = Tail(q) /\ tensor'[c] = Head(q).out
      /\ host'[c] = IF Head(q).copied THEN Head(q).out ELSE host[c]
  BY <1>1, <1>2
<1>8. \A d \in Contexts \ {c} : queue'[d] = queue[d] /\ tensor'[d] = tensor[d] /\ host'[d] = host[d]
  BY <1>1, <1>2
<1>9. Final(c)' = Final(c) /\ (HostCurrent(c) => HostCurrent(c)')
  <2>1. Final(c) = q[Len(q)].out /\ (HostCurrent(c) <=> q[Len(q)].copied)
    BY <1>2 DEF Final, HostCurrent, LastOf, q
  <2>2. CASE Len(q) = 1
    <3>1. Final(c)' = Head(q).out /\ (HostCurrent(c)' <=> host'[c] = tensor'[c])
      BY <1>4, <1>7, <2>2 DEF Final, HostCurrent
    <3> QED BY <1>4, <1>7, <2>1, <2>2, <3>1
  <2>3. CASE Len(q) /= 1
    <3>1. Tail(q)[Len(q) - 1] = q[Len(q)]
      <4>1. Len(q) - 1 \in 1 .. (Len(q) - 1) /\ (Len(q) - 1) + 1 = Len(q)
        BY <1>4, <2>3
      <4> QED BY <1>4, <4>1
    <3>2. LastOf(c)' = q[Len(q)] /\ queue'[c] /= <<>>
      BY <1>4, <1>7, <2>3, <3>1 DEF LastOf
    <3> QED BY <2>1, <3>2 DEF Final, HostCurrent
  <2> QED BY <2>2, <2>3
<1>10. \A d \in Contexts \ {c} : Final(d)' = Final(d) /\ (HostCurrent(d) => HostCurrent(d)')
  BY <1>8 DEF Final, HostCurrent, LastOf
<1> QED BY <1>6, <1>9, <1>10

(* Once a context is idle, what it will have is there.                     *)
LEMMA Waited ==
    ASSUME NEW c, Idle(c)
    PROVE  tensor[c] = Final(c) /\ (HostCurrent(c) => host[c] = Final(c))
BY DEF Idle, Final, HostCurrent

LEMMA TwoContexts == Contexts = {"A", "B"} /\ Other("A") = "B" /\ Other("B") = "A"
BY DEF Contexts, Other

-----------------------------------------------------------------------------
(* The ends of a call.                                                     *)

LEMMA Left ==
    ASSUME EngineInv, NEW r \in {-1, -2}, pc /= "idle", Leave(r)
    PROVE  EngineInv'
<1>1. /\ pc' = "idle" /\ ret' = r /\ skip' = Restored(r) /\ double_ok' = (double_ok /\ r # -2)
      /\ UNCHANGED <<config, used_stepwise, mode, batch, gpu, dbuf, local, fed>>
  BY DEF Leave, End
<1>2. skip' = PerContext(FALSE)
  <2>1. skip \in [Contexts -> BOOLEAN] /\ mode \in {"single", "double"}
    BY DEF EngineInv, EngineTypes, DataTypes, CallTypes
  <2>2. CASE mode = "double"
    BY <1>1, <2>2 DEF Restored
  <2>3. CASE mode = "single"
    <3>1. skip["B"] = FALSE /\ (skip["A"] => dev_mode)
      BY <2>3 DEF EngineInv, SingleCall
    <3>2. CASE dev_mode
      <4>1. skip' = [skip EXCEPT !["A"] = FALSE]
        BY <1>1, <2>3, <3>2 DEF Restored
      <4> QED BY <2>1, <3>1, <4>1 DEF PerContext, Contexts
    <3>3. CASE ~ dev_mode
      <4>1. skip' = skip
        BY <1>1, <2>3, <3>3 DEF Restored
      <4> QED BY <2>1, <3>1, <3>3, <4>1 DEF PerContext, Contexts
    <3> QED BY <3>2, <3>3
  <2> QED BY <2>1, <2>2, <2>3
<1>3. ConfigTypes'
  BY <1>1 DEF EngineInv, EngineTypes, ConfigTypes, config
<1>4. CallTypes'
  BY <1>1 DEF EngineInv, EngineTypes, CallTypes, local
<1>5. DataTypes'
  BY <1>1, <1>2 DEF EngineInv, EngineTypes, DataTypes, local, gpu, PerContext
<1>6. SamplerSeesItsStep'
  BY <1>1 DEF EngineInv, SamplerSeesItsStep
<1>7. SingleCall' /\ PromptsOfTwo' /\ Alternation'
  BY <1>1 DEF SingleCall, PromptsOfTwo, Alternation
<1>8. WholeWindows' /\ HostCopyRestored'
  <2>1. ~ (ret' > 0)
    BY <1>1
  <2> QED BY <1>1, <1>2, <2>1 DEF WholeWindows, HostCopyRestored, PerContext
<1> QED BY <1>3, <1>4, <1>5, <1>6, <1>7, <1>8 DEF EngineInv, EngineTypes

(* The windows a call counts.                                              *)
LEMMA Counting ==
    ASSUME ctxv["B"] = 0 \/ ctxv["B"] = Window, ctxv["A"] = Window
    PROVE  Cardinality({c \in Contexts : ctxv[c] = Window}) = IF ctxv["B"] = 0 THEN 1 ELSE 2
<1>1. Window /= 0
  BY EngineAssumption
<1>2. CASE ctxv["B"] = 0
  <2>1. {c \in Contexts : ctxv[c] = Window} = {"A"}
    BY <1>1, <1>2 DEF Contexts
  <2>2. Cardinality({"A"}) = 1
    BY FS_Singleton
  <2> QED BY <1>2, <2>1, <2>2
<1>3. CASE ctxv["B"] = Window
  <2>1. {c \in Contexts : ctxv[c] = Window} = {"A"} \cup {"B"}
    BY <1>1, <1>3 DEF Contexts
  <2>2. IsFiniteSet({"A"}) /\ Cardinality({"A"}) = 1 /\ "B" \notin {"A"}
    BY FS_Singleton
  <2>3. Cardinality({"A"} \cup {"B"}) = 2
    BY <2>2, FS_AddElement
  <2> QED BY <1>1, <1>3, <2>1, <2>3
<1> QED BY <1>2, <1>3

-----------------------------------------------------------------------------
(* The calls of the mining loop.                                           *)

LEMMA BegunTypes ==
    ASSUME EngineInv, NEW mm \in {"single", "double"}, Begin(mm)
    PROVE  /\ pc = "idle" /\ batch' \in 0 .. MaxBatches /\ mode' = mm
           /\ turn' = "A" /\ i' = 0 /\ dev_mode' = FALSE /\ first' = TRUE
           /\ ctxv' \in [Contexts -> 0 .. Window] /\ ctxv'["A"] = 0 /\ ctxv'["B"] = 0
           /\ source' \in [place : {"host", "tensor", "dbuf"}, ctx : Contexts]
           /\ skip = PerContext(FALSE)
<1>1. batch \in 0 .. MaxBatches /\ MaxBatches \in Nat /\ 0 \in 0 .. Window
  BY EngineAssumption DEF EngineInv, EngineTypes, CallTypes
<1>2. batch' \in 0 .. MaxBatches
  BY <1>1 DEF Begin
<1>3. ctxv' \in [Contexts -> 0 .. Window] /\ ctxv'["A"] = 0 /\ ctxv'["B"] = 0
  BY <1>1 DEF Begin, PerContext, Contexts
<1>4. source' \in [place : {"host", "tensor", "dbuf"}, ctx : Contexts]
  BY DEF Begin, Contexts
<1> QED BY <1>2, <1>3, <1>4 DEF Begin, EngineInv, HostCopyRestored

LEMMA NotBegun ==
    ASSUME EngineInv, Refused \/ RefreshFails \/ NoBuffers
    PROVE  EngineInv'
<1>1. PICK mm \in {"single", "double"} : Begin(mm)
  BY DEF Refused, RefreshFails, NoBuffers
<1>2. /\ pc = "idle" /\ batch' \in 0 .. MaxBatches /\ mode' = mm
      /\ turn' = "A" /\ i' = 0 /\ dev_mode' = FALSE /\ first' = TRUE
      /\ ctxv' \in [Contexts -> 0 .. Window]
      /\ source' \in [place : {"host", "tensor", "dbuf"}, ctx : Contexts]
      /\ skip = PerContext(FALSE)
  BY <1>1, BegunTypes
<1>3. /\ UNCHANGED <<config, used_stepwise, pc, kv, tensor, host, dbuf, fed>>
      /\ ret' \in {-1, -2} /\ double_ok' \in {double_ok, FALSE}
      /\ queue' \in {queue, [queue EXCEPT !["A"] = <<>>]}
      /\ skip' \in {skip, [skip EXCEPT !["A"] = FALSE]}
  BY DEF Refused, RefreshFails, NoBuffers, gpu
<1>4. skip' = PerContext(FALSE)
  BY <1>2, <1>3 DEF PerContext, Contexts
<1>5. ConfigTypes'
  BY <1>3 DEF EngineInv, EngineTypes, ConfigTypes, config
<1>6. CallTypes'
  <2>1. 0 \in 0 .. Window /\ "A" \in Contexts /\ ret' \in -2 .. 2
    BY <1>3, EngineAssumption DEF Contexts
  <2> QED BY <1>2, <1>3, <2>1 DEF EngineInv, EngineTypes, CallTypes
<1>7. DataTypes'
  <2>1. queue \in [Contexts -> Seq(Decodes)] /\ <<>> \in Seq(Decodes)
    BY DEF EngineInv, EngineTypes, DataTypes
  <2>2. queue' \in [Contexts -> Seq(Decodes)]
    BY <1>3, <2>1
  <2>3. skip' \in [Contexts -> BOOLEAN]
    BY <1>4 DEF PerContext
  <2> QED BY <1>2, <1>3, <2>2, <2>3 DEF EngineInv, EngineTypes, DataTypes
<1>8. SingleCall' /\ PromptsOfTwo' /\ Alternation'
  BY <1>2, <1>3 DEF SingleCall, PromptsOfTwo, Alternation
<1>9. HostCopyRestored' /\ WholeWindows' /\ SamplerSeesItsStep'
  <2>1. ~ (ret' > 0)
    BY <1>3
  <2> QED BY <1>3, <1>4, <2>1
      DEF EngineInv, HostCopyRestored, WholeWindows, SamplerSeesItsStep, PerContext
<1> QED BY <1>5, <1>6, <1>7, <1>8, <1>9 DEF EngineInv, EngineTypes

(* A step inside a call owes nothing to the properties of its end.         *)
LEMMA InsideCall ==
    ASSUME EngineInv, pc' /= "idle", fed' = fed
    PROVE  HostCopyRestored' /\ WholeWindows' /\ SamplerSeesItsStep'
BY DEF EngineInv, HostCopyRestored, WholeWindows, SamplerSeesItsStep

LEMMA BegunStepwise ==
    ASSUME EngineInv, StepwiseStart
    PROVE  EngineInv'
<1>1. /\ pc = "idle" /\ batch' \in 0 .. MaxBatches /\ mode' = "single"
      /\ turn' = "A" /\ i' = 0 /\ dev_mode' = FALSE /\ first' = TRUE
      /\ ctxv' \in [Contexts -> 0 .. Window] /\ ctxv'["A"] = 0 /\ ctxv'["B"] = 0
      /\ source' \in [place : {"host", "tensor", "dbuf"}, ctx : Contexts]
      /\ skip = PerContext(FALSE)
  BY BegunTypes DEF StepwiseStart
<1>2. /\ UNCHANGED <<config, double_ok, dbuf, fed, ret>> /\ used_stepwise' = TRUE /\ pc' = "prompt"
      /\ kv' = [kv EXCEPT !["A"] = -1]
      /\ queue' \in {queue, [queue EXCEPT !["A"] = <<>>]}
      /\ skip' \in {skip, [skip EXCEPT !["A"] = FALSE]}
      /\ tensor' \in {tensor, [tensor EXCEPT !["A"] = NoLogits]}
      /\ host' \in {host, [host EXCEPT !["A"] = NoLogits]}
  BY DEF StepwiseStart
<1>3. skip' = PerContext(FALSE)
  BY <1>1, <1>2 DEF PerContext, Contexts
<1>4. ConfigTypes'
  BY <1>2 DEF EngineInv, EngineTypes, ConfigTypes, config
<1>5. CallTypes'
  <2>1. 0 \in 0 .. Window /\ "A" \in Contexts
    BY EngineAssumption DEF Contexts
  <2> QED BY <1>1, <1>2, <2>1 DEF EngineInv, EngineTypes, CallTypes
<1>6. DataTypes'
  <2>1. /\ queue \in [Contexts -> Seq(Decodes)] /\ <<>> \in Seq(Decodes)
        /\ kv \in [Contexts -> -1 .. Window] /\ -1 \in -1 .. Window
        /\ tensor \in [Contexts -> LogitsSet] /\ host \in [Contexts -> LogitsSet]
    BY EngineAssumption DEF EngineInv, EngineTypes, DataTypes
  <2>2. queue' \in [Contexts -> Seq(Decodes)]
    BY <1>2, <2>1
  <2>3. skip' \in [Contexts -> BOOLEAN]
    BY <1>3 DEF PerContext
  <2>4. kv' \in [Contexts -> -1 .. Window]
    BY <1>2, <2>1
  <2>5. tensor' \in [Contexts -> LogitsSet] /\ host' \in [Contexts -> LogitsSet]
    BY <1>2, <2>1, NoLogitsTyped
  <2> QED BY <1>1, <1>2, <2>2, <2>3, <2>4, <2>5 DEF EngineInv, EngineTypes, DataTypes
<1>7. SingleCall'
  <2>1. skip'["A"] = FALSE /\ skip'["B"] = FALSE
    BY <1>3 DEF PerContext, Contexts
  <2> QED BY <1>1, <1>2, <2>1 DEF SingleCall, HostOn
<1>8. PromptsOfTwo' /\ Alternation'
  BY <1>1 DEF PromptsOfTwo, Alternation
<1> QED BY <1>2, <1>4, <1>5, <1>6, <1>7, <1>8, InsideCall DEF EngineInv, EngineTypes

LEMMA BegunDouble ==
    ASSUME EngineInv, DoubleStart
    PROVE  EngineInv'
<1>1. /\ pc = "idle" /\ batch' \in 0 .. MaxBatches /\ mode' = "double"
      /\ turn' = "A" /\ i' = 0 /\ dev_mode' = FALSE /\ first' = TRUE
      /\ ctxv' \in [Contexts -> 0 .. Window] /\ ctxv'["A"] = 0 /\ ctxv'["B"] = 0
      /\ source' \in [place : {"host", "tensor", "dbuf"}, ctx : Contexts]
  BY BegunTypes DEF DoubleStart
<1>2. /\ UNCHANGED <<config, double_ok, used_stepwise, queue, tensor, host, dbuf, fed, ret>>
      /\ pc' = "prompt" /\ kv' = PerContext(-1) /\ skip' = PerContext(FALSE)
  BY DEF DoubleStart
<1>3. ConfigTypes'
  BY <1>2 DEF EngineInv, EngineTypes, ConfigTypes, config
<1>4. CallTypes'
  <2>1. 0 \in 0 .. Window /\ "A" \in Contexts
    BY EngineAssumption DEF Contexts
  <2> QED BY <1>1, <1>2, <2>1 DEF EngineInv, EngineTypes, CallTypes
<1>5. DataTypes'
  <2>1. skip' \in [Contexts -> BOOLEAN]
    BY <1>2 DEF PerContext
  <2>2. kv' \in [Contexts -> -1 .. Window]
    BY <1>2, EngineAssumption DEF PerContext
  <2> QED BY <1>1, <1>2, <2>1, <2>2 DEF EngineInv, EngineTypes, DataTypes
<1>6. PromptsOfTwo'
  <2>1. skip'["A"] = FALSE /\ skip'["B"] = FALSE
    BY <1>2 DEF PerContext, Contexts
  <2> QED BY <1>1, <1>2, <2>1 DEF PromptsOfTwo, HostOn
<1>7. SingleCall' /\ Alternation'
  BY <1>1, <1>2 DEF SingleCall, Alternation
<1> QED BY <1>2, <1>3, <1>4, <1>5, <1>6, <1>7, InsideCall DEF EngineInv, EngineTypes

-----------------------------------------------------------------------------
(* Prompt pass and sampling.                                               *)

LEMMA Prompted ==
    ASSUME EngineInv, PromptPass
    PROVE  EngineInv'
<1>1. PICK c : c = turn
  OBVIOUS
<1>2. /\ pc = "prompt" /\ pc' = "sample" /\ c \in Contexts /\ turn' = c
      /\ queue' = [queue EXCEPT ![c] = Append(@, [out |-> Logits(batch, c, 0), copied |-> ~ skip[c]])]
      /\ kv' = [kv EXCEPT ![c] = 0] /\ source' = [place |-> "host", ctx |-> c]
      /\ UNCHANGED <<config, double_ok, used_stepwise, mode, batch, skip, tensor, host, dbuf,
                     turn, i, dev_mode, first, ctxv, fed, ret>>
      /\ CallTypes /\ DataTypes /\ ConfigTypes
  BY <1>1 DEF PromptPass, Issue, EngineInv, EngineTypes, CallTypes
<1>3. /\ skip \in [Contexts -> BOOLEAN] /\ kv \in [Contexts -> -1 .. Window] /\ 0 \in -1 .. Window
      /\ 0 \in 0 .. Window /\ batch \in 0 .. MaxBatches
  BY <1>2, EngineAssumption DEF DataTypes, CallTypes
<1>4. i = 0 /\ HostOn
  BY <1>2 DEF EngineInv, SingleCall, PromptsOfTwo, CallTypes
<1>5. skip[c] = FALSE
  BY <1>2, <1>4, TwoContexts DEF HostOn
<1>6. Logits(batch, c, 0) \in LogitsSet
  BY <1>2, <1>3, LogitsTyped
<1>7. (~ skip[c]) \in BOOLEAN
  OBVIOUS
<1>8. /\ queue' \in [Contexts -> Seq(Decodes)] /\ Final(c)' = Logits(batch, c, 0)
      /\ HostCurrent(c)' <=> ~ skip[c]
  BY <1>2, <1>6, <1>7, Issued
<1>9. kv' \in [Contexts -> -1 .. Window] /\ kv'[c] = 0 /\ \A d \in Contexts \ {c} : kv'[d] = kv[d]
  BY <1>2, <1>3
<1>10. source' \in [place : {"host", "tensor", "dbuf"}, ctx : Contexts]
       /\ source'.place = "host" /\ source'.ctx = c
  BY <1>2
<1>11. ConfigTypes'
  BY <1>2 DEF ConfigTypes, config
<1>12. CallTypes'
  BY <1>2, <1>10 DEF CallTypes
<1>13. DataTypes'
  BY <1>2, <1>8, <1>9 DEF DataTypes
<1>14. SingleCall'
  <2> SUFFICES ASSUME mode = "single" PROVE SingleCall'
    BY <1>2 DEF SingleCall
  <2>1. c = "A" /\ ctxv["A"] = 0 /\ ctxv["B"] = 0 /\ HostOn
    BY <1>1, <1>2 DEF EngineInv, SingleCall
  <2>2. 0 < Window
    BY EngineAssumption
  <2> QED BY <1>2, <1>4, <1>5, <1>8, <1>9, <1>10, <2>1, <2>2 DEF SingleCall, HostOn
<1>15. PromptsOfTwo'
  <2> SUFFICES ASSUME mode = "double" PROVE PromptsOfTwo'
    BY <1>2 DEF PromptsOfTwo
  <2>1. /\ ctxv["B"] = 0
        /\ c = "A" => ctxv["A"] = 0
        /\ c = "B" => ctxv["A"] = 1 /\ kv["A"] = 0
    BY <1>1, <1>2 DEF EngineInv, PromptsOfTwo
  <2>2. c = "B" => kv'["A"] = 0
    BY <1>9, <2>1, TwoContexts
  <2>3. Final(turn)' = Logits(batch, c, 0) /\ HostCurrent(turn)' /\ kv'[turn'] = 0
    BY <1>2, <1>5, <1>8, <1>9
  <2> QED BY <1>2, <1>4, <1>10, <2>1, <2>2, <2>3 DEF PromptsOfTwo, HostOn
<1>16. Alternation'
  BY <1>2, <1>4 DEF Alternation
<1> QED BY <1>2, <1>11, <1>12, <1>13, <1>14, <1>15, <1>16, InsideCall DEF EngineInv, EngineTypes

(* What the sampler gets is what it wants.                                 *)
LEMMA FoundRight ==
    ASSUME EngineInv, SampleTokens
    PROVE  Found = Logits(batch, turn, ctxv[turn])
<1>1. /\ pc = "sample" /\ mode \in {"single", "double"} /\ turn \in Contexts /\ i \in 0 .. Window
      /\ source.place # "dbuf" => Idle(source.ctx)
  BY DEF SampleTokens, Synchronized, EngineInv, EngineTypes, CallTypes
<1>2. CASE mode = "single"
  <2>1. /\ turn = "A" /\ ctxv["A"] = i /\ Final("A") = Logits(batch, "A", i)
        /\ source.ctx = "A" /\ source.place \in {"host", "tensor"}
        /\ source.place = "host" => HostCurrent("A")
    BY <1>1, <1>2 DEF EngineInv, SingleCall
  <2>2. Idle("A")
    BY <1>1, <2>1
  <2>3. tensor["A"] = Final("A") /\ (HostCurrent("A") => host["A"] = Final("A"))
    BY <2>2, Waited
  <2>4. CASE source.place = "host"
    BY <2>1, <2>3, <2>4 DEF Found
  <2>5. CASE source.place = "tensor"
    BY <2>1, <2>3, <2>5 DEF Found
  <2> QED BY <2>1, <2>4, <2>5
<1>3. CASE mode = "double" /\ i = 0
  <2>1. /\ source.place = "host" /\ source.ctx = turn
        /\ Final(turn) = Logits(batch, turn, 0) /\ HostCurrent(turn) /\ ctxv[turn] = 0
    BY <1>1, <1>3, TwoContexts DEF EngineInv, PromptsOfTwo
  <2>2. host[turn] = Final(turn)
    BY <1>1, <2>1, Waited
  <2> QED BY <2>1, <2>2 DEF Found
<1>4. CASE mode = "double" /\ i > 0
  <2>1. dbuf[turn] = Logits(batch, turn, i) /\ source.place = "dbuf" /\ source.ctx = turn
    BY <1>1, <1>4 DEF EngineInv, Alternation
  <2>2. ctxv[turn] = i
    BY <1>1, <1>4, TwoContexts DEF EngineInv, Alternation, SampledBoth
  <2> QED BY <2>1, <2>2 DEF Found
<1> QED BY <1>1, <1>2, <1>3, <1>4

LEMMA SampledOne ==
    ASSUME EngineInv, SampleTokens
    PROVE  EngineInv'
<1>1. PICK c : c = turn
  OBVIOUS
<1>2. /\ pc = "sample" /\ c \in Contexts /\ mode \in {"single", "double"} /\ i \in 0 .. Window
      /\ fed' = [want |-> Logits(batch, c, ctxv[c]), got |-> Found]
      /\ ctxv' = [ctxv EXCEPT ![c] = @ + 1]
      /\ pc' = AfterSample
      /\ turn' = IF mode = "double" THEN Other(c) ELSE c
      /\ i' = IF mode = "double" /\ i > 0 /\ c = "B" THEN i + 1 ELSE i
      /\ UNCHANGED <<config, double_ok, used_stepwise, mode, batch, skip, gpu, dbuf,
                     dev_mode, first, source, ret>>
      /\ CallTypes /\ DataTypes /\ ConfigTypes
  BY <1>1 DEF SampleTokens, EngineInv, EngineTypes, CallTypes
<1>3. ctxv \in [Contexts -> 0 .. Window] /\ Window \in Nat /\ Window > 1 /\ batch \in 0 .. MaxBatches
  BY <1>2, EngineAssumption DEF DataTypes, CallTypes
<1>4. ctxv[c] \in 0 .. (Window - 1) /\ i < Window /\ ctxv[c] = i
  <2>1. CASE mode = "single"
    BY <1>1, <1>2, <1>3, <2>1 DEF EngineInv, SingleCall
  <2>2. CASE mode = "double" /\ i = 0
    BY <1>1, <1>2, <1>3, <2>2, TwoContexts DEF EngineInv, PromptsOfTwo
  <2>3. CASE mode = "double" /\ i > 0
    BY <1>1, <1>2, <1>3, <2>3, TwoContexts DEF EngineInv, Alternation, SampledBoth
  <2> QED BY <1>2, <2>1, <2>2, <2>3
<1>5. /\ ctxv' \in [Contexts -> 0 .. Window] /\ ctxv'[c] = i + 1
      /\ \A d \in Contexts \ {c} : ctxv'[d] = ctxv[d]
  BY <1>2, <1>3, <1>4
<1>6. fed' \in [want : LogitsSet, got : LogitsSet] /\ fed'.got = fed'.want
  <2>1. Logits(batch, c, ctxv[c]) \in LogitsSet
    BY <1>2, <1>3, <1>4, LogitsTyped
  <2>2. Found = Logits(batch, c, ctxv[c])
    BY <1>1, FoundRight
  <2> QED BY <1>2, <2>1, <2>2
<1>7. \A d : Final(d)' = Final(d) /\ (HostCurrent(d)' <=> HostCurrent(d))
  BY <1>2 DEF Final, HostCurrent, LastOf, gpu
<1>8. DataTypes'
  BY <1>2, <1>5, <1>6 DEF DataTypes, gpu
<1>9. ConfigTypes'
  BY <1>2 DEF ConfigTypes, config
<1>10. pc' \in {"decode", "prompt", "pipe", "drain", "sync"}
  BY <1>2 DEF AfterSample
<1>11. CallTypes'
  <2>1. turn' \in Contexts
    BY <1>2, TwoContexts
  <2>2. i' \in 0 .. Window
    BY <1>2, <1>3, <1>4
  <2> QED BY <1>2, <1>10, <2>1, <2>2 DEF CallTypes
<1>12. HostCopyRestored' /\ WholeWindows' /\ SamplerSeesItsStep'
  BY <1>6, <1>10 DEF HostCopyRestored, WholeWindows, SamplerSeesItsStep
<1>13. CASE mode = "single"
  <2>1. /\ c = "A" /\ ctxv["B"] = 0 /\ skip["B"] = FALSE /\ (skip["A"] => dev_mode) /\ kv["A"] = i
    BY <1>1, <1>2, <1>13 DEF EngineInv, SingleCall
  <2>2. pc' = "decode" /\ turn' = "A" /\ i' = i /\ ctxv'["A"] = i + 1 /\ ctxv'["B"] = 0
    BY <1>2, <1>5, <1>13, <2>1, TwoContexts DEF AfterSample
  <2>3. SingleCall'
    BY <1>2, <1>4, <2>1, <2>2 DEF SingleCall, gpu
  <2>4. PromptsOfTwo' /\ Alternation'
    BY <1>2, <1>13 DEF PromptsOfTwo, Alternation
  <2> QED BY <1>8, <1>9, <1>11, <1>12, <2>3, <2>4 DEF EngineInv, EngineTypes
<1>14. CASE mode = "double" /\ i = 0
  <2>1. /\ HostOn /\ kv[c] = 0 /\ ctxv["B"] = 0
        /\ c = "A" => ctxv["A"] = 0
        /\ c = "B" => ctxv["A"] = 1 /\ kv["A"] = 0
    BY <1>1, <1>2, <1>14 DEF EngineInv, PromptsOfTwo
  <2>2. i' = 0 /\ UNCHANGED <<kv, skip>> /\ mode' = "double"
    BY <1>2, <1>14 DEF gpu
  <2>3. CASE c = "A"
    <3>1. pc' = "prompt" /\ turn' = "B" /\ ctxv'["A"] = 1 /\ ctxv'["B"] = 0
      BY <1>1, <1>2, <1>5, <1>14, <2>1, <2>3, TwoContexts DEF AfterSample
    <3>2. PromptsOfTwo'
      BY <2>1, <2>2, <2>3, <3>1 DEF PromptsOfTwo, HostOn
    <3>3. SingleCall' /\ Alternation'
      BY <2>2, <3>1 DEF SingleCall, Alternation
    <3> QED BY <1>8, <1>9, <1>11, <1>12, <3>2, <3>3 DEF EngineInv, EngineTypes
  <2>4. CASE c = "B"
    <3>1. pc' = "pipe" /\ turn' = "A" /\ ctxv'["A"] = 1 /\ ctxv'["B"] = 1
      BY <1>1, <1>2, <1>5, <1>14, <2>1, <2>4, TwoContexts DEF AfterSample
    <3>2. PromptsOfTwo'
      BY <2>1, <2>2, <2>4, <3>1 DEF PromptsOfTwo, SampledBoth, Held
    <3>3. SingleCall' /\ Alternation'
      BY <2>2, <3>1 DEF SingleCall, Alternation
    <3> QED BY <1>8, <1>9, <1>11, <1>12, <3>2, <3>3 DEF EngineInv, EngineTypes
  <2> QED BY <1>2, <2>3, <2>4, TwoContexts
<1>15. CASE mode = "double" /\ i > 0
  <2>1. UNCHANGED kv /\ mode' = "double" /\ batch' = batch /\ i \in 1 .. (Window - 1)
    BY <1>2, <1>4, <1>15 DEF gpu
  <2>2. CASE c = "A"
    <3>1. /\ ctxv["B"] = i /\ kv["A"] = i /\ kv["B"] = i /\ Final("B") = Logits(batch, "B", i)
      BY <1>1, <1>2, <1>15, <2>2 DEF EngineInv, Alternation, SampledBoth, Held
    <3>2. pc' = "sync" /\ turn' = "B" /\ i' = i /\ ctxv'["A"] = i + 1 /\ ctxv'["B"] = i
      BY <1>1, <1>2, <1>5, <1>15, <2>2, <3>1, TwoContexts DEF AfterSample
    <3>3. Alternation'
      <4>1. Final(turn)' = Logits(batch, "B", i)
        BY <1>7, <3>1, <3>2
      <4> QED BY <2>1, <3>1, <3>2, <4>1 DEF Alternation, SampledBoth, Held
    <3>4. SingleCall' /\ PromptsOfTwo'
      BY <2>1, <3>2 DEF SingleCall, PromptsOfTwo
    <3> QED BY <1>8, <1>9, <1>11, <1>12, <3>3, <3>4 DEF EngineInv, EngineTypes
  <2>3. CASE c = "B"
    <3>1. /\ ctxv["A"] = i + 1 /\ kv["A"] = i + 1 /\ kv["B"] = i /\ Final("A") = Logits(batch, "A", i + 1)
      BY <1>1, <1>2, <1>15, <2>3 DEF EngineInv, Alternation, SampledBoth, Held
    <3>2. turn' = "A" /\ i' = i + 1 /\ ctxv'["A"] = i + 1 /\ ctxv'["B"] = i + 1
      BY <1>1, <1>2, <1>5, <1>15, <2>3, <3>1, TwoContexts
    <3>3. CASE i + 1 = Window
      <4>1. pc' = "drain"
        BY <1>1, <1>2, <1>15, <2>3, <3>3 DEF AfterSample
      <4>2. Alternation'
        BY <2>1, <3>2, <3>3, <4>1 DEF Alternation, SampledBoth
      <4>3. SingleCall' /\ PromptsOfTwo'
        BY <2>1, <4>1 DEF SingleCall, PromptsOfTwo
      <4> QED BY <1>8, <1>9, <1>11, <1>12, <4>2, <4>3 DEF EngineInv, EngineTypes
    <3>4. CASE i + 1 /= Window
      <4>1. pc' = "sync"
        BY <1>1, <1>2, <1>15, <2>3, <3>4 DEF AfterSample
      <4>2. i' \in 1 .. (Window - 1) /\ i' - 1 = i
        BY <1>3, <2>1, <3>2, <3>4
      <4>3. Alternation'
        <5>1. Final(turn)' = Logits(batch, "A", i')
          BY <1>7, <3>1, <3>2
        <5> QED BY <2>1, <3>1, <3>2, <4>1, <4>2, <5>1 DEF Alternation, SampledBoth, Held
      <4>4. SingleCall' /\ PromptsOfTwo'
        BY <2>1, <4>1 DEF SingleCall, PromptsOfTwo
      <4> QED BY <1>8, <1>9, <1>11, <1>12, <4>3, <4>4 DEF EngineInv, EngineTypes
    <3> QED BY <3>3, <3>4
  <2> QED BY <1>2, <2>2, <2>3, TwoContexts
<1> QED BY <1>2, <1>13, <1>14, <1>15

-----------------------------------------------------------------------------
(* generate_windows_stepwise_tok.                                          *)

LEMMA DecodedNext ==
    ASSUME EngineInv, DecodeNext
    PROVE  EngineInv'
<1>0. CallTypes /\ DataTypes /\ ConfigTypes /\ pc = "decode"
  BY DEF EngineInv, EngineTypes, DecodeNext
<1>1. mode = "single"
  BY <1>0 DEF EngineInv, Alternation, CallTypes
<1>2. /\ turn = "A" /\ ctxv["B"] = 0 /\ skip["B"] = FALSE /\ (skip["A"] => dev_mode)
      /\ i < Window /\ ctxv["A"] = i + 1 /\ kv["A"] = i
  BY <1>0, <1>1 DEF EngineInv, SingleCall
<1>3. /\ queue' = [queue EXCEPT !["A"] = Append(@, [out |-> Decoded("A", i), copied |-> ~ skip["A"]])]
      /\ kv' = [kv EXCEPT !["A"] = @ + 1] /\ i' = i + 1
      /\ UNCHANGED <<config, used_stepwise, mode, batch, tensor, host, dbuf, turn, dev_mode,
                     first, ctxv, source, fed>>
      /\ IF i + 1 = Window THEN End(1) ELSE pc' = "fetch" /\ UNCHANGED <<ret, skip, double_ok>>
  BY DEF DecodeNext, Issue
<1>4. /\ i \in 0 .. (Window - 1) /\ i + 1 \in 0 .. Window /\ batch \in 0 .. MaxBatches
      /\ kv \in [Contexts -> -1 .. Window] /\ i + 1 \in -1 .. Window
      /\ skip \in [Contexts -> BOOLEAN] /\ "A" \in Contexts /\ "B" \in Contexts
  BY <1>0, <1>2, EngineAssumption, TwoContexts DEF CallTypes, DataTypes
<1>5. Decoded("A", i) = Logits(batch, "A", i + 1) /\ Logits(batch, "A", i + 1) \in LogitsSet
  BY <1>2, <1>4, LogitsTyped DEF Decoded
<1>6. (~ skip["A"]) \in BOOLEAN
  OBVIOUS
<1>7. /\ queue' \in [Contexts -> Seq(Decodes)] /\ Final("A")' = Logits(batch, "A", i + 1)
      /\ HostCurrent("A")' <=> ~ skip["A"]
  BY ZenonT(30), <1>0, <1>3, <1>4, <1>5, <1>6, Issued
<1>8. kv' \in [Contexts -> -1 .. Window] /\ kv'["A"] = i + 1
  BY <1>2, <1>3, <1>4
<1>9. ConfigTypes'
  BY <1>0, <1>3 DEF ConfigTypes, config
<1>10. PromptsOfTwo' /\ Alternation'
  BY <1>1, <1>3 DEF PromptsOfTwo, Alternation
<1>11. CASE i + 1 = Window
  <2>1. pc' = "idle" /\ ret' = 1 /\ skip' = Restored(1) /\ double_ok' = (double_ok /\ 1 # -2)
    BY <1>3, <1>11 DEF End
  <2>2. skip' = PerContext(FALSE)
    <3>1. CASE dev_mode
      <4>1. skip' = [skip EXCEPT !["A"] = FALSE]
        BY <1>1, <2>1, <3>1 DEF Restored
      <4> QED BY <1>2, <1>4, <4>1 DEF PerContext, Contexts
    <3>2. CASE ~ dev_mode
      <4>1. skip' = skip
        BY <1>1, <2>1, <3>2 DEF Restored
      <4> QED BY <1>2, <1>4, <3>2, <4>1 DEF PerContext, Contexts
    <3> QED BY <3>1, <3>2
  <2>3. CallTypes'
    BY <1>0, <1>3, <1>4, <2>1 DEF CallTypes
  <2>4. DataTypes'
    <3>1. skip' \in [Contexts -> BOOLEAN]
      BY <2>2 DEF PerContext
    <3> QED BY <1>0, <1>3, <1>7, <1>8, <3>1 DEF DataTypes
  <2>5. WholeWindows'
    <3>1. Cardinality({c \in Contexts : ctxv[c] = Window}) = 1
      BY <1>2, <1>11, Counting
    <3> QED BY <1>3, <2>1, <3>1 DEF WholeWindows
  <2>6. SingleCall' /\ HostCopyRestored' /\ SamplerSeesItsStep'
    BY <1>3, <2>1, <2>2 DEF EngineInv, SingleCall, HostCopyRestored, SamplerSeesItsStep, PerContext
  <2> QED BY <1>9, <1>10, <2>3, <2>4, <2>5, <2>6 DEF EngineInv, EngineTypes
<1>12. CASE i + 1 /= Window
  <2>0. i' < Window
    <3>1. Window \in Nat
      BY EngineAssumption
    <3> QED BY <1>3, <1>4, <1>12, <3>1
  <2>1. pc' = "fetch" /\ UNCHANGED <<ret, skip, double_ok>> /\ i' < Window
    BY <1>3, <1>12, <2>0
  <2>2. CallTypes'
    BY <1>0, <1>3, <1>4, <2>1 DEF CallTypes
  <2>3. DataTypes'
    BY <1>0, <1>3, <1>7, <1>8, <2>1 DEF DataTypes
  <2>4. SingleCall'
    BY <1>2, <1>3, <1>7, <1>8, <2>1 DEF SingleCall
  <2> QED BY <1>3, <1>9, <1>10, <2>1, <2>2, <2>3, <2>4, InsideCall DEF EngineInv, EngineTypes
<1> QED BY <1>11, <1>12

LEMMA Fetched ==
    ASSUME EngineInv, FetchDevice \/ FetchHost
    PROVE  EngineInv'
<1>0. CallTypes /\ DataTypes /\ ConfigTypes /\ pc = "fetch" /\ pc' = "sample"
  BY DEF EngineInv, EngineTypes, FetchDevice, FetchHost
<1>1. mode = "single"
  BY <1>0 DEF EngineInv, Alternation, CallTypes
<1>2. /\ turn = "A" /\ ctxv["B"] = 0 /\ skip["B"] = FALSE /\ (skip["A"] => dev_mode)
      /\ i < Window /\ ctxv["A"] = i /\ kv["A"] = i /\ Final("A") = Logits(batch, "A", i)
      /\ ~ dev_mode => HostCurrent("A")
  BY <1>0, <1>1 DEF EngineInv, SingleCall
<1>3. UNCHANGED <<config, double_ok, used_stepwise, mode, batch, gpu, dbuf, turn, i, first, ctxv, fed, ret>>
  BY DEF FetchDevice, FetchHost
<1>4. Final("A")' = Final("A") /\ (HostCurrent("A")' <=> HostCurrent("A"))
  BY <1>3 DEF Final, HostCurrent, LastOf, gpu
<1>5. skip \in [Contexts -> BOOLEAN] /\ "A" \in Contexts /\ "B" \in Contexts /\ dev_mode \in BOOLEAN
      /\ compare_device \in BOOLEAN
  <2>1. compare_device = <<want_double, want_dev, compare_device, refresh>>[3]
    OBVIOUS
  <2>2. <<want_double, want_dev, compare_device, refresh>>[3] \in BOOLEAN
    BY <1>0 DEF ConfigTypes
  <2> QED BY <1>0, <2>1, <2>2, TwoContexts DEF CallTypes, DataTypes
<1>6. /\ dev_mode' \in BOOLEAN /\ skip' \in [Contexts -> BOOLEAN]
      /\ source' \in [place : {"host", "tensor", "dbuf"}, ctx : Contexts]
      /\ skip'["B"] = FALSE /\ (skip'["A"] => dev_mode')
      /\ source'.ctx = "A" /\ source'.place \in {"host", "tensor"}
      /\ source'.place = "host" => HostCurrent("A")
  <2>1. CASE FetchDevice
    <3>1. /\ dev_mode' = TRUE /\ source' = [place |-> "tensor", ctx |-> "A"]
          /\ skip' = IF dev_mode THEN skip ELSE [skip EXCEPT !["A"] = ~ compare_device]
      BY <2>1 DEF FetchDevice
    <3>2. skip' \in [Contexts -> BOOLEAN] /\ skip'["B"] = FALSE
      BY <1>2, <1>5, <3>1 DEF Contexts
    <3> QED BY <1>5, <3>1, <3>2
  <2>2. CASE FetchHost
    <3>1. dev_mode = FALSE /\ UNCHANGED <<dev_mode, skip>> /\ source' = [place |-> "host", ctx |-> "A"]
      BY <1>5, <2>2 DEF FetchHost, HostIsCurrent
    <3> QED BY <1>2, <1>5, <3>1
  <2> QED BY <2>1, <2>2
<1>7. ConfigTypes'
  BY <1>0, <1>3 DEF ConfigTypes, config
<1>8. CallTypes'
  BY <1>0, <1>3, <1>6 DEF CallTypes
<1>9. DataTypes'
  BY <1>0, <1>3, <1>6 DEF DataTypes, gpu
<1>10. SingleCall'
  BY <1>0, <1>2, <1>3, <1>4, <1>6 DEF SingleCall, gpu
<1>11. PromptsOfTwo' /\ Alternation'
  BY <1>1, <1>3 DEF PromptsOfTwo, Alternation
<1> QED BY <1>0, <1>3, <1>7, <1>8, <1>9, <1>10, <1>11, InsideCall DEF EngineInv, EngineTypes

-----------------------------------------------------------------------------
(* generate_windows_double_tok.                                            *)

LEMMA PipeFilled ==
    ASSUME EngineInv, FirstDecode
    PROVE  EngineInv'
<1>0. CallTypes /\ DataTypes /\ ConfigTypes /\ pc = "pipe" /\ pc' = "sync"
  BY DEF EngineInv, EngineTypes, FirstDecode
<1>1. mode = "double"
  BY <1>0 DEF EngineInv, SingleCall, CallTypes
<1>2. turn = "A" /\ ctxv["A"] = 1 /\ ctxv["B"] = 1 /\ kv["A"] = 0 /\ kv["B"] = 0
  BY <1>0, <1>1 DEF EngineInv, PromptsOfTwo, SampledBoth, Held
<1>3. /\ queue' = [queue EXCEPT !["A"] = Append(@, [out |-> Decoded("A", 0), copied |-> FALSE])]
      /\ kv' = [kv EXCEPT !["A"] = @ + 1] /\ i' = 1 /\ skip' = PerContext(TRUE)
      /\ UNCHANGED <<config, double_ok, used_stepwise, mode, batch, tensor, host, dbuf, turn,
                     dev_mode, first, ctxv, source, fed, ret>>
  BY DEF FirstDecode
<1>4. /\ 1 \in 0 .. Window /\ 1 \in 1 .. (Window - 1) /\ batch \in 0 .. MaxBatches
      /\ kv \in [Contexts -> -1 .. Window] /\ 1 \in -1 .. Window
      /\ "A" \in Contexts /\ "B" \in Contexts
  BY <1>0, EngineAssumption, TwoContexts DEF CallTypes, DataTypes
<1>5. Decoded("A", 0) = Logits(batch, "A", 1) /\ Logits(batch, "A", 1) \in LogitsSet
  BY <1>2, <1>4, LogitsTyped DEF Decoded
<1>6. queue' \in [Contexts -> Seq(Decodes)] /\ Final("A")' = Logits(batch, "A", 1)
  BY <1>0, <1>3, <1>4, <1>5, Issued
<1>7. kv' \in [Contexts -> -1 .. Window] /\ kv'["A"] = 1 /\ kv'["B"] = 0
  BY <1>2, <1>3, <1>4
<1>8. ConfigTypes'
  BY <1>0, <1>3 DEF ConfigTypes, config
<1>9. CallTypes'
  BY <1>0, <1>3, <1>4 DEF CallTypes
<1>10. DataTypes'
  <2>1. skip' \in [Contexts -> BOOLEAN]
    BY <1>3 DEF PerContext
  <2> QED BY <1>0, <1>3, <1>6, <1>7, <2>1 DEF DataTypes
<1>11. Alternation'
  <2>1. Final(turn)' = Logits(batch, "A", 1)
    BY <1>2, <1>3, <1>6
  <2> QED BY <1>0, <1>2, <1>3, <1>4, <1>7, <2>1 DEF Alternation, SampledBoth, Held
<1>12. SingleCall' /\ PromptsOfTwo'
  BY <1>0, <1>1, <1>3 DEF SingleCall, PromptsOfTwo
<1> QED BY <1>0, <1>3, <1>8, <1>9, <1>10, <1>11, <1>12, InsideCall DEF EngineInv, EngineTypes

LEMMA Copied ==
    ASSUME EngineInv, SyncAndCopy
    PROVE  EngineInv'
<1>0. CallTypes /\ DataTypes /\ ConfigTypes /\ pc = "sync" /\ pc' = "fill"
  BY DEF EngineInv, EngineTypes, SyncAndCopy
<1>1. mode = "double"
  BY <1>0 DEF EngineInv, SingleCall, CallTypes
<1>2. PICK c : c = turn
  OBVIOUS
<1>3. /\ i \in 1 .. (Window - 1) /\ Final(c) = Logits(batch, c, i) /\ c \in Contexts
      /\ c = "A" => SampledBoth(i, i) /\ Held(i, i - 1)
      /\ c = "B" => SampledBoth(i + 1, i) /\ Held(i, i)
  BY <1>0, <1>1, <1>2 DEF EngineInv, Alternation, CallTypes
<1>4. /\ Idle(c) /\ dbuf' = [dbuf EXCEPT ![c] = tensor[c]] /\ source' = [place |-> "dbuf", ctx |-> c]
      /\ first' = FALSE /\ turn' = c
      /\ UNCHANGED <<config, double_ok, used_stepwise, mode, batch, skip, gpu, i, dev_mode, ctxv, fed, ret>>
  BY <1>2 DEF SyncAndCopy, Synchronized
<1>5. dbuf \in [Contexts -> LogitsSet] /\ tensor[c] \in LogitsSet /\ tensor[c] = Logits(batch, c, i)
  BY <1>0, <1>3, <1>4, Waited DEF DataTypes
<1>6. dbuf' \in [Contexts -> LogitsSet] /\ dbuf'[c] = Logits(batch, c, i)
  BY <1>3, <1>4, <1>5
<1>7. source' \in [place : {"host", "tensor", "dbuf"}, ctx : Contexts]
      /\ source'.place = "dbuf" /\ source'.ctx = c
  BY <1>3, <1>4
<1>8. ConfigTypes'
  BY <1>0, <1>4 DEF ConfigTypes, config
<1>9. CallTypes'
  BY <1>0, <1>3, <1>4, <1>7 DEF CallTypes
<1>10. DataTypes'
  BY <1>0, <1>4, <1>6 DEF DataTypes, gpu
<1>11. Final(c)' = Final(c)
  BY <1>4 DEF Final, LastOf, gpu
<1>12. Alternation'
  <2>1. Final(turn)' = Logits(batch, c, i)
    BY <1>3, <1>4, <1>11
  <2>2. UNCHANGED <<kv, ctxv>>
    BY <1>4 DEF gpu
  <2> QED BY <1>0, <1>3, <1>4, <1>6, <1>7, <2>1, <2>2 DEF Alternation, SampledBoth, Held
<1>13. SingleCall' /\ PromptsOfTwo'
  BY <1>0, <1>1, <1>4 DEF SingleCall, PromptsOfTwo
<1> QED BY <1>0, <1>4, <1>8, <1>9, <1>10, <1>12, <1>13, InsideCall DEF EngineInv, EngineTypes

LEMMA Filled ==
    ASSUME EngineInv, FillPipe
    PROVE  EngineInv'
<1>0. CallTypes /\ DataTypes /\ ConfigTypes /\ pc = "fill" /\ pc' = "sample"
  BY DEF EngineInv, EngineTypes, FillPipe
<1>1. mode = "double"
  BY <1>0 DEF EngineInv, SingleCall, CallTypes
<1>2. PICK c, d, n : c = turn /\ d = Other(turn) /\ n = FillPos
  OBVIOUS
<1>3. /\ i \in 1 .. (Window - 1) /\ c \in Contexts
      /\ c = "A" => SampledBoth(i, i) /\ Held(i, i - 1)
      /\ c = "B" => SampledBoth(i + 1, i) /\ Held(i, i)
      /\ dbuf[c] = Logits(batch, c, i) /\ source.place = "dbuf" /\ source.ctx = c
  BY <1>0, <1>1, <1>2 DEF EngineInv, Alternation, CallTypes
<1>4. /\ queue' = [queue EXCEPT ![d] = Append(@, [out |-> Decoded(d, n), copied |-> ~ skip[d]])]
      /\ kv' = [kv EXCEPT ![d] = @ + 1]
      /\ UNCHANGED <<config, double_ok, used_stepwise, mode, batch, skip, tensor, host, dbuf,
                     turn, i, dev_mode, first, ctxv, source, fed, ret>>
  BY <1>2 DEF FillPipe, Issue, local
<1>5. Window \in Nat /\ batch \in 0 .. MaxBatches /\ kv \in [Contexts -> -1 .. Window]
  BY <1>0, EngineAssumption DEF CallTypes, DataTypes
<1>6. /\ d \in Contexts /\ n \in 0 .. (Window - 1) /\ kv[d] = n /\ ctxv[d] = n + 1
      /\ c = "A" => d = "B" /\ n = i - 1
      /\ c = "B" => d = "A" /\ n = i
  BY <1>2, <1>3, <1>5, TwoContexts DEF FillPos, SampledBoth, Held
<1>7. n + 1 \in 0 .. Window /\ n + 1 \in -1 .. Window /\ (~ skip[d]) \in BOOLEAN
  BY <1>5, <1>6
<1>8. Decoded(d, n) = Logits(batch, d, n + 1) /\ Logits(batch, d, n + 1) \in LogitsSet
  BY <1>5, <1>6, <1>7, LogitsTyped DEF Decoded
<1>9. queue' \in [Contexts -> Seq(Decodes)] /\ Final(d)' = Logits(batch, d, n + 1)
  BY <1>0, <1>4, <1>6, <1>7, <1>8, Issued
<1>10. /\ kv' \in [Contexts -> -1 .. Window] /\ kv'[d] = n + 1
       /\ \A e \in Contexts \ {d} : kv'[e] = kv[e]
  BY <1>4, <1>5, <1>6, <1>7
<1>11. ConfigTypes'
  BY <1>0, <1>4 DEF ConfigTypes, config
<1>12. CallTypes'
  BY <1>0, <1>4 DEF CallTypes
<1>13. DataTypes'
  BY <1>0, <1>4, <1>9, <1>10 DEF DataTypes
<1>14. Alternation'
  <2>0. turn' = c /\ i' = i
    BY <1>2, <1>4
  <2>1. CASE c = "A"
    <3>1. /\ d = "B" /\ n + 1 = i /\ kv'["A"] = i /\ kv'["B"] = i /\ ctxv'["A"] = i /\ ctxv'["B"] = i
      BY <1>3, <1>4, <1>6, <1>10, <2>1, TwoContexts DEF SampledBoth, Held
    <3> QED BY <1>0, <1>3, <1>4, <1>9, <2>0, <2>1, <3>1 DEF Alternation, SampledBoth, Held
  <2>2. CASE c = "B"
    <3>1. /\ d = "A" /\ n + 1 = i + 1 /\ kv'["A"] = i + 1 /\ kv'["B"] = i
          /\ ctxv'["A"] = i + 1 /\ ctxv'["B"] = i
      BY <1>3, <1>4, <1>6, <1>10, <2>2, TwoContexts DEF SampledBoth, Held
    <3> QED BY <1>0, <1>3, <1>4, <1>9, <2>0, <2>2, <3>1 DEF Alternation, SampledBoth, Held
  <2> QED BY <1>3, <2>1, <2>2, TwoContexts
<1>15. SingleCall' /\ PromptsOfTwo'
  <2>1. i' /= 0
    BY <1>3, <1>4
  <2> QED BY <1>0, <1>1, <1>4, <2>1 DEF SingleCall, PromptsOfTwo
<1> QED BY <1>0, <1>4, <1>11, <1>12, <1>13, <1>14, <1>15, InsideCall DEF EngineInv, EngineTypes

LEMMA Drained ==
    ASSUME EngineInv, Drain
    PROVE  EngineInv'
<1>0. CallTypes /\ DataTypes /\ ConfigTypes /\ pc = "drain"
  BY DEF EngineInv, EngineTypes, Drain
<1>1. mode = "double"
  BY <1>0 DEF EngineInv, SingleCall, CallTypes
<1>2. /\ pc' = "idle" /\ ret' = 2 /\ skip' = PerContext(FALSE) /\ double_ok' = (double_ok /\ 2 # -2)
      /\ UNCHANGED <<config, used_stepwise, mode, batch, gpu, dbuf, local, fed>>
  BY <1>1 DEF Drain, Leave, End, Restored
<1>3. ctxv["A"] = Window /\ ctxv["B"] = Window /\ Window /= 0
  BY <1>0, <1>1, EngineAssumption DEF EngineInv, Alternation, SampledBoth
<1>4. Cardinality({c \in Contexts : ctxv[c] = Window}) = 2
  BY <1>3, Counting
<1>5. WholeWindows'
  BY <1>2, <1>4 DEF WholeWindows, local
<1>6. HostCopyRestored' /\ SamplerSeesItsStep'
  BY <1>2 DEF EngineInv, HostCopyRestored, SamplerSeesItsStep, PerContext
<1>7. ConfigTypes'
  BY <1>0, <1>2 DEF ConfigTypes, config
<1>8. CallTypes'
  BY <1>0, <1>2 DEF CallTypes, local
<1>9. DataTypes'
  BY <1>0, <1>2 DEF DataTypes, local, gpu, PerContext
<1>10. SingleCall' /\ PromptsOfTwo' /\ Alternation'
  BY <1>2 DEF SingleCall, PromptsOfTwo, Alternation
<1> QED BY <1>5, <1>6, <1>7, <1>8, <1>9, <1>10 DEF EngineInv, EngineTypes

(* The GPU runs beside the call, whatever point that has reached.          *)
LEMMA GpuRuns ==
    ASSUME EngineInv, NEW c \in Contexts, GpuFinishes(c)
    PROVE  EngineInv'
<1>0. CallTypes /\ DataTypes /\ ConfigTypes
  BY DEF EngineInv, EngineTypes
<1>1. UNCHANGED <<config, double_ok, used_stepwise, pc, mode, batch, skip, kv, dbuf, local, fed, ret>>
  BY DEF GpuFinishes
<1>2. /\ queue' \in [Contexts -> Seq(Decodes)]
      /\ tensor' \in [Contexts -> LogitsSet] /\ host' \in [Contexts -> LogitsSet]
      /\ \A d \in Contexts : Final(d)' = Final(d) /\ (HostCurrent(d) => HostCurrent(d)')
  BY <1>0, Finished
<1>3. PICK t \in Contexts : t = turn
  BY <1>0 DEF CallTypes
<1>4. /\ turn' = t /\ Final(turn)' = Final(turn) /\ (HostCurrent(turn) => HostCurrent(turn)')
      /\ Final("A")' = Final("A") /\ Final("B")' = Final("B") /\ (HostCurrent("A") => HostCurrent("A")')
  <2>1. turn' = turn
    BY <1>1 DEF local
  <2> QED BY <1>2, <1>3, <2>1, TwoContexts
<1>5. ConfigTypes'
  BY <1>0, <1>1 DEF ConfigTypes, config
<1>6. CallTypes'
  BY <1>0, <1>1 DEF CallTypes, local
<1>7. DataTypes'
  BY <1>0, <1>1, <1>2 DEF DataTypes, local
<1>8. SingleCall'
  BY <1>1, <1>4 DEF EngineInv, SingleCall, HostOn, local
<1>9. PromptsOfTwo'
  BY <1>1, <1>4 DEF EngineInv, PromptsOfTwo, HostOn, SampledBoth, Held, local
<1>10. Alternation'
  BY <1>1, <1>4 DEF EngineInv, Alternation, SampledBoth, Held, local
<1>11. HostCopyRestored' /\ WholeWindows' /\ SamplerSeesItsStep'
  BY <1>1 DEF EngineInv, HostCopyRestored, WholeWindows, SamplerSeesItsStep, local
<1> QED BY <1>5, <1>6, <1>7, <1>8, <1>9, <1>10, <1>11 DEF EngineInv, EngineTypes

-----------------------------------------------------------------------------
LEMMA EngineInvInit == EngineInit => EngineInv
<1> SUFFICES ASSUME EngineInit PROVE EngineInv
  OBVIOUS
<1>1. /\ 0 \in 0 .. Window /\ 0 \in 0 .. MaxBatches /\ -1 \in -1 .. Window /\ 0 \in -2 .. 2
      /\ "A" \in Contexts /\ <<>> \in Seq(Decodes)
  BY EngineAssumption, TwoContexts
<1>2. ConfigTypes
  BY DEF EngineInit, ConfigTypes
<1>3. CallTypes
  <2>1. source \in [place : {"host", "tensor", "dbuf"}, ctx : Contexts]
    BY <1>1 DEF EngineInit
  <2> QED BY <1>1, <2>1 DEF EngineInit, CallTypes
<1>4. DataTypes
  <2>1. /\ skip \in [Contexts -> BOOLEAN] /\ kv \in [Contexts -> -1 .. Window]
        /\ ctxv \in [Contexts -> 0 .. Window]
    BY <1>1 DEF EngineInit, PerContext
  <2>2. queue \in [Contexts -> Seq(Decodes)]
    BY <1>1 DEF EngineInit, PerContext
  <2>3. tensor \in [Contexts -> LogitsSet] /\ host \in [Contexts -> LogitsSet] /\ dbuf \in [Contexts -> LogitsSet]
    BY NoLogitsTyped DEF EngineInit
  <2>4. fed \in [want : LogitsSet, got : LogitsSet]
    BY NoLogitsTyped DEF EngineInit
  <2> QED BY <2>1, <2>2, <2>3, <2>4 DEF DataTypes
<1>5. SingleCall /\ PromptsOfTwo /\ Alternation
  BY DEF EngineInit, SingleCall, PromptsOfTwo, Alternation
<1>6. HostCopyRestored /\ WholeWindows /\ SamplerSeesItsStep
  <2>1. ~ (ret > 0)
    BY DEF EngineInit
  <2>2. fed.got = fed.want
    BY DEF EngineInit
  <2> QED BY <2>1, <2>2 DEF EngineInit, HostCopyRestored, WholeWindows, SamplerSeesItsStep
<1> QED BY <1>2, <1>3, <1>4, <1>5, <1>6 DEF EngineInv, EngineTypes

LEMMA EngineStutter == ASSUME EngineInv, UNCHANGED engineVars PROVE EngineInv'
<1>0. /\ UNCHANGED <<config, double_ok, used_stepwise, pc, mode, batch, skip, gpu, dbuf, local, fed, ret>>
      /\ UNCHANGED <<kv, queue, tensor, host, turn, i, dev_mode, first, ctxv, source>>
  BY DEF engineVars, gpu, local
<1>1. ConfigTypes'
  BY <1>0 DEF EngineInv, EngineTypes, ConfigTypes, config
<1>2. CallTypes' /\ DataTypes'
  BY <1>0 DEF EngineInv, EngineTypes, CallTypes, DataTypes
<1>3. SingleCall'
  BY <1>0 DEF EngineInv, SingleCall, HostOn, Final, HostCurrent, LastOf
<1>4. PromptsOfTwo'
  BY <1>0 DEF EngineInv, PromptsOfTwo, HostOn, SampledBoth, Held, Final, HostCurrent, LastOf
<1>5. Alternation'
  BY <1>0 DEF EngineInv, Alternation, SampledBoth, Held, Final, LastOf
<1>6. HostCopyRestored' /\ WholeWindows' /\ SamplerSeesItsStep'
  BY <1>0 DEF EngineInv, HostCopyRestored, WholeWindows, SamplerSeesItsStep
<1> QED BY <1>1, <1>2, <1>3, <1>4, <1>5, <1>6 DEF EngineInv, EngineTypes

LEMMA EngineInvNext == EngineInv /\ [EngineNext]_engineVars => EngineInv'
<1> SUFFICES ASSUME EngineInv, [EngineNext]_engineVars PROVE EngineInv'
  OBVIOUS
<1>1. CASE Refused \/ RefreshFails \/ NoBuffers
  BY <1>1, NotBegun
<1>2. CASE StepwiseStart
  BY <1>2, BegunStepwise
<1>3. CASE DoubleStart
  BY <1>3, BegunDouble
<1>4. CASE PromptFails \/ SampleFails \/ DecodeFails \/ FetchFails \/ SyncFails \/ FillFails
  <2>1. pc /= "idle" /\ \E r \in {-1, -2} : Leave(r)
    BY <1>4 DEF PromptFails, SampleFails, DecodeFails, FetchFails, SyncFails, FillFails
  <2> QED BY <2>1, Left
<1>5. CASE PromptPass
  BY <1>5, Prompted
<1>6. CASE SampleTokens
  BY <1>6, SampledOne
<1>7. CASE DecodeNext
  BY <1>7, DecodedNext
<1>8. CASE FetchDevice \/ FetchHost
  BY <1>8, Fetched
<1>9. CASE FirstDecode
  BY <1>9, PipeFilled
<1>10. CASE SyncAndCopy
  BY <1>10, Copied
<1>11. CASE FillPipe
  BY <1>11, Filled
<1>12. CASE Drain
  BY <1>12, Drained
<1>13. CASE \E c \in Contexts : GpuFinishes(c)
  BY <1>13, GpuRuns
<1>14. CASE UNCHANGED engineVars
  BY <1>14, EngineStutter
<1> QED BY <1>1, <1>2, <1>3, <1>4, <1>5, <1>6, <1>7, <1>8, <1>9, <1>10, <1>11, <1>12, <1>13, <1>14
        DEF EngineNext, EngineStep

(* generate_windows_stepwise_tok and generate_windows_double_tok: for      *)
(* every window length, whatever failed in the calls before and however    *)
(* late the GPU is, the sampler is given the logits of the batch, the      *)
(* context and the step whose token it chooses.                            *)
THEOREM StepsSeen == EngineSpec => []SamplerSeesItsStep
<1>1. EngineInv => SamplerSeesItsStep
  BY DEF EngineInv
<1> QED BY <1>1, EngineInvInit, EngineInvNext, PTL DEF EngineSpec

(* Every way out of a call leaves the host copy on for the next prompt, and *)
(* a call that reports windows has sampled them to the end.                *)
THEOREM CallsWhole == EngineSpec => []CallsAreWhole
<1>1. EngineInv => CallsAreWhole
  BY DEF EngineInv, EngineTypes, ConfigTypes, CallTypes, DataTypes, Decodes, EngineTypeOK, CallsAreWhole
<1> QED BY <1>1, EngineInvInit, EngineInvNext, PTL DEF EngineSpec

(***************************************************************************)
(* The inductive invariant.  A group is in one of three positions with     *)
(* respect to the current generation.                                      *)
(***************************************************************************)
Quiet(g) == wpc[g] = "wait" /\ seen[g] = gen /\ done[g] = gen
Pending(g) == wpc[g] = "wait" /\ seen[g] + 1 = gen /\ done[g] + 1 = gen
Busy(g) == Working(g) /\ seen[g] = gen /\ done[g] + 1 = gen /\ held[g].call = step

\* Where the groups are, by where the mining thread is.
Positions ==
    /\ mpc \in {"idle", "prepare", "publish"} => ~stop /\ \A g \in Groups : Quiet(g)
    /\ mpc = "await" => /\ ~stop
                        /\ \A g \in Groups : Quiet(g) \/ Pending(g) \/ Busy(g)
    /\ mpc \in {"join", "gone"} =>
            stop /\ \A g \in Groups : wpc[g] \in {"wait", "exit"}

\* The inputs the pool points at are those of this call, or of an earlier one.
Inputs ==
    /\ input.call <= step
    /\ mpc \in {"prepare", "publish"} => input.call < step
    /\ mpc = "await" => input.call = step

\* Which tokens have been written.
Sampled(g) == \A s \in RangeOf(g) : out[s] = step
Unsampled(g) == \A s \in RangeOf(g) : out[s] < step

Tokens ==
    /\ \A s \in Streams : out[s] <= step
    /\ mpc \in {"prepare", "publish"} => \A s \in Streams : out[s] < step
    /\ mpc = "await" => \A g \in Groups :
          /\ Pending(g) \/ wpc[g] \in {"sort", "sample"} => Unsampled(g)
          /\ wpc[g] = "report" => (wok[g] <=> Sampled(g))
          /\ step_ok /\ Quiet(g) => Sampled(g)
    /\ mpc = "await" /\ ~step_ok => \E g \in Groups : Quiet(g) /\ ~Sampled(g)

IInv == TypeOK /\ Positions /\ Inputs /\ Tokens /\ ResultIsExact

(***************************************************************************)
(* Facts about the split.                                                  *)
(***************************************************************************)

\* Streams are natural numbers and each stream belongs to a group; a group's
\* range is not empty.
LEMMA SplitFacts ==
    /\ \A g \in Groups : RangeOf(g) \subseteq Streams
    /\ \A s \in Streams : \E g \in Groups : s \in RangeOf(g)
    /\ \A s \in Streams : s \in Nat
    /\ \A g \in Groups : Lo[g] \in RangeOf(g)
    /\ \A g, h \in Groups : \A s \in RangeOf(g) : s \in RangeOf(h) => g = h
<1>1. \A g \in Groups : RangeOf(g) \subseteq Streams
  BY DEF Streams
<1>2. \A s \in Streams : \E g \in Groups : s \in RangeOf(g)
  BY DEF Streams
<1>3. \A s \in Streams : s \in Nat
  BY <1>2, PoolAssumption DEF RangeOf
<1>4. ASSUME NEW g \in Groups PROVE Lo[g] \in RangeOf(g)
  <2>1. Lo[g] \in Nat /\ Hi[g] \in Nat /\ Lo[g] < Hi[g]
    BY PoolAssumption
  <2> QED BY <2>1 DEF RangeOf
<1>5. \A g, h \in Groups : \A s \in RangeOf(g) : s \in RangeOf(h) => g = h
  BY PoolAssumption
<1> QED BY <1>1, <1>2, <1>3, <1>4, <1>5

(***************************************************************************)
(* Type correctness.                                                       *)
(***************************************************************************)

\* Every variable of the hand-off keeps its type.
THEOREM TypeCorrect == Spec => []TypeOK
<1>1. Init => TypeOK
  <2> SUFFICES ASSUME Init PROVE TypeOK
    OBVIOUS
  <2> QED BY DEF Init, TypeOK, Input, NoInput
<1>2. TypeOK /\ [Next]_vars => TypeOK'
  <2> SUFFICES ASSUME TypeOK, [Next]_vars PROVE TypeOK'
    OBVIOUS
  <2> USE DEF TypeOK, mine, shared, workers
  <2>1. ASSUME NEW d \in BOOLEAN, SampleStep(d) PROVE TypeOK'
    BY <2>1 DEF SampleStep
  <2>2. CASE PrepareFails
    BY <2>2 DEF PrepareFails
  <2>3. CASE Prepare
    <3>1. central_sorted' \in BOOLEAN
      BY <2>3 DEF Prepare
    <3> QED BY <2>3, <3>1 DEF Prepare
  <2>4. CASE Publish
    BY <2>4 DEF Publish, FreshVerdict, Input
  <2>5. CASE Return
    BY <2>5 DEF Return, Verdict
  <2>6. CASE Destroy
    BY <2>6 DEF Destroy, StopSet
  <2>7. CASE Join
    BY <2>7 DEF Join
  <2>8. ASSUME NEW g \in Groups, Wake(g) PROVE TypeOK'
    BY <2>8 DEF Wake
  <2>9. ASSUME NEW g \in Groups, NEW b \in BOOLEAN, Sort(g, b) PROVE TypeOK'
    BY <2>9 DEF Sort, AfterSort
  <2>10. ASSUME NEW g \in Groups, NEW f \in Lo[g] .. Hi[g], Sample(g, f) PROVE TypeOK'
    <3>1. held[g].call \in Nat
      BY DEF Input
    <3>2. out' \in [Streams -> Nat]
      BY <2>10, <3>1 DEF Sample, Token
    <3>3. wok' \in [Groups -> BOOLEAN]
      BY <2>10 DEF Sample, Token
    <3> QED BY <2>10, <3>2, <3>3 DEF Sample, Token
  <2>11. ASSUME NEW g \in Groups, Report(g) PROVE TypeOK'
    <3>1. step_ok' \in BOOLEAN
      BY <2>11 DEF Report
    <3> QED BY <2>11, <3>1 DEF Report
  <2>12. CASE UNCHANGED vars
    BY <2>12 DEF vars
  <2> QED
    BY <2>1, <2>2, <2>3, <2>4, <2>5, <2>6, <2>7, <2>8, <2>9, <2>10, <2>11, <2>12
    DEF Next, Inside, Worker
<1> QED BY <1>1, <1>2, PTL DEF Spec

(***************************************************************************)
(* The invariant is inductive.                                             *)
(***************************************************************************)

\* The invariant holds before the first step.
LEMMA InitIInv == Init => IInv
<1> SUFFICES ASSUME Init PROVE IInv
  OBVIOUS
<1>1. TypeOK
  BY DEF Init, TypeOK, Input, NoInput
<1>2. Positions
  BY DEF Init, Positions, Quiet
<1>3. Inputs /\ Tokens
  BY DEF Init, Inputs, Tokens, NoInput
<1>4. ResultIsExact
  BY DEF Init, ResultIsExact
<1> QED BY <1>1, <1>2, <1>3, <1>4 DEF IInv

\* An element of an interval other than its end lies in the shorter interval.
LEMMA ShorterInterval ==
    ASSUME NEW a \in Nat, NEW b \in Nat, NEW x \in a .. b, x # b
    PROVE  x \in a .. b - 1
OBVIOUS

\* The mining thread's own steps preserve the invariant.
LEMMA MiningThreadStep ==
    ASSUME IInv, TypeOK', (\E d \in BOOLEAN : SampleStep(d)) \/ Inside \/ Destroy
    PROVE  IInv'
<1> USE DEF IInv, TypeOK, mine, shared, workers, Input
<1>1. ASSUME NEW d \in BOOLEAN, SampleStep(d) PROVE IInv'
  <2>1. Positions'
    BY <1>1 DEF SampleStep, Positions, Quiet
  <2>2. Inputs'
    BY <1>1 DEF SampleStep, Inputs
  <2>3. Tokens'
    BY <1>1, SplitFacts DEF SampleStep, Tokens
  <2>4. ResultIsExact'
    BY <1>1 DEF SampleStep, ResultIsExact
  <2> QED BY <2>1, <2>2, <2>3, <2>4
<1>2. CASE PrepareFails
  <2>1. Positions' /\ Inputs' /\ Tokens'
    BY <1>2 DEF PrepareFails, Positions, Quiet, Inputs, Tokens
  <2>2. ResultIsExact'
    BY <1>2 DEF PrepareFails, Inputs, ResultIsExact
  <2> QED BY <2>1, <2>2
<1>3. CASE Prepare
  BY <1>3 DEF Prepare, Positions, Quiet, Inputs, Tokens, ResultIsExact
<1>4. CASE Publish
  <2>1. Positions'
    BY <1>4 DEF Publish, FreshVerdict, Positions, Quiet, Pending
  <2>2. Inputs' /\ ResultIsExact'
    BY <1>4 DEF Publish, FreshVerdict, Inputs, ResultIsExact
  <2>3. \A g \in Groups : Pending(g)' /\ Unsampled(g)'
    BY <1>4, SplitFacts DEF Publish, FreshVerdict, Positions, Quiet, Pending, Tokens, Unsampled
  <2>4. Tokens'
    BY <1>4, <2>3 DEF Publish, FreshVerdict, Tokens, Pending, Quiet
  <2> QED BY <2>1, <2>2, <2>4
<1>5. CASE Return
  <2>1. \A g \in Groups : Quiet(g)
    BY <1>5 DEF Return, Verdict, AllDone, Positions, Quiet, Pending, Busy
  <2>2. Positions' /\ Inputs' /\ Tokens'
    BY <1>5, <2>1 DEF Return, Verdict, Positions, Quiet, Inputs, Tokens
  <2>3. step_ok => \A s \in Streams : out[s] = step
    BY <1>5, <2>1, SplitFacts DEF Return, Verdict, Tokens, Sampled
  <2>4. ~step_ok => \E s \in Streams : out[s] # step
    BY <1>5, SplitFacts DEF Return, Verdict, Tokens, Sampled
  <2>5. ResultIsExact'
    BY <1>5, <2>3, <2>4 DEF Return, Verdict, ResultIsExact
  <2> QED BY <2>2, <2>5
<1>6. CASE Destroy
  BY <1>6 DEF Destroy, StopSet, Positions, Quiet, Inputs, Tokens, ResultIsExact
<1>7. CASE Join
  BY <1>7 DEF Join, Positions, Inputs, Tokens, ResultIsExact
<1> QED BY <1>1, <1>2, <1>3, <1>4, <1>5, <1>6, <1>7 DEF Inside

\* A worker can only be past its wait while the mining thread awaits it.
LEMMA WorkingAwaits ==
    ASSUME IInv, NEW g \in Groups, Working(g)
    PROVE  mpc = "await" /\ Busy(g)
BY DEF IInv, TypeOK, Positions, Quiet, Pending, Busy, Working

\* A worker's step preserves the invariant.
LEMMA WorkerStep ==
    ASSUME IInv, TypeOK', NEW g \in Groups, Worker(g)
    PROVE  IInv'
<1> USE DEF IInv, TypeOK, mine, shared, workers, Input
<1>1. CASE Wake(g)
  <2>1. CASE stop
    <3>1. mpc \in {"join", "gone"}
      BY <2>1 DEF Positions
    <3> QED
      BY <1>1, <2>1, <3>1 DEF Wake, Positions, Inputs, Tokens, ResultIsExact
  <2>2. CASE ~stop
    <3>1. mpc = "await" /\ Pending(g)
      BY <1>1, <2>2 DEF Wake, Positions, Quiet, Pending, Busy, Working
    <3>2. Busy(g)' /\ wpc'[g] = "sort"
      BY <1>1, <2>2, <3>1 DEF Wake, Busy, Working, Pending, Inputs
    <3>3. \A h \in Groups \ {g} : /\ Quiet(h)' <=> Quiet(h)
                                  /\ Pending(h)' <=> Pending(h)
                                  /\ Busy(h)' <=> Busy(h)
      BY <1>1, <2>2 DEF Wake, Quiet, Pending, Busy, Working
    <3>4. Positions'
      BY <1>1, <2>2, <3>1, <3>2, <3>3 DEF Wake, Positions
    <3>5. Tokens'
      BY <1>1, <2>2, <3>1, <3>2, <3>3
      DEF Wake, Tokens, Pending, Quiet, Busy, Working, Sampled, Unsampled
    <3> QED BY <1>1, <3>1, <3>4, <3>5 DEF Wake, Inputs, ResultIsExact
  <2> QED BY <2>1, <2>2
<1>2. ASSUME NEW b \in BOOLEAN, Sort(g, b) PROVE IInv'
  <2>1. mpc = "await" /\ Busy(g)
    BY <1>2, WorkingAwaits DEF Sort, AfterSort, Working
  <2>2. Positions'
    BY <1>2, <2>1 DEF Sort, AfterSort, Positions, Quiet, Pending, Busy, Working
  <2>3. Unsampled(g) /\ ~Sampled(g)
    BY SMTT(30), <1>2, <2>1, SplitFacts DEF Sort, AfterSort, Tokens, Unsampled, Sampled
  <2>4. Tokens'
    BY SMTT(30), <1>2, <2>1, <2>3 DEF Sort, AfterSort, Tokens, Pending, Quiet, Busy, Working, Sampled, Unsampled
  <2> QED BY <1>2, <2>1, <2>2, <2>4 DEF Sort, AfterSort, Inputs, ResultIsExact
<1>3. ASSUME NEW f \in Lo[g] .. Hi[g], Sample(g, f) PROVE IInv'
  <2>1. mpc = "await" /\ Busy(g)
    BY <1>3, WorkingAwaits DEF Sample, Token, Working
  <2>2. Positions'
    BY <1>3, <2>1 DEF Sample, Token, Positions, Quiet, Pending, Busy, Working
  <2>3. \A h \in Groups \ {g} : \A s \in RangeOf(h) : out'[s] = out[s]
    BY <1>3, SplitFacts DEF Sample, Token
  <2>4. wok'[g] <=> Sampled(g)'
    <3>1. \A s \in RangeOf(g) : out'[s] = IF s < f THEN step ELSE out[s]
      BY <1>3, <2>1, SplitFacts DEF Sample, Token, Busy
    <3>2. Unsampled(g)
      BY <1>3, <2>1 DEF Sample, Token, Tokens
    <3>3. wok'[g] <=> (f = Hi[g])
      BY <1>3 DEF Sample, Token
    <3>0. Lo[g] \in Nat /\ Hi[g] \in Nat /\ f \in Nat /\ Lo[g] <= f /\ f <= Hi[g]
      BY PoolAssumption
    <3>4. CASE f = Hi[g]
      <4>1. \A s \in RangeOf(g) : s < f
        BY <3>0, <3>4 DEF RangeOf
      <4>2. \A s \in RangeOf(g) : out'[s] = step'
        BY <1>3, <3>1, <4>1 DEF Sample, Token
      <4> QED BY <3>3, <3>4, <4>2 DEF Sampled, RangeOf
    <3>5. CASE f # Hi[g]
      <4>1. f \in RangeOf(g)
        BY <3>0, <3>5, ShorterInterval DEF RangeOf
      <4>2. out'[f] < step
        BY <3>0, <3>1, <3>2, <4>1 DEF Unsampled
      <4>3. out'[f] # step'
        BY <1>3, <4>1, <4>2, SplitFacts DEF Sample, Token
      <4> QED BY <3>3, <3>5, <4>1, <4>3 DEF Sampled, RangeOf
    <3> QED BY <3>4, <3>5
  <2>5. \A s \in Streams : out'[s] <= step
    BY <1>3, <2>1 DEF Sample, Token, Busy, Tokens
  <2>6. \A h \in Groups \ {g} : /\ Sampled(h)' <=> Sampled(h)
                                /\ Unsampled(h)' <=> Unsampled(h)
    <3> TAKE h \in Groups \ {g}
    <3>1. \A s \in RangeOf(h) : out'[s] = out[s] /\ step' = step
      BY <1>3, <2>3 DEF Sample, Token
    <3> QED BY <3>1 DEF Sampled, Unsampled, RangeOf
  <2>7. \A h \in Groups : Quiet(h)' <=> Quiet(h)
    BY <1>3 DEF Sample, Token, Quiet
  <2>8. \A h \in Groups : Pending(h)' <=> Pending(h)
    BY <1>3 DEF Sample, Token, Pending
  <2>9. ~Quiet(g) /\ ~Pending(g) /\ wpc'[g] = "report"
    BY <1>3 DEF Sample, Token, Quiet, Pending
  <2>10. \A h \in Groups \ {g} : wpc'[h] = wpc[h] /\ wok'[h] = wok[h]
    BY <1>3 DEF Sample, Token
  <2>11. Tokens'
    BY <1>3, <2>1, <2>4, <2>5, <2>6, <2>7, <2>8, <2>9, <2>10 DEF Sample, Token, Tokens
  <2> QED BY <1>3, <2>1, <2>2, <2>11 DEF Sample, Token, Inputs, ResultIsExact
<1>4. CASE Report(g)
  <2>1. mpc = "await" /\ Busy(g)
    BY <1>4, WorkingAwaits DEF Report, Working
  <2>2. Positions'
    BY <1>4, <2>1 DEF Report, Positions, Quiet, Pending, Busy, Working
  <2>3. wok[g] <=> Sampled(g)
    BY <1>4, <2>1 DEF Report, Tokens
  <2>4. Quiet(g)' /\ ~Quiet(g)
    BY <1>4, <2>1 DEF Report, Quiet, Busy
  <2>5. \A h \in Groups \ {g} : /\ Quiet(h)' <=> Quiet(h)
                                /\ Pending(h)' <=> Pending(h)
                                /\ wpc'[h] = wpc[h]
    BY <1>4 DEF Report, Quiet, Pending
  <2>6. \A h \in Groups : /\ Sampled(h)' <=> Sampled(h)
                          /\ Unsampled(h)' <=> Unsampled(h)
    BY <1>4 DEF Report, Sampled, Unsampled
  <2>7. step_ok' <=> step_ok /\ wok[g]
    BY <1>4 DEF Report
  <2>8. ~Pending(g)' /\ wpc'[g] = "wait"
    BY <1>4, <2>1 DEF Report, Pending, Busy
  <2>9. Tokens'
    BY <1>4, <2>1, <2>3, <2>4, <2>5, <2>6, <2>7, <2>8 DEF Report, Tokens
  <2> QED BY <1>4, <2>1, <2>2, <2>9 DEF Report, Inputs, ResultIsExact
<1> QED BY <1>1, <1>2, <1>3, <1>4 DEF Worker

\* The inductive invariant holds in every reachable state.
THEOREM Invariance == Spec => []IInv
<1>1. IInv /\ TypeOK' /\ [Next]_vars => IInv'
  <2> SUFFICES ASSUME IInv, TypeOK', [Next]_vars PROVE IInv'
    OBVIOUS
  <2>1. CASE UNCHANGED vars
    BY <2>1 DEF vars, mine, shared, workers, IInv, TypeOK, Positions, Inputs, Tokens,
       ResultIsExact, Quiet, Pending, Busy, Working, Sampled, Unsampled
  <2> QED BY <2>1, MiningThreadStep, WorkerStep DEF Next
<1> QED BY <1>1, InitIInv, TypeCorrect, PTL DEF Spec

(***************************************************************************)
(* What the invariant gives.                                               *)
(***************************************************************************)

\* However many groups there are and whichever of them fail, no worker is
\* still reading or writing the buffers of a sample_step call that returned.
THEOREM NoWorkerOutlivesCallHolds == Spec => []NoWorkerOutlivesCall
<1>1. IInv => NoWorkerOutlivesCall
  BY WorkingAwaits DEF NoWorkerOutlivesCall, Busy
<1> QED BY <1>1, Invariance, PTL

\* sample_step returns true exactly when every stream has a token of the step.
THEOREM ResultIsExactHolds == Spec => []ResultIsExact
<1>1. IInv => ResultIsExact
  BY DEF IInv
<1> QED BY <1>1, Invariance, PTL

(***************************************************************************)
(* Refinement.                                                             *)
(***************************************************************************)

\* A step of the hand-off is a step of the abstract call, or invisible to it.
LEMMA StepRefinement ==
    ASSUME IInv, IInv', [Next]_vars
    PROVE  [Abs!ANext]_(Abs!avars)
<1> USE DEF phaseBar, mine, shared, workers, Abs!avars
<1>1. ASSUME NEW d \in BOOLEAN, SampleStep(d) PROVE Abs!Call
  BY <1>1 DEF SampleStep, Abs!Call
<1>2. CASE PrepareFails
  <2>1. Abs!Return("fail")
    BY <1>2 DEF PrepareFails, Abs!Return
  <2> QED BY <2>1 DEF Abs!ANext
<1>3. CASE Prepare
  BY <1>3 DEF Prepare
<1>4. CASE Publish
  BY <1>4 DEF Publish, FreshVerdict
<1>5. CASE Return
  <2>1. step_ok \in BOOLEAN /\ result' \in {"ok", "fail"}
    BY <1>5 DEF Return, Verdict, IInv, TypeOK
  <2>2. result' = "ok" => \A s \in Streams : out[s] = step
    BY <1>5 DEF Return, Verdict, IInv, ResultIsExact
  <2>3. Abs!Return(result')
    BY <1>5, <2>2 DEF Return, Verdict, Abs!Return
  <2> QED BY <2>1, <2>3 DEF Abs!ANext
<1>6. CASE Destroy
  <2>1. Abs!Close
    BY <1>6 DEF Destroy, StopSet, Abs!Close
  <2> QED BY <2>1 DEF Abs!ANext
<1>7. CASE Join
  BY <1>7 DEF Join
<1>8. ASSUME NEW g \in Groups, Wake(g) PROVE UNCHANGED Abs!avars
  BY <1>8 DEF Wake
<1>9. ASSUME NEW g \in Groups, NEW b \in BOOLEAN, Sort(g, b) PROVE UNCHANGED Abs!avars
  BY <1>9 DEF Sort, AfterSort
<1>10. ASSUME NEW g \in Groups, NEW f \in Lo[g] .. Hi[g], Sample(g, f) PROVE Abs!ANext
  <2> DEFINE S == {s \in RangeOf(g) : s < f}
  <2>1. mpc = "await" /\ held[g].call = step
    BY <1>10, WorkingAwaits DEF Sample, Token, Working, Busy
  <2>2. S \in SUBSET Streams
    BY SplitFacts
  <2>3. Abs!Write(S)
    BY <1>10, <2>1 DEF Sample, Token, Abs!Write
  <2> QED BY <2>2, <2>3 DEF Abs!ANext
<1>11. ASSUME NEW g \in Groups, Report(g) PROVE UNCHANGED Abs!avars
  BY <1>11 DEF Report
<1>12. CASE UNCHANGED vars
  BY <1>12 DEF vars
<1> QED
  BY <1>1, <1>2, <1>3, <1>4, <1>5, <1>6, <1>7, <1>8, <1>9, <1>10, <1>11, <1>12
  DEF Next, Inside, Worker, Abs!ANext

\* For every number of groups, the generation hand-off is an implementation of
\* the call that SampleStep specifies.
THEOREM Refinement == Spec => ImplementsSampleStep
<1>1. Init => Abs!AInit
  BY DEF Init, phaseBar, Abs!AInit
<1>2. IInv /\ IInv' /\ [Next]_vars => [Abs!ANext]_(Abs!avars)
  BY StepRefinement
<1> QED BY <1>1, <1>2, Invariance, PTL DEF Spec, ImplementsSampleStep, Abs!ASpec
=============================================================================
