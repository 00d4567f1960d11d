---------------------------- MODULE SamplerPool ----------------------------
(***************************************************************************)
(* The per-step hand-off of SamplerPool (src/src/poi.cpp): the mining      *)
(* thread publishes the inputs of a decode step and bumps a generation;    *)
(* one worker thread per group samples the streams of its group and        *)
(* reports that generation done; the mining thread waits for all of them.  *)
(*                                                                         *)
(* Every action is one critical section of mtx, or one stretch of code     *)
(* between two of them.  A step's logits, contexts and token buffer are    *)
(* abstracted to the number of the sample_step call they belong to.        *)
(***************************************************************************)
EXTENDS Integers

CONSTANTS
    Groups,         \* the worker groups, one coordinator and thread each
    Lo, Hi,         \* group g samples the streams Lo[g] .. Hi[g]-1
    MaxSteps        \* bound: sample_step calls per behaviour

RangeOf(g) == Lo[g] .. Hi[g] - 1
Streams == UNION {RangeOf(g) : g \in Groups}

ASSUME PoolAssumption ==
    /\ Lo \in [Groups -> Nat]
    /\ Hi \in [Groups -> Nat]
    /\ \A g \in Groups : Lo[g] < Hi[g]
    /\ \A g, h \in Groups : g # h => RangeOf(g) \cap RangeOf(h) = {}
    /\ MaxSteps \in Nat

VARIABLES
    mpc,            \* where the mining thread is
    step,           \* number of the sample_step call: identifies its buffers
    dev,            \* argument of the call: the logits stay on the GPU
    result,         \* what the last finished call returned
    gen,            \* Impl::gen
    done,           \* Impl::done, per group
    stop,           \* Impl::stop
    step_ok,        \* Impl::step_ok
    central_hist,   \* MEOW_CENTRAL_HIST: one sort for the whole batch
    central_sorted, \* Impl::central_sorted
    input,          \* in_logits, in_dev, in_ctx, out_tokens: whose call, on the GPU?
    wpc,            \* where each worker is
    seen,           \* worker-local: the last generation it took
    held,           \* worker-local: its copy of input
    wok,            \* worker-local: ok
    out             \* out[s]: the call whose token is in the caller's slot s

mine == <<mpc, step, dev, result>>
shared == <<gen, done, stop, step_ok, central_hist, central_sorted, input>>
workers == <<wpc, seen, held, wok, out>>
vars == <<mine, shared, workers>>

Input == [call : Nat, dev : BOOLEAN]
NoInput == [call |-> 0, dev |-> FALSE]

Init ==
    /\ mpc = "idle" /\ step = 0 /\ dev = FALSE /\ result = "none"
    /\ gen = 0 /\ done = [g \in Groups |-> 0]
    /\ stop = FALSE /\ step_ok = TRUE
    /\ central_hist \in BOOLEAN /\ central_sorted = FALSE
    /\ input = NoInput
    /\ wpc = [g \in Groups |-> "wait"]
    /\ seen = [g \in Groups |-> 0]
    /\ held = [g \in Groups |-> NoInput]
    /\ wok = [g \in Groups |-> TRUE]
    /\ out = [s \in Streams |-> 0]

-----------------------------------------------------------------------------
(* The mining thread.                                                      *)

\* sample_step is entered with the buffers of a new step.  Everything up to
\* the publication runs without the lock: sort_stride, the receive buffers
\* (freed and allocated again when they are too small), central_sorted.
SampleStep(d) ==
    /\ mpc = "idle"
    /\ step < MaxSteps
    /\ mpc' = "prepare"
    /\ step' = step + 1
    /\ dev' = d
    /\ UNCHANGED <<result, shared, workers>>

\* ensure_sort_bufs fails before central_sorted is cleared, the central sort
\* after: no generation is published and the step fails.
PrepareFails ==
    /\ mpc = "prepare"
    /\ \/ UNCHANGED central_sorted
       \/ central_hist /\ dev /\ central_sorted' = FALSE
    /\ mpc' = "idle"
    /\ result' = "fail"
    /\ UNCHANGED <<step, dev, gen, done, stop, step_ok, central_hist, input, workers>>

Prepare ==
    /\ mpc = "prepare"
    /\ central_sorted' = (central_hist /\ dev)
    /\ mpc' = "publish"
    /\ UNCHANGED <<step, dev, result, gen, done, stop, step_ok, central_hist, input, workers>>

\* Each step starts unfailed.  Mutation: with the previous step's verdict.
VerdictKept == step_ok
FreshVerdict == TRUE

\* Under the lock: the inputs, step_ok and the generation.
Publish ==
    /\ mpc = "publish"
    /\ input' = [call |-> step, dev |-> dev]
    /\ step_ok' = FreshVerdict
    /\ gen' = gen + 1
    /\ mpc' = "await"
    /\ UNCHANGED <<step, dev, result, done, stop, central_hist, central_sorted, workers>>

\* The predicate cv_done waits for.  Mutation: one group's notify is enough.
AnyDone == \E g \in Groups : done[g] = gen
AllDone == \A g \in Groups : done[g] = gen

\* return step_ok.  Mutation: a call that all groups finished is a success.
AlwaysOk == "ok"
Verdict == IF step_ok THEN "ok" ELSE "fail"

Return ==
    /\ mpc = "await"
    /\ AllDone
    /\ mpc' = "idle"
    /\ result' = Verdict
    /\ UNCHANGED <<step, dev, shared, workers>>

StopSet == TRUE

\* ~Impl: stop and a last generation under the lock, then join.
Destroy ==
    /\ mpc = "idle"
    /\ stop' = StopSet
    /\ gen' = gen + 1
    /\ mpc' = "join"
    /\ UNCHANGED <<step, dev, result, done, step_ok, central_hist, central_sorted, input, workers>>

Join ==
    /\ mpc = "join"
    /\ \A g \in Groups : wpc[g] = "exit"
    /\ mpc' = "gone"
    /\ UNCHANGED <<step, dev, result, shared, workers>>

-----------------------------------------------------------------------------
(* The worker of group g.                                                  *)

\* cv_go: a generation it has not seen, or stop.  Stop wins.
Wake(g) ==
    /\ wpc[g] = "wait"
    /\ gen # seen[g] \/ stop
    /\ IF stop
       THEN /\ wpc' = [wpc EXCEPT ![g] = "exit"]
            /\ UNCHANGED <<seen, held>>
       ELSE /\ wpc' = [wpc EXCEPT ![g] = "sort"]
            /\ seen' = [seen EXCEPT ![g] = gen]
            /\ held' = [held EXCEPT ![g] = input]
    /\ UNCHANGED <<mine, shared, wok, out>>

\* A failed sort falls back to the host logits; in device mode there are none
\* and the step fails.  Mutation: that path goes back to waiting unreported.
FailsUnreported(g, gsort) == IF held[g].dev /\ ~gsort THEN "wait" ELSE "sample"
AfterSort(g, gsort) == IF held[g].dev /\ ~gsort THEN "report" ELSE "sample"

\* The group's slice is sorted on the GPU, unless central_sorted (read here,
\* after the unlock) says that it already is.
Sort(g, gsort) ==
    /\ wpc[g] = "sort"
    /\ central_sorted => gsort
    /\ wpc' = [wpc EXCEPT ![g] = AfterSort(g, gsort)]
    /\ wok' = [wok EXCEPT ![g] = (gsort \/ ~held[g].dev)]
    /\ UNCHANGED <<mine, shared, seen, held, out>>

\* The token of stream s when f is the first stream of the group without one.
\* Mutation: on_logits' refusal, -1, is stored like a token.
TokenOrRefusal(g, f, s) ==
    IF s \in RangeOf(g) /\ s < f THEN held[g].call
    ELSE IF s = f /\ f < Hi[g] THEN -1 ELSE out[s]
Token(g, f, s) == IF s \in RangeOf(g) /\ s < f THEN held[g].call ELSE out[s]

\* on_logits for the group's streams in order, up to the first one (f) that
\* returns no token; f = Hi[g] when none does.
Sample(g, f) ==
    /\ wpc[g] = "sample"
    /\ out' = [s \in Streams |-> Token(g, f, s)]
    /\ wok' = [wok EXCEPT ![g] = (f = Hi[g])]
    /\ wpc' = [wpc EXCEPT ![g] = "report"]
    /\ UNCHANGED <<mine, shared, seen, held>>

\* Under the lock: a failure is recorded and the generation reported done.
Report(g) ==
    /\ wpc[g] = "report"
    /\ step_ok' = (step_ok /\ wok[g])
    /\ done' = [done EXCEPT ![g] = seen[g]]
    /\ wpc' = [wpc EXCEPT ![g] = "wait"]
    /\ UNCHANGED <<mine, gen, stop, central_hist, central_sorted, input, seen, held, wok, out>>

Worker(g) ==
    \/ Wake(g)
    \/ \E gsort \in BOOLEAN : Sort(g, gsort)
    \/ \E f \in Lo[g] .. Hi[g] : Sample(g, f)
    \/ Report(g)

\* What the mining thread does by itself once it is inside the pool.
Inside == PrepareFails \/ Prepare \/ Publish \/ Return \/ Join

Next ==
    \/ \E d \in BOOLEAN : SampleStep(d)
    \/ Inside
    \/ Destroy
    \/ \E g \in Groups : Worker(g)

Spec == Init /\ [][Next]_vars

\* Threads are scheduled: a worker that can move does, and so does the mining
\* thread inside a call.  Whether it calls again, or destroys the pool, is its
\* caller's choice.
Fairness ==
    /\ WF_vars(Inside)
    /\ \A g \in Groups : WF_vars(Worker(g))

FairSpec == Spec /\ Fairness

-----------------------------------------------------------------------------
(* Properties.                                                             *)

TypeOK ==
    /\ mpc \in {"idle", "prepare", "publish", "await", "join", "gone"}
    /\ step \in Nat
    /\ dev \in BOOLEAN
    /\ result \in {"none", "ok", "fail"}
    /\ gen \in Nat
    /\ done \in [Groups -> Nat]
    /\ stop \in BOOLEAN
    /\ step_ok \in BOOLEAN
    /\ central_hist \in BOOLEAN
    /\ central_sorted \in BOOLEAN
    /\ input \in Input
    /\ wpc \in [Groups -> {"wait", "sort", "sample", "report", "exit"}]
    /\ seen \in [Groups -> Nat]
    /\ held \in [Groups -> Input]
    /\ wok \in [Groups -> BOOLEAN]
    /\ out \in [Streams -> Nat]

Working(g) == wpc[g] \in {"sort", "sample", "report"}

\* A worker touches the step's buffers, and the pool's unlocked sort state,
\* only while the mining thread waits inside the very sample_step call that
\* handed them over: no worker outlives a call, even one that failed early in
\* another group, so the caller may free or overwrite everything on return.
NoWorkerOutlivesCall ==
    \A g \in Groups :
        Working(g) => mpc = "await" /\ seen[g] = gen /\ held[g].call = step

\* What a published step returns is exact.  True: every slot holds a token of
\* this step, so a window never mixes in one left over from the step before.
\* False: some stream really has none, so a failure in one step never makes
\* the next one fail.
ResultIsExact ==
    /\ mpc = "idle" /\ result = "ok" => \A s \in Streams : out[s] = step
    /\ mpc = "idle" /\ result = "fail" /\ input.call = step
            => \E s \in Streams : out[s] # step

\* Every call returns, whatever groups fail: the workers' error paths report
\* done too.
CallReturns == (mpc \in {"prepare", "publish", "await"}) ~> (mpc = "idle")

\* The destructor's join ends: no worker sleeps through stop.
DestroyReturns == (mpc = "join") ~> (mpc = "gone")

-----------------------------------------------------------------------------
(* Refinement: the hand-off implements SampleStep.                         *)

phaseBar ==
    IF mpc \in {"prepare", "publish", "await"} THEN "busy"
    ELSE IF mpc = "idle" THEN "idle" ELSE "closed"

Abs == INSTANCE SampleStep WITH phase <- phaseBar

\* The hand-off implements the promise of sample_step.
ImplementsSampleStep == Abs!ASpec

\* Nobody waits for ever on a sampler: a call returns, also when a worker fails in
\* the middle of it, and the destructor joins every worker, wherever it is.
CallsReturn == CallReturns /\ DestroyReturns
=============================================================================
