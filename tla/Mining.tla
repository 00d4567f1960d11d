------------------------------- MODULE Mining -------------------------------
(***************************************************************************)
(* The threads of a mining process (src/src/main.cpp, run_mine part of     *)
(* main): one worker per GPU generates batches of windows and queues the   *)
(* shares it finds, submitter threads pre-check and submit them, and the   *)
(* main thread shuts everything down.  The job, the prompt counter, the    *)
(* failure counter and the submit queue are shared.                        *)
(*                                                                         *)
(* Every action is one critical section or atomic operation, or the code   *)
(* between two of them.  The condition variable is modelled by the set of  *)
(* threads asleep on it.  What set_job and a batch do inside is in         *)
(* PoiMiner; here they only succeed or fail.  The network client, the      *)
(* precheck's verdict and the GPU are external.                            *)
(***************************************************************************)
EXTENDS Integers, Sequences, FiniteSets

CONSTANTS
    Workers,        \* mine_device threads
    Submitters,     \* submit_loop threads
    Mode,           \* pc_mode: "off", "shadow" or "on"
    Rigs,           \* what a process may start with, see MiningAssumption
    NStreams,       \* windows per batch
    FailAbort,      \* kFailAbort, 0 when the abort is disabled
    MaxFails,       \* bound: failed batches in a row
    MaxPrompts,     \* bound: no seeded batch is begun after this many prompts
    MaxFound,       \* bound: shares found
    MaxAttempts     \* 20: looks at the statistics before giving up on answers

\* A rig: the jobs its pool announces, want_double (batches come in pairs) and, as a bound,
\* how many shares its windows give.  A job: its id, its prompt seed (0 when it has none)
\* and whether its model fits the loaded weights.
Jobs == UNION {r.jobs : r \in Rigs}

ASSUME MiningAssumption ==
    /\ \A r \in Rigs : r.double \in BOOLEAN /\ r.found \in 0 .. MaxFound
    /\ \A n \in Jobs : n.id \in Nat \ {0} /\ n.seed \in Nat /\ n.fits \in BOOLEAN
    /\ Mode \in {"off", "shadow", "on"}
    /\ Submitters # {} /\ NStreams \in Nat \ {0} /\ FailAbort \in Nat
    /\ MaxFails \in Nat /\ MaxPrompts \in Nat /\ MaxFound \in Nat /\ MaxAttempts \in Nat

NoJob == [id |-> 0, seed |-> 0, fits |-> TRUE]

VARIABLES
    rig,            \* what the process was started with
    cur_job,        \* cur_job and cur_model
    g_stop,         \* g_stop
    wpc,            \* where each worker is
    wj,             \* worker: its copy of cur_job
    installed,      \* worker: job id its sampler pool reports, 0 before the first
    double_ok,      \* worker: double_ok
    prompts,        \* worker: prompts of the batch still to be derived
    hand,           \* worker: pending_q, the shares in its sampler pools
    failed,         \* history: the workers whose last batch failed
    consecutive_failures,
    canary_seed,    \* canary_seed_hex
    canary_w,       \* canary_w
    period,         \* history: how often canary_seed has changed
    begun,          \* history: the workers that began a seeded batch since
    used,           \* history: the prompts derived, see Draw
    reused,         \* history: a number was drawn twice in one period
    submit_q,       \* submit_q
    producers_done, \* producers_done
    asleep,         \* submitters waiting on submit_cv
    spc,            \* where each submitter is
    sh,             \* submitter: the share it holds, 0 when none
    g_pc,           \* g_pc: the precheck's counters
    shares,         \* shares: how many were passed to client.submit
    found,          \* shares found so far; they are numbered
    decided,        \* history: the shares submitted or dropped
    main,           \* where the main thread is
    attempts,       \* its looks at the statistics
    exited          \* _Exit(3) was called

job_vars == <<rig, cur_job, g_stop>>
worker_vars == <<wpc, wj, installed, double_ok, prompts, hand, failed, consecutive_failures>>
canary_vars == <<canary_seed, canary_w, period, begun, used, reused>>
queue_vars == <<submit_q, producers_done, asleep>>
submit_vars == <<spc, sh, g_pc, shares, decided>>
main_vars == <<main, attempts, exited>>
vars == <<job_vars, worker_vars, canary_vars, queue_vars, submit_vars, found, main_vars>>

PerWorker(v) == [w \in Workers |-> v]
Counters == {"checked", "passed", "unavailable", "rejected", "dropped"}

Init ==
    /\ rig \in Rigs /\ cur_job = NoJob /\ g_stop = FALSE
    /\ wpc = PerWorker("look") /\ wj = PerWorker(NoJob) /\ installed = PerWorker(0)
    /\ double_ok = PerWorker(rig.double) /\ prompts = PerWorker(0) /\ hand = PerWorker(<<>>)
    /\ failed = {} /\ consecutive_failures = 0
    /\ canary_seed = 0 /\ canary_w = 0
    /\ period = 0 /\ begun = {} /\ used = {} /\ reused = FALSE
    /\ submit_q = <<>> /\ producers_done = FALSE /\ asleep = {}
    /\ spc = [k \in Submitters |-> "check"] /\ sh = [k \in Submitters |-> 0]
    /\ g_pc = [c \in Counters |-> 0] /\ shares = 0 /\ found = 0 /\ decided = {}
    /\ main = "run" /\ attempts = 0 /\ exited = FALSE

\* on_job, on the network thread.  Job ids grow.
Announce(n) ==
    /\ ~exited /\ main # "closed"
    /\ n.id > cur_job.id
    /\ cur_job' = n
    /\ UNCHANGED <<rig, g_stop, worker_vars, canary_vars, queue_vars, submit_vars, found, main_vars>>

\* The signal handler.
Signal ==
    /\ ~exited /\ ~g_stop
    /\ g_stop' = TRUE
    /\ UNCHANGED <<rig, cur_job, worker_vars, canary_vars, queue_vars, submit_vars, found, main_vars>>

-----------------------------------------------------------------------------
(* mine_device.                                                            *)

At(w, pc) == ~exited /\ wpc[w] = pc
Goto(w, pc) == wpc' = [wpc EXCEPT ![w] = pc]

\* The next turn of the loop: its copy of the job is gone.
NextTurn(w) == Goto(w, "look") /\ wj' = [wj EXCEPT ![w] = NoJob]

WorkerStops(w) ==
    /\ At(w, "look") /\ g_stop
    /\ Goto(w, "done")
    /\ UNCHANGED <<job_vars, wj, installed, double_ok, prompts, hand, failed,
                   consecutive_failures, canary_vars, queue_vars, submit_vars, found, main_vars>>

\* The job is copied under jm; without one the worker sleeps and looks again.  A new
\* job goes to set_job of the sampler pools; when it fails the loop starts over, with
\* the job installed in the first group or not.
Look(w) ==
    /\ At(w, "look") /\ ~g_stop
    /\ cur_job # NoJob /\ cur_job.fits
    /\ cur_job.seed # 0 => Cardinality(used) < MaxPrompts
    /\ \/ /\ Goto(w, "seed")
          /\ wj' = [wj EXCEPT ![w] = cur_job]
          /\ installed' = [installed EXCEPT ![w] = cur_job.id]
       \/ /\ installed[w] # cur_job.id
          /\ \E id \in {installed[w], cur_job.id} : installed' = [installed EXCEPT ![w] = id]
          /\ UNCHANGED <<wpc, wj>>
    /\ UNCHANGED <<job_vars, double_ok, prompts, hand, failed, consecutive_failures,
                   canary_vars, queue_vars, submit_vars, found, main_vars>>

\* The pool switched to a model that the loaded weights are not: the rig stops.
WrongModel(w) ==
    /\ At(w, "look") /\ ~g_stop
    /\ cur_job # NoJob /\ ~cur_job.fits
    /\ g_stop' = TRUE
    /\ Goto(w, "done")
    /\ UNCHANGED <<rig, cur_job, wj, installed, double_ok, prompts, hand, failed,
                   consecutive_failures, canary_vars, queue_vars, submit_vars, found, main_vars>>

\* Under canary_mx: the counter starts from 0 for a new seed.  Mutation: for
\* every batch.
RestartAlways(seed) == TRUE
RestartCounter(seed) == canary_seed # seed

Seed(w) ==
    LET seed == wj[w].seed
    IN /\ At(w, "seed")
       /\ IF seed = 0
          THEN Goto(w, "generate") /\ UNCHANGED <<canary_seed, canary_w, period, begun, prompts>>
          ELSE /\ canary_seed' = seed
               /\ IF canary_seed = seed
                  THEN begun' = begun \cup {w} /\ UNCHANGED period
                  ELSE begun' = {w} /\ period' = period + 1
               /\ canary_w' = IF RestartCounter(seed) THEN 0 ELSE canary_w
               /\ prompts' = [prompts EXCEPT ![w] = IF double_ok[w] THEN 2 * NStreams
                                                                    ELSE NStreams]
               /\ Goto(w, "derive")
       /\ UNCHANGED <<job_vars, wj, installed, double_ok, hand, failed,
                      consecutive_failures, used, reused, queue_vars, submit_vars, found,
                      main_vars>>

\* Is this the batch's last prompt?
LastPrompt(w) == prompts[w] = 1

\* A prompt: its seed and number, the period of the draw, and whether the worker had
\* begun its batch before that period.
Draw(w) == [seed |-> wj[w].seed, n |-> canary_w, period |-> period, late |-> w \notin begun]

\* canary_w.fetch_add(1) for one prompt.
Derive(w) ==
    LET p == Draw(w)
    IN /\ At(w, "derive")
       /\ canary_w' = canary_w + 1
       /\ reused' = (reused \/ \E d \in used : d.period = p.period /\ d.n = p.n)
       /\ used' = used \cup {p}
       /\ prompts' = [prompts EXCEPT ![w] = @ - 1]
       /\ IF LastPrompt(w) THEN Goto(w, "generate") ELSE UNCHANGED wpc
       /\ UNCHANGED <<job_vars, wj, installed, double_ok, hand, failed, consecutive_failures,
                      canary_seed, period, begun, queue_vars, submit_vars, found, main_vars>>

\* The engine returned -2: no logits on the device, one batch at a time from now on.
FallBack(w) ==
    /\ At(w, "generate") /\ double_ok[w]
    /\ double_ok' = [double_ok EXCEPT ![w] = FALSE]
    /\ NextTurn(w)
    /\ UNCHANGED <<job_vars, installed, prompts, hand, failed,
                   consecutive_failures, canary_vars, queue_vars, submit_vars, found, main_vars>>

\* Shares are found as the windows of a batch complete: n more are pending.
Find(w, n) ==
    /\ found + n <= rig.found
    /\ hand' = [hand EXCEPT ![w] = @ \o [i \in 1 .. n |-> found + i]]
    /\ found' = found + n

\* The engine returned -1.  The shares it found before stay in the pools.
BatchFails(w, n) ==
    /\ At(w, "generate") /\ consecutive_failures < MaxFails
    /\ Find(w, n)
    /\ failed' = failed \cup {w}
    /\ consecutive_failures' = consecutive_failures + 1
    /\ exited' = (FailAbort > 0 /\ consecutive_failures + 1 = FailAbort)
    /\ NextTurn(w)
    /\ UNCHANGED <<job_vars, installed, double_ok, prompts, canary_vars,
                   queue_vars, submit_vars, main, attempts>>

\* The windows are complete.
BatchDone(w, n) ==
    /\ At(w, "generate")
    /\ Find(w, n)
    /\ failed' = failed \ {w}
    /\ consecutive_failures' = 0
    /\ Goto(w, "hand")
    /\ UNCHANGED <<job_vars, wj, installed, double_ok, prompts, canary_vars,
                   queue_vars, submit_vars, main_vars>>

\* Under submit_mx: take_share until there is none.
HandOver(w) ==
    /\ At(w, "hand")
    /\ submit_q' = submit_q \o hand[w]
    /\ hand' = [hand EXCEPT ![w] = <<>>]
    /\ Goto(w, "notify")
    /\ UNCHANGED <<job_vars, wj, installed, double_ok, prompts, failed, consecutive_failures,
                   canary_vars, producers_done, asleep, submit_vars, found,
                   main_vars>>

\* notify_one wakes one of the threads asleep, if there is one.
NotifyOne == IF asleep = {} THEN asleep' = {}
             ELSE \E k \in asleep : asleep' = asleep \ {k}

Notify(w) ==
    /\ At(w, "notify")
    /\ NotifyOne
    /\ NextTurn(w)
    /\ UNCHANGED <<job_vars, installed, double_ok, prompts, hand, failed,
                   consecutive_failures, canary_vars, submit_q, producers_done, submit_vars, found,
                   main_vars>>

WorkerStep(w) ==
    \/ WorkerStops(w) \/ Look(w) \/ WrongModel(w) \/ Seed(w) \/ Derive(w)
    \/ FallBack(w) \/ (\E n \in 0 .. 2 : BatchFails(w, n) \/ BatchDone(w, n))
    \/ HandOver(w) \/ Notify(w)

-----------------------------------------------------------------------------
(* submit_loop.                                                            *)

Awake(k) == ~exited /\ k \notin asleep

\* With submit_mx held: the wait predicate, and what follows it.  Mutation: the
\* thread leaves before the queue is empty.
MustWait == submit_q = <<>> /\ ~producers_done
MayLeaveEarly == producers_done
MayLeave == producers_done /\ submit_q = <<>>

Sleep(k) ==
    /\ Awake(k) /\ spc[k] = "check" /\ MustWait
    /\ asleep' = asleep \cup {k}
    /\ UNCHANGED <<job_vars, worker_vars, canary_vars, submit_q, producers_done, submit_vars,
                   found, main_vars>>

Leave(k) ==
    /\ Awake(k) /\ spc[k] = "check" /\ MayLeave
    /\ spc' = [spc EXCEPT ![k] = "done"]
    /\ UNCHANGED <<job_vars, worker_vars, canary_vars, queue_vars, sh, g_pc, shares, decided,
                   found, main_vars>>

Take(k) ==
    /\ Awake(k) /\ spc[k] = "check" /\ submit_q # <<>>
    /\ sh' = [sh EXCEPT ![k] = Head(submit_q)]
    /\ submit_q' = Tail(submit_q)
    /\ spc' = [spc EXCEPT ![k] = IF Mode = "off" THEN "submit" ELSE "precheck"]
    /\ UNCHANGED <<job_vars, worker_vars, canary_vars, producers_done, asleep, g_pc, shares,
                   decided, found, main_vars>>

Plus(counts, cs) == [c \in Counters |-> counts[c] + IF c \in cs THEN 1 ELSE 0]

\* The counters an outcome adds to.
CountedAs(v) == {"checked", v} \cup (IF v = "rejected" /\ Mode = "on" THEN {"dropped"} ELSE {})

\* evaluate, and the counters.  Only a reject in mode on keeps the share back; a
\* proof that could not be checked is submitted.
Precheck(k, v) ==
    /\ Awake(k) /\ spc[k] = "precheck"
    /\ g_pc' = Plus(g_pc, CountedAs(v))
    /\ IF v = "rejected" /\ Mode = "on"
       THEN /\ decided' = decided \cup {sh[k]}
            /\ sh' = [sh EXCEPT ![k] = 0]
            /\ spc' = [spc EXCEPT ![k] = "check"]
       ELSE /\ spc' = [spc EXCEPT ![k] = "submit"]
            /\ UNCHANGED <<decided, sh>>
    /\ UNCHANGED <<job_vars, worker_vars, canary_vars, queue_vars, shares, found, main_vars>>

\* client.submit.
SubmitShare(k) ==
    /\ Awake(k) /\ spc[k] = "submit"
    /\ shares' = shares + 1
    /\ decided' = decided \cup {sh[k]}
    /\ sh' = [sh EXCEPT ![k] = 0]
    /\ spc' = [spc EXCEPT ![k] = "check"]
    /\ UNCHANGED <<job_vars, worker_vars, canary_vars, queue_vars, g_pc, found, main_vars>>

SubmitterStep(k) ==
    \/ Sleep(k) \/ Leave(k) \/ Take(k) \/ SubmitShare(k)
    \/ \E v \in {"passed", "unavailable", "rejected"} : Precheck(k, v)

-----------------------------------------------------------------------------
(* The main thread, once the report loop has ended.                        *)

JoinWorkers ==
    /\ ~exited /\ main = "run" /\ g_stop
    /\ \A w \in Workers : wpc[w] = "done"
    /\ main' = "flag"
    /\ UNCHANGED <<job_vars, worker_vars, canary_vars, queue_vars, submit_vars, found,
                   attempts, exited>>

ProducersDone ==
    /\ ~exited /\ main = "flag"
    /\ producers_done' = TRUE
    /\ main' = "notify"
    /\ UNCHANGED <<job_vars, worker_vars, canary_vars, submit_q, asleep, submit_vars, found,
                   attempts, exited>>

\* notify_all.  Mutation: notify_one.
AllButOne == {asleep \ {k} : k \in asleep} \cup {s \in {asleep} : s = {}}
NoneAsleep == {{}}

NotifyAll ==
    /\ ~exited /\ main = "notify"
    /\ asleep' \in NoneAsleep
    /\ main' = "join"
    /\ UNCHANGED <<job_vars, worker_vars, canary_vars, submit_q, producers_done, submit_vars,
                   found, attempts, exited>>

JoinSubmitters ==
    /\ ~exited /\ main = "join"
    /\ \A k \in Submitters : spc[k] = "done"
    /\ main' = "ack"
    /\ UNCHANGED <<job_vars, worker_vars, canary_vars, queue_vars, submit_vars, found,
                   attempts, exited>>

\* A look at the client's statistics (external) that finds answers missing.
AwaitAnswers ==
    /\ ~exited /\ main = "ack"
    /\ attempts < MaxAttempts /\ shares > 0
    /\ attempts' = attempts + 1
    /\ UNCHANGED <<job_vars, worker_vars, canary_vars, queue_vars, submit_vars, found,
                   main, exited>>

\* The answers are all in, or it looked often enough: api.stop, client.stop,
\* dm.restore_all.
Close ==
    /\ ~exited /\ main = "ack"
    /\ main' = "closed"
    /\ UNCHANGED <<job_vars, worker_vars, canary_vars, queue_vars, submit_vars, found,
                   attempts, exited>>

MainStep ==
    JoinWorkers \/ ProducersDone \/ NotifyAll \/ JoinSubmitters \/ AwaitAnswers \/ Close

Next ==
    \/ \E n \in rig.jobs : Announce(n)
    \/ Signal
    \/ \E w \in Workers : WorkerStep(w)
    \/ \E k \in Submitters : SubmitterStep(k)
    \/ MainStep

Spec == Init /\ [][Next]_vars

\* The threads are scheduled.  A batch ends, a precheck ends, and client.submit
\* returns; nothing is assumed of the pool, the operator or the verdicts.
FairSpec ==
    /\ Spec
    /\ \A w \in Workers : WF_vars(WorkerStep(w))
    /\ \A k \in Submitters : WF_vars(SubmitterStep(k))
    /\ WF_vars(MainStep)

-----------------------------------------------------------------------------
(* Properties.                                                             *)

TypeOK ==
    /\ rig \in Rigs /\ cur_job \in rig.jobs \cup {NoJob} /\ g_stop \in BOOLEAN
    /\ wpc \in [Workers -> {"look", "seed", "derive", "generate", "hand", "notify", "done"}]
    /\ wj \in [Workers -> Jobs \cup {NoJob}] /\ installed \in [Workers -> Nat]
    /\ double_ok \in [Workers -> BOOLEAN] /\ prompts \in [Workers -> 0 .. 2 * NStreams]
    /\ hand \in [Workers -> Seq(1 .. MaxFound)]
    /\ failed \subseteq Workers /\ consecutive_failures \in 0 .. MaxFails
    /\ canary_seed \in Nat /\ canary_w \in Nat
    /\ period \in Nat /\ begun \subseteq Workers
    /\ used \subseteq [seed : Nat, n : Nat, period : Nat, late : BOOLEAN]
    /\ reused \in BOOLEAN
    /\ submit_q \in Seq(1 .. MaxFound) /\ producers_done \in BOOLEAN
    /\ asleep \subseteq Submitters
    /\ spc \in [Submitters -> {"check", "precheck", "submit", "done"}]
    /\ sh \in [Submitters -> 0 .. MaxFound]
    /\ g_pc \in [Counters -> Nat] /\ shares \in Nat
    /\ found \in 0 .. MaxFound /\ decided \subseteq 1 .. MaxFound
    /\ main \in {"run", "flag", "notify", "join", "ack", "closed"}
    /\ attempts \in 0 .. MaxAttempts /\ exited \in BOOLEAN

\* The shares that no worker has handed over.
InPools == UNION {{hand[w][i] : i \in DOMAIN hand[w]} : w \in Workers}

\* The comment in the shutdown: workers have finished and the submit queue is
\* drained once the submitters are joined.  Every share that was found has been
\* submitted or dropped by then, or it is in the sampler pools of a worker whose last
\* batch failed: shares are taken only after a good batch, and those are lost.
NothingLeftBehind ==
    main \in {"ack", "closed"} =>
        /\ submit_q = <<>>
        /\ decided = (1 .. found) \ InPools
        /\ \A w \in Workers \ failed : hand[w] = <<>>

\* No wakeup is lost: shares wait in the queue with every submitter asleep only
\* while a worker is about to notify one.
NoLostWakeup ==
    (submit_q # <<>> /\ asleep = Submitters) => \E w \in Workers : wpc[w] = "notify"

\* The closing report accounts for every share handed over: it was submitted or
\* dropped, once, and with the precheck on it was checked with exactly one outcome.
FinalReportAddsUp ==
    main = "closed" =>
        /\ shares + g_pc.dropped = Cardinality(decided)
        /\ Mode # "off" => /\ g_pc.checked = Cardinality(decided)
                           /\ g_pc.passed + g_pc.unavailable + g_pc.rejected = g_pc.checked

\* From one change of the counter's seed to the next the numbers drawn are dense: exactly
\* 0, 1, ... up to the counter, none twice, across all streams and workers.  They go to
\* prompts of that seed, except for those a worker derives that had begun its batch
\* before the change.  So a <<seed, number>> comes twice only when the pool returns to a
\* seed, or from such a late worker.
PromptsDense ==
    /\ ~reused
    /\ {d.n : d \in {d \in used : d.period = period}} = 0 .. canary_w - 1
    /\ \A d \in used : \A n \in 0 .. d.n : \E e \in used : e.period = d.period /\ e.n = n
    /\ \A d \in used : d.period = period => d.late \/ d.seed = canary_seed
    /\ \A d, e \in used : d.period = e.period => d.late \/ e.late \/ d.seed = e.seed

\* However the rig is stopped, by a signal or by a foreign model, the process ends.
ShutdownCompletes == g_stop ~> (main = "closed" \/ exited)

\* A queued share is decided, also when the rig is stopped right after.
SharesDecided ==
    \A n \in 1 .. MaxFound :
        (\E i \in DOMAIN submit_q : submit_q[i] = n) ~> (n \in decided \/ exited)

\* No share is lost between the threads: none is left in the queue with everybody
\* asleep or gone, and the closing report accounts for each one that a worker handed over;
\* only a worker whose last batch failed keeps some.
NothingLost == TypeOK /\ NoLostWakeup /\ NothingLeftBehind /\ FinalReportAddsUp

\* Stopping ends, by a signal or by a foreign model, and a queued share is decided
\* even then.
MiningEnds == ShutdownCompletes /\ SharesDecided
=============================================================================
