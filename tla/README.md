# supr-meow-tsc in TLA+

`supr-meow-tsc` mines TensorCash: each GPU runs a language model over prompts, a
consensus sampler picks the tokens, and a window of 256 sampled tokens whose transcript
hashes below a target is a *proof of inference* that goes to a stratum pool as a share,
or to a node as a block. There are two miners in the repository: a C++ one around
llama.cpp (`src/`), and a patched vLLM with an overlay of Python files and a bridge to the
pool (`vllm-miner/`). This directory holds TLA+ models of the parts of both in which
threads, sockets, jobs, batches and failures meet, of their consensus arithmetic, the TLC
runs that check them and the TLAPS proofs about all but the model runner. Paths below are those of the
repository (`src/` in front of a path is the repository's root).

## 1. The system

### The C++ miner

| Part | State it keeps | Operations | Talks to |
|---|---|---|---|
| stratum client, `src/stratum.cpp` | socket, pool index, offline queue `outq_`, tag table `pending_tags_`, share target, counters | `run` (connect, handshake, flush, read), `submit`, `send_line`, `handle_line`, `stop` | the pool over TCP; callbacks `on_job`, `on_model`, `on_submit_result` into main; called by the submitters |
| mining process, `src/main.cpp` | `cur_job`, `g_stop`, prompt counter `canary_w`, `consecutive_failures`, `submit_q` with its condition variable, precheck counters | `mine_device` per GPU, `submit_loop`, the shutdown sequence | all other parts |
| sampler pool, `SamplerPool` in `src/poi.cpp` | generation `gen`, `done` per group, `step_ok`, `stop`, pointers to the caller's buffers | `sample_step`, `worker`, destructor, `set_job` | one `PoiMiner` per group; called by the engine at every step |
| proof-of-inference miner, `PoiMiner` in `src/poi.cpp` | installed job, VDF and tick, `job_by_req`, `last_ctx`, `prompt_len`, `pending_q` | `init`, `set_job`, `on_logits`, `take_share` | the vendored coordinator; its own loopback egress socket; the VDF prover |
| inference engine, `src/engine.cpp` | llama contexts, logits buffers, host-copy switch | `generate_windows_stepwise[_tok]`, `generate_windows_double[_tok]` | calls the sampler pool |
| pre-submit check, `src/precheck.cpp` | none | `decode`, `evaluate_window`, gate masks | called by the submitters |
| device control, `src/device.cpp` | `tuned_` | `apply_tuning`, `restore_all` | NVML |
| statistics API, `src/api.cpp` | a socket | `start`, `run`, `stop` | a snapshot callback |
| `vdf.cpp`, `canary.cpp`, `tuning.cpp`, `model_profile.cpp`, CUDA files | none | pure functions and kernels | |

A job travels: pool → network thread → `cur_job` → mining thread → `set_job` in
every group → rows of the coordinator → proof on the loopback egress → labelled share
→ `submit_q` → precheck → `submit` → pool → result with the GPU's tag.

### The vLLM miner

| Part | State it keeps | Operations | Talks to |
|---|---|---|---|
| stratum bridge, `vllm-stratum-bridge.py` | connection, current job, `job_by_req`, a lock | `supervisor`/`reader`, `on_message`, `dispatch_loop`, `drain_loop`, `send` | the pool; requests to the endpoints over HTTP; proofs over ZMQ |
| endpoints, `overlay/.../openai/` | per request: lanes, parser, sent chunks | validators, `to_sampling_params`, `create_*`, stream and full generators | the engine |
| model runner and persistent batch, `overlay/.../v1/worker/` | one row per running request, the last step's sampled ids | `_update_states`, `_prepare_inputs`, `sample_tokens`, `condense`, `swap_states` | the scheduler (upstream); the sampler |
| PoW sampler, `topk_topp_sampler.py`, `common_sampler_helper.py`, `pow_utils.py` | rows, ring buffers, host mirrors, nonces, proof archive | `_pow_forward`: register, evict, allocate, admit, sample, hash, check, clean up | the egress writer |
| v3 arithmetic, `pow_v3.py`; targets, `uint256_arithmetics.py` | none | pure functions | the sampler |
| egress writer, `zmq_pow_writer.py` | a bounded queue, a thread | `submit_solution`, `submit_share`, `submit_proof_for_audit`, `_run`, `stop` | the bridge (broker mode), or a Core Node and a proxy |
| start: `runtime_info.py`, `gpu_parallel_select.py`, `tools/patch-staged-poi*.py` | none | model identity, parallel mode, patches of the staged sources | |

A job travels: pool → bridge reader → `job` → dispatcher → HTTP request with the PoW
payload → endpoint → engine request with its ids → row of the persistent batch → row of
the ring buffers → proof → queue → writer thread → ZMQ → drain thread → label from
`job_by_req` → pool.

Every arrow is a place where one thread hands state to another, or where something old
can arrive late.

### What is hard

The tests have vectors for the precheck, the sampler and the VDF and one session of
the network client with one share, no reconnect and no second thread. They hardly reach:

* C++: the generation hand-off of the sampler pool with failing groups; reconnects and
  failover with shares queued, sent and unanswered; a blocking send under a mutex; job
  changes with proofs under way; batches abandoned in the middle; a counter shared
  by all workers across a seed change; condition variable wakeups; shutdown.
* Python: rows of three different tables (scheduler, persistent batch, ring buffers) that are
  assigned, moved, evicted and reused while a window of a sequence is half full; token ids
  that reach the host a step late; a nonce that must belong to exactly one window; two
  copies of everything that is hashed; proofs queued by reference and marked in place; a
  lock held over a blocking write; dictionaries shared between the prompts of a request;
  deltas that are merged before a parser sees them; arithmetic at its boundaries.

`PROJECT.json` lists each under `hazards` with its line and the properties about it.

### Correct means

* sampler pool: the caller's buffers are used only inside the call; `true` means every
  stream has a token of this step; every call and the destructor return;
* stratum client: no share is sent twice; a job is mined with its own pool's target;
  results keep their tags; it always gets connected again; `stop` returns;
* miner: a share carries the job that it was sampled for; a VDF is over its own parent;
  a proof holds the steps of one window;
* process: no found share is left behind; no wakeup is lost; the final report adds
  up; prompts are dense and not repeated; the process ends when it is told to;
* engine: the sampler gets the logits of the step that it samples; a failed call leaves
  the host copy switched on; only whole windows are counted;
* pre-submit check: the gate list means what it says; a proof is withheld only for an
  enabled rule that it breaks; what cannot be judged is sent;
* PoW sampler: a row is held by one sequence; its window is that sequence's; one nonce
  admits one window; a proof states what was sampled; audited windows are not mined with;
* arithmetic: targets are the chain's; the fast sampling path picks the reference
  path's token; no step is over-credited; an admission is good for one prefix;
* pipeline: what a proof is good for decides where it goes; no share is submitted under an older
  job; no thread hangs on another;
* batch and runner: whatever moved, a row's tokens, parameters and outputs are its own;
* endpoints: ids trace a proof to its request; an admitted request can be answered; a
  stream says what the full answer says.

## 2. Modules

| Module | Models | Composition |
|---|---|---|
| `SampleStep` | what `sample_step` promises, abstractly | |
| `SamplerPool` | the hand-off between the mining thread and its workers | implements `SampleStep` (`Abs`, `ImplementsSampleStep`) |
| `StreamSplit` | how `SamplerPool::init` splits streams over groups | used by `MCSamplerPool` |
| `StratumClient` | network thread, submitters, `stop`, with pool and TCP as external | |
| `PoiMiner` | job fan-out, VDF, windows, egress, labels, with the mining loop and the engine's step loop around them | uses what `SamplerPool` shows: a step is all or nothing for the caller |
| `Mining` | all workers, submitters and the main thread | uses `PoiMiner`'s outcomes: an install or a batch succeeds or fails |
| `WindowEngine` | the engine's single and double-buffered generators | calls the sampler, whose contract is `SampleStep` |
| `Precheck` | gate lists, the gates and the verdict on one proof | `Mining` takes any verdict from it |
| `PowSampler` | `_pow_forward` and the helper around rows, rings, nonces, proofs | hands proofs to the writer (`PowPipeline`) |
| `PowMath` | targets, masks, choice of a token | `PowCases` |
| `PowV3` | admission messages, tries, credit, tiers, nonce carrier | `PowCases` |
| `Setup` | patches, model identity, parallel mode | `PowCases` |
| `PowCases` | the bounded inputs of the three above | extends them |
| `Egress` | the proof queue and the writer's thread | |
| `Bridge` | supervisor, dispatcher and drain thread around one lock | |
| `PowPipeline` | a job's way from the pool to the submit of its share | extends `Egress` and `Bridge` |
| `InputBatch` | the persistent batch as a data type | |
| `ModelRunner` | the worker over its batch, with the scheduler as external | extends `InputBatch` |
| `Requests` | validators and sampling parameters of the three endpoints | |
| `ToolStream` | reasoning and tool deltas of a chat stream | |
| `Serving` | one request from its body to the last chunk | extends `Requests` and `ToolStream` |
| `StratumClientProofs`, `PoiMinerProofs`, `MiningProofs`, `WindowEngineProofs`, `PowSamplerProofs`, `PowPipelineProofs`, `PowCasesProofs`, `ServingProofs` | theorems about the module named (section 5); `MiningProofs` has those about `Precheck` too, `WindowEngineProofs` those about `SamplerPool` | each extends what it is about |
| `MC*` | constants for TLC | |

### SamplerPool

`mpc` is the mining thread, `wpc[g]` the worker of group `g`. `SampleStep`,
`Prepare`/`PrepareFails`, `Publish` and `Return` are the stretches of
`SamplerPool::sample_step` between its locks; `Wake`, `Sort`, `Sample`, `Report` those
of `worker`; `Destroy` and `Join` the destructor. The logits, contexts and tokens of a
call are abstracted to its number `step`: `out[s] = step` says that the caller's slot
`s` holds a token of this call. `central_hist` is the build's choice of one sort for
all groups. A sort may fail, a sampler may refuse a stream.

### StratumClient

One action per critical section of `mtx_`; `send_line` is two (`SendBegin`, `SendEnd`)
because it keeps the mutex while `send` blocks. `todo[t]` are the lines that a thread
is about to pass to `send_line`, `writing` the thread inside `send`. The connection
takes `WireCap` lines before it blocks. The pool announces a target, a job and a ping after the
login, answers each submit at most once and in any order, and may hang up. Sessions
are numbered; `fd` is the session's number, and a target or a job is abstracted to
the session that it came in. A connection attempt fails exactly for the pools in `Down`.
Left out: JSON, how bytes are cut into chunks and the 4 MiB guard, the length
of backoff and poll timeouts, `set_model` (its part is in `Mining`).

### PoiMiner

`wpc` walks through the mining loop: `Look` copies the job, `InstallOk`/`InstallFails`
is `PoiMiner::set_job` for the group `fan` of the fan-out, `StartBatch` builds the
prompts, `OnLogits`/`OnLogitsFails`/`NotReady` are one group's work on one sequence of a
step, `NextToken`, `BatchFails` and `BatchDone` the engine's loop. A context is its
length, a VDF the parent and the tick that it proves. `row` is the coordinator's
(external) row of a sequence with its parameters and the number of its steps. A proof travels
through `egress`, and `Drain` reads it at this or any later call. The second sampler pool of a
double-buffered worker is a further run of groups in the same fan-out.

The rest is history, for the properties: what parameters and prompt a row was opened with, and
whether a later batch went on with it (`under`, `first`, `stale`, `mixed`); whether `set_job` ran
while a proof was on its way, and which jobs with its request id it installed (`overtaken`,
`next`); which groups' last `set_job` failed (`torn`), and which hold a VDF whose tick need
not be its own (`doubt`). They mark exactly the cases in which a share or a proof may say
something else than what its window was made of, and the properties hold outside of them.

### Mining

`wpc`, `spc` and `main` are the workers, submitters and the main thread. A rig is what a process
starts with: the jobs that its pool announces, with their seeds and models, and whether batches come
in pairs. A batch only succeeds or fails, and either way its windows may give shares: they are in the
worker's sampler pools (`hand`) until a batch succeeds. `asleep` is the set of threads that wait on `submit_cv`;
`Sleep` tests the predicate and goes to sleep in one critical section, as `wait` does.
The prompt counter's reset (`Seed`, under `canary_mx`) and each `fetch_add` (`Derive`)
are separate steps; `period`, `begun`, `used` and `reused` record which worker drew which number
under which seed, and who had begun before the seed changed. `exited` is `_Exit(3)`. Spurious wakeups are not modelled: they
only make a thread test the predicate again.

### WindowEngine

The mining thread calls `generate_windows_stepwise[_tok]` (`mode = "single"`) or
`generate_windows_double[_tok]` (`"double"`), as `double_ok` says; a result of -2 clears
`double_ok`. A decode is put on a context's `queue` and finished by the GPU
(`GpuFinishes`, external) later; `tensor` and `host` are llama's output on the device
and its copy on the host, which `skip` switches off. Logits are abstracted to the call,
the context and the step that they are for, and to nothing when the decode was made at
another position or with another token than the one sampled for it. `source` is what the
sampler was given; `fed` records what it wanted and found there. `Restored` is the
switch on each way out. The sampler either fails or gives every stream a token
(`SampleStep`), so the branch for a missing token of a successful step is not taken.
The configuration (`want_double`, `want_dev`, `compare_device`, `refresh`) is chosen in
`Init`; the prefix prefill is never switched on by the program and is left out.

### Precheck

`phase` walks through the options (`ParseMode`, `ParseItem` per comma-separated item,
`EndOfList`, `OptionsRead`) and then, proof after proof, through `evaluate`: the ways not
to evaluate (`NoBytes`, `DecodeFails`, `FloatRefused`, `KernelGivesNothing`), the kernel
pass, one `RunGate` or `SkipGate` per entry of `kPipeline`, `InternalError` at any point,
and `Decide`. The vendored rules are external: the kernel pass gives `ws` (near-pins and
credit units as numbers around their thresholds, the rest as verdicts), the sunset call
one result that both of its gates read, the anti-parrot rule its verdict. `V4Ruleset5Tier`
is `Ruleset5Tier`; its price sentinel is only taken for a rejecting near-pin count.
Texts, timing and the two prices of the ruleset-5 measurement are left out.

### PowSampler

One call of `_pow_forward` is a walk of `phase` through registration (`Register`),
eviction (`PreEvict`), a row per sequence (`EnsureRow`), admission (`Admit`, a grind that
succeeds or is exhausted), sampling with the hash of the step (`Sample`), the ends of
sequences (`CheckEos`), the proof checks (`CheckPow`, with `ProcessSolutionPython` or
`ProcessSolutionCpp`) and `Cleanup`. The engine (external) chooses a batch before each
call (`Schedule`), or runs one without mining requests (`PlainStep`); `TimePasses` makes
caches old enough to be cleaned up. A token is its place in the text of its request, or
`Foreign` where the engine kept another one than the sampler recorded. A nonce is the
window that it was ground for, a hash the tier it reaches. `rb` has a record per row of
the ring buffers with both copies of what is kept on device and host. `out` is what this
call handed over: the sequence, the parameters and the completion id a proof was built
with. `cfg` is the environment of the process and its `max_num_seqs`, which is the number of
rows (`runtime_info.py:233`); the host fast path is one of its switches.

### PowMath, PowV3, Setup, PowCases

Pure functions beside what they must agree with, evaluated on one bounded input per
state. `PowMath` has compact targets in a small base, with truncation and the word that is shifted when it
would set the sign bit (words that are negative or overflow are left out);
the comparison of a digest with a target; the full masks and the compact path with its
margin. `PowV3` has the messages an admission is ground over (SHA-256 taken as
injective), the masses in fixed point between doubles, credit and tiers over a table that
is a parameter, and `extra_flags` as an object with its keys, once or twice, size and depth. `Setup` has the forty
patches in their order, each with the targets it brings and the replacements it cuts;
`runtime_info` over the ways a configuration can name its precision, flavour and
revision; and the link matrix with the choice of a parallel mode.

### Egress, Bridge, PowPipeline

`Egress` is the queue between the sampler's thread and the writer's; a proof is queued
by reference, so that its mark is that of the moment it is serialized (`Message`).
`Bridge` has the supervisor (`sup`), the drain thread (`drain`) and the dispatch workers
(`requests`). `send()` holds the lock during the write: the lock is taken exactly while
`sending` is not `None`, and a write ends well or by `SO_SNDTIMEO`. `job_by_req` is a
sequence in order of insertion, as the dict is, with the clean and the pruning of
`on_notify`. `PowPipeline` joins them: `WriteProof` is the engine that finishes a window
of a dispatched request, `HandOver` one call of the submitter, `DrainRecv` the PULL socket.

### InputBatch, ModelRunner

A batch is a record, each method of `InputBatch` an operator on it (`add_request`,
`remove_request`, `condense`, `swap_states`, the repair of asynchronous ids). Everything
of a row that is copied whole is one tag of the request it was written for; the token
buffer, counters, generator and mask are apart, because the methods treat them
differently. `ModelRunner` takes a plan of the scheduler (external; `Plan`, `Legal`) with
new, resumed, continued, left-out and chunked requests, brings the batch up to date
(`UpdateStates`), gathers the input ids with those of the last step from the device
(`InputIds`), and books the samples (`SampleTokens`, `PpReceive` on an earlier rank). A
token is named by its request, incarnation and place, so that one that turns up in a
wrong place is seen. Four histories serve the exceptions of the properties only: `left` and `unknown` of
a request in `sched`, `unmasked` and `torn` of the batch. `SamplerView` is what the sampler and the prompt scores of a row
are computed from.

### Requests, ToolStream, Serving

A body is one record for the three endpoints; an optional field is a set. Validators
are operators on it. `Serving` follows one request: `Validate`, `Create` (one engine
request per prompt, with dictionaries by identity in `heap`, because the code shares
them), then the engine (external) which generates for the lanes in any order, fails or
dies, with outputs merged when they are not taken in time, and the generators
(`TakeResult`, `ChatOutput`, `CompletionOutput`, `EndStream`, `Respond`). `ToolStream` has
the required-tool extractor of the repository; reasoning and automatic tool parsers are
external and modelled by their contract. A token is a class with its place and lane. Whether the
engine tells a prompt's ids and text with every result or with the first only, as the comment at
`completion/serving.py:319` has it, is a setting of the engine (`details`); `known` are the prompts that
were told of. `failed` stands for every assertion of the two endpoints about what the engine and the
parsers gave.

## 3. Runs

All constants that are bounds say so where they are declared. States are distinct ones.

| Run | Checks | Bounds, and why they are enough |
|---|---|---|
| `sampler_pool` | `TypeOK`, `NoWorkerOutlivesCall`, `ResultIsExact`, `CallsReturn`, `ImplementsSampleStep` | 4 streams on 3 groups (1, 1 and 2 streams), 2 calls: a failing group next to a slow and a finished one, then a second call with everything left over from the first |
| `stratum_client` | `SharesAccounted`, `SessionsAreClean`, `ClientLives` | 2 submitters, 2 shares, 2 sessions, 2 pools of which one is down, one line on the wire, a tag table of 1 that overflows |
| `poi_miner` | `ProofsAreTrue`, `WindowsArePure` | 2 groups, windows of 2 tokens, prompts of 1 and 2 tokens, 3 jobs on 2 parents in any order with 3 announcements: two have the request id 0 that a pool's job gets by default, one has a pool VDF without a tick, one a tick hint, one neither; one proof, one refused step, a request table of one that is cut down; 3 927 202 states |
| `mining` | `NothingLost`, `PromptsDense`, `MiningEnds` | 2 workers, 2 submitters; a rig with jobs of two seeds and paired batches, and one with a job for a foreign model, 2 shares and no seeds; up to 2 failed batches in a row (the abort); 216 369 states |
| `window_engine` | `SamplerSeesItsStep`, `CallsAreWhole` | 3 calls of 3-step windows in each of the 12 configurations: a first, a middle and a last step, and a call after a call that failed anywhere |
| `precheck` | `MaskIsLastMention`, `VerdictsAreExact` | lists of up to 3 items over 4 gates, `all`, `none`, removals, blanks and unknown names; thresholds 1 and 2 for credit, 0 and 2 for near-pins, heights 0 to 2 with ruleset 5 at 2, so that each comparison is met on both sides and at equality |
| `pow_sampler` | `RowsAreSound`, `WindowsArePure`, `NonceAdmitsOneWindow`, `CopiesAgree`, `FastpathProofsAreOwn`, `AuditIsKept` | three requests (mining with a share target, audited with a chunked prompt, greedy chat) in three processes: with the host fast path and with the C++ assembler on 2 rows, so that rows are evicted and reused, and with the default settings on 3, so that an end comes before two others of its batch; windows of 2, so that a text of 4 fills one and begins another; 4 sequence ids, so that a request is registered again; 5.4 million states |
| `pow_sampler_shift` | `ProofsAreOwn` is violated | three mining requests with a row each, settings left at their defaults |
| `pow_cases` | `TargetsAreConsensus`, `SamplesTheReference`, `NeverOverCredits`, `AdmissionBindsPrefix`, `NonceSurvivesCarrier`, `StartsSound` | bytes of two bits, so that targets of one to four bytes are met; all logits of 4 tokens over 3 values with a support of 2 and a margin of 3 (ties inside, at and outside the margin); all pairs of bounds between fixed-point values; prefixes around the window length; flags at both limits, with a key once and twice; every start situation, served as the repository, a path or an alias; 7 178 states |
| `pow_pipeline` | `ChannelsApart`, `LabelNotOlder`, `PipelineLives` | queue, socket and job table of one entry each, so that all of them overflow; 2 jobs under 2 request ids, 2 connections, one proof, in 3 environments; 156 992 states. Any sizes are covered by the proofs |
| `model_runner` | `OutputsAreText`, `SamplerSeesOwn`, `PromptScoresWhole`, `BatchIsOwn` | three requests on three rows, prompts of 1 and 2, 1 or 2 tokens generated, one id used twice, one event out of the ordinary (preemption, abort, continuation, a request left out), in 4 ways to run a worker, each with chunked prompts; 424 483 states |
| `serving` | `IdsAreOwn`, `AdmittedServable`, `FinishesRight`, `AnswersAgree` | about a thousand bodies around a plain one per endpoint, each family varying the fields that the code reads together; two lanes for chat and four for completions; texts with reasoning, two tool calls and a required list of two tools; prompts told with every result and with the first only, prompts of embeddings, parallel tool calls on and off; 476 672 states |

`CHECK_DEADLOCK FALSE` is set where the program ends (the pool is destroyed, the client
is stopped, the process exits, a request is answered) or a bound stops it; `poi_miner` and
`pow_pipeline` run with the deadlock check. Most properties are conjunctions of named
parts, one per thing that can go wrong, with the comment of each part beside it.

The finding in `PROJECT.json` is that of `pow_sampler_shift`: without the host fast path,
which is off by default, `check_pow_solutions` pairs the rows of the batch with its
sequences by position after dropping the sequences that have no row any more, and a
proof is built from one sequence's window with another's parameters. With the fast
path the same property holds (`FastpathProofsAreOwn`).

### Fairness

* `SamplerPool!FairSpec`: the threads of the pool and the mining thread inside a call
  are scheduled; nothing makes the mining thread call again or destroy the pool, except
  that a destruction that has begun goes on.
* `StratumClient!FairSpec`: the client's own threads are scheduled and the pool reads its
  end of the connection. Nothing is assumed of the pool's answers or of how long a
  connection lasts. Without the second assumption `submit` may block for ever.
* `Mining!FairSpec`: workers, submitters and the main thread are scheduled. The signal
  and the pool's announcements are never forced.
* `PowPipeline!FairSpec`: threads that can run do run; who waits for the bridge's lock,
  which is free again and again, gets it in the end (strong fairness); a write ends, well or by
  the `SO_SNDTIMEO` that `connect` sets. Nothing is assumed of the pool, and in local mode
  nothing of the Core Node.

## 4. What the models showed besides

Facts about the code that the models contain and that a property above therefore has to
leave room for. Unless it says otherwise each is a step or a value of the model.

C++ miner:

* request ids start again with each session while the tag table survives: after a
  reconnect a result can be attributed to another GPU (`SharesAccounted` speaks of tags
  within the first session only);
* `submit` writes with the mutex held and blocks with a pool that does not read, though
  its comment calls it non-blocking;
* after a partial failure of `set_job` the groups work on different jobs;
* a share whose proof comes back after `set_job` has the label of a later job when that job has the same
  request id, and `request_id` is 0 whenever a pool leaves it out (`stratum.cpp:203`); the comment
  at `poi.cpp:511` says that delayed output is never relabelled. Its `vdf_tick` is that of the job
  installed now (`poi.cpp:525`);
* `vdf_tick_` is assigned before `Vdf::prove` is tried (`poi.cpp:268`). When that fails, the group keeps the
  VDF of before with the new tick, and a later job on the old parent reuses the VDF and sends that tick;
* a pool VDF that comes without a tick is sent with the tick 1000, whatever it proves;
* a window goes on over an abandoned batch when the next prompt is longer than the context was:
  `on_logits` takes a context that grew for the next step (`poi.cpp:439`), and the proof has
  steps of two batches in it (`WindowsArePure` has the exception);
* shares are taken from the sampler pools only after a batch that succeeded. Those of a worker whose last
  batch failed are lost when the process stops (`NothingLost` has the exception);
* around a seed change a worker that has begun its batch draws numbers of the new period for the old seed,
  so that a pair `(seed, w)` can be derived twice and others never, against the comment at
  `main.cpp:1079` (`PromptsDense` excepts the draws of such workers, and no others);
* with the near-pin gate masked off, a window of 175 or more near-pins is rejected by the
  ruleset-5 tier without being counted as one.

PoW sampler and bridge:

* what `pow_sampler_shift` finds reaches audits: after an end in the batch the default path takes the next
  sequence's row, and when that is an audited request's, its window is mined with under the parameters
  of a mining request (`AuditNeverMines` excepts exactly the sequences behind an end, `Shifted`);
* a version 2 proof carries the completion id of the proof before it (`Completion`); a
  request without a share target is checked against the one last seen;
* flags that grow above 4096 bytes by the merge lose the nonce for a verifier;
* a proof whose job was cleaned out or pruned is submitted under the current job
  (`LabelNotOlder` allows a later job, never an earlier one), and every share with the tick of the
  current job, also when its label is an earlier one (`bridge:319`); the bridge submits audits
  like shares; what a full queue drops is only counted;
* a write that fails takes the bridge's writer away, and nothing is submitted until the
  reader notices that the connection is dead;
* a model that is served under an alias, or from a path without a name, is stamped into every proof under that alias
  or path, though the comment at `runtime_info.py:215` wants the repository id (`Renamed`);
* an unpinned revision that is read offline gives the commit `unknown`, or that of
  another model with the same prefix;
* a second pass of the patch script over a patched tree applies patch 2 again and stops at 3.
  `CMakeLists.txt` copies the sources afresh first.

Model runner and endpoints:

* a request left out of a step in the middle of its prompt loses the prompt
  log-probabilities gathered so far (`PromptScoresWhole` has the exception);
* `condense` does not clear the mask of allowed tokens in the row that it empties, and a
  later request of that row without a mask of its own is sampled under it as long as some
  request has one (`SamplerSeesOwn` speaks of the requests that have a mask);
* `swap_states` exchanges the masks of allowed tokens by a tuple assignment of two views of one
  tensor (`gpu_input_batch.py:646-653`), so that both rows end with the mask of the second; the note at
  line 579 calls the same form unsafe for the token buffer. The request of the first row is sampled
  under another's mask from then on (`SamplerSeesOwn` excepts the requests it happened to,
  `unmasked`; without the exception TLC violates it);
* on an earlier rank with asynchronous scheduling a row that moves while its text is computed in chunks
  leaves the rest of it behind (`torn`), and a request that is forced to start over before its first token has
  arrived is fed the id -1 (`unknown`): `BatchIsOwn` excepts the tokens of these requests (`Misfed`),
  and TLC violates it without either exception. Which of two rows is the first in a swap is up to
  the reordering function, which is not part of this repository;
* one tool parser is shared by the choices of a request; deltas of several tokens lose
  content beside tools; a required list that is cut off finishes differently in a stream
  (`FallsShort` lists what `AnswersAgree` leaves out);
* an engine error before the first token is swallowed; a completion with `max_tokens`
  null fails an assertion of the generator, as does an echo of embeddings that have no text;
* with echo a choice of a streamed completion begins with the prompt, taken from the choice's own first output.
  If the engine tells the prompt with the first result only, an assertion fails for a choice whose first
  output comes later (`completion/serving.py:336`);
* a named tool is asserted to be called (`chat_completion/serving.py:1419`), but an answer that is all reasoning has
  no content to call it with;
* with parallel tool calls off the full answer of harmony keeps all calls, because it leaves the loop before the filter
  (`chat_completion/serving.py:1382`), where the stream keeps those numbered 0; and the deltas of a named tool are
  numbered by choice (`:829`), so that a stream has no call in any choice but the first (`FallsShort`);
* a beam search that asks for log-probabilities is admitted, `BeamSearchParams` is made
  without them, and the generator asserts that they came back: whether they do is up to
  upstream's beam search (`beams_scored` is either). The run had no such body until the
  proof of `RequestsServable` asked for it (`AdmittedServable` names the five cases: these three assertions, the null `max_tokens`, the embeddings).

## 5. Proofs

### PowPipelineProofs

For every set of environments that satisfies `EnvironmentsAssumption`, every size of the
queue, the socket and the job table, and any number of workers, jobs, connections and proofs:

* `PipelineInvariance`: `Spec => []IInv`;
* `ChannelsApartHolds` and `LabelNotOlderHolds`: the two invariants of the run `pow_pipeline`.

`ChannelsApart` speaks of the wire only. `ChannelInv` adds what is still to be handed
over (`TodoSound`: in broker mode an audit call is made only for an audit, because broker mode
excludes the proxy), what is queued (`QueueSound`), what the writer holds
(`HoldingSound`) and that in broker mode only audits are marked (`MarksTrue`): together they
say that the mark of a queued proof no longer changes, although it is set in place.
`LabelNotOlder` speaks of the drain thread only. `LabelInv` adds that there is a current job as soon as the table
has an entry, none of it newer, and that the table holds
nothing older than the current job, a request or a proof of the same request id
(`Kept`): the job of a request was entered before the request was made, and
`RememberEntries` shows that `on_notify` leaves under an id nothing but the new job,
whatever is cleaned or pruned. The assumptions are `PruneAssumption` (a number is pruned)
and `NoneAssumption` (`None` is no job).

### StratumClientProofs

For any submitters, pools, numbers of sessions and shares, room in the connection and sizes
of the tag table that satisfy `ClientAssumption`:

* `ClientInvariance`: `Spec => []Inv`;
* `SharesAlwaysAccounted` and `SessionsAlwaysClean`: the two invariants of the run
  `stratum_client`.

`Inv` has four parts. `Types` adds to `TypeOK` that a thread inside `send` has a line to
send. `Sessions` says that a job on its way from the pool has its target before it
or already read, which is what makes `job.target = job.session` inductive; it needs that a new session
starts with an empty receive buffer. `Books` gives every share number one place
(`HandsApart`, `RestApart`, at most once in each) and makes the counters the sizes of what was
submitted and answered, so that answers cannot exceed submissions. `FirstSession` says that
until ids start again share `n` has the id `n + 2`, because nothing is submitted before the first
job and no job comes before the handshake has set `next_id`; that the tag table holds true
tags; and that while it never overflowed it has the tag of every share still unanswered.
That `SelectInSeq` finds the entry rests on the least element of a set of numbers
(`LeastExists`, from the well-founded minimum of the library).

### PoiMinerProofs

For any number of groups, sequences, jobs and announcements, any window and sizes of the tables:

* `ProofsTrue`: `Spec => []ProofsAreTrue`;
* `WindowsPure`: `Spec => []WindowsArePure`.

Nothing is assumed of request ids, prompts or the pool's VDFs: the exceptions are in the properties.
`RowsTrue` says that as long as a group remembers a context length for a row, the row has the installed
parameters from its start and that length is no shorter than the prompt it was opened with. So a
batch whose prompt is not longer opens a new window at its first step, wherever the batch
before was abandoned (`InBatch`). `Installed` says what a ready group holds: parameters whose VDF is over their
job's parent (`Good`) and a request table that has this job under its id (`Filed`). `TickKnown` ties the tick
to the VDF in every group that is not in doubt. `SentTrue` and `PendingTrue` carry this through the
egress socket and the queue: while a proof is on its way its request id leads to its own job
or to one installed since.

### MiningProofs: the process

For any number of workers and submitters, any jobs and any mode of the precheck:

* `SharesNeverLost`: `Spec => []NothingLost`;
* `CounterDense`: `Spec => []PromptsDense`, for any seeds in any order.

`Control` says who may still be at work at each point of the shutdown: `HandsFull`, `ShutdownOrder`
and `NoLostWakeup` (shares wait with every submitter asleep only while a worker is about to notify). `Books`
says that a share is in a worker's sampler pools, in the queue, with a submitter or decided, in exactly
one of them, that only a worker whose last batch failed ends with some in its pools, that all numbers up to `found` are somewhere, and that the precheck counters are the cardinalities of
what was decided. `Periods` says which numbers were drawn since each change of the counter's seed, and by
whom: those below `canary_w` in the present period, no gap in an earlier one, and for a
foreign seed only by a worker that began before the change. `MiningAssumption` includes that there is a
submitter (`main.cpp` starts at least one).

### MiningProofs: the pre-submit check

* `MaskExact`: `PrecheckSpec => []MaskIsLastMention`, for a gate list of any length. The invariant is the property
  for the part of the list that was read (`ReadSoFar`).
* `VerdictsExact`: `PrecheckSpec => []VerdictsAreExact`, for every height, mask and setting. `PassedSoFar` says
  that no enabled gate before the current one was against the proof, which needs that the shared
  sunset result is computed once and kept. `RejectsExactly` and `Tiers` relate a gate's code to the
  rule that it stands for.

### WindowEngineProofs: the engine

For every window length and number of batches:

* `StepsSeen`: `EngineSpec => []SamplerSeesItsStep`;
* `CallsWhole`: `EngineSpec => []CallsAreWhole`.

A context may still hold the decodes of a call that failed. The invariant does not follow them: it
speaks of the output that a context will have when it has caught up (`Final`) and whether
the host will have the same (`HostCurrent`), which no step of the GPU changes. `SingleCall`,
`PromptsOfTwo` and `Alternation` give for each point of a generator how many tokens each batch has
sampled and each context holds; `HostCopyRestored` and `WholeWindows` are kept by every way out.

### WindowEngineProofs: the sampler pool

For every number of streams and groups, every split that satisfies `PoolAssumption` and
every bound on the calls:

* `TypeCorrect`: `Spec => []TypeOK`;
* `Invariance`: `Spec => []IInv`;
* `NoWorkerOutlivesCallHolds` and `ResultIsExactHolds`: two of the invariants of the
  run `sampler_pool`;
* `Refinement`: `Spec => ImplementsSampleStep`.

Neither invariant is inductive. That a worker is inside the call follows only if one
knows for every worker how its `seen`, `done[g]` and the global `gen` stand to each
other at each place of the mining thread, and that a successful result is complete
only if one knows which streams a worker in each position has written. `IInv` adds these:
`Positions` says that outside the wait all workers are quiet (`seen = done = gen`), and
inside it each one is pending, busy or quiet; `Inputs` says which call the published
and the held buffers belong to; `Tokens` says what `out` holds for a group that is
pending, sampling or through, and that `step_ok` is false only when some group left
a stream without a token. `SplitFacts` (the groups' ranges cover the streams) is the
one fact taken from the split. The
step lemmas are one per thread: `MiningThreadStep` and `WorkerStep`.

### PowSamplerProofs

For every set of requests, rows and configurations, every window length and prompt: `RowsSafe`,
`WindowsPure`, `NoncesAdmitOneWindow`, `CopiesAlwaysAgree`, `FastpathProofsOwn` and `AuditKept`, the
six invariants of the run `pow_sampler`. The invariant has three layers, each kept under
the ones before:

* `RInv`: the types; that rows are partitioned into free and held ones and the tables of ids
  refer to each other (`Tables`); and what a phase of `_pow_forward` may count on
  (`Calls`). `RowsSuffice` is the heart: while `ensure_rows` goes through the batch, there are at
  least as many free rows as sequences that still need one, which is shown by counting
  sets (`RowCount`, `BatchFitsFreeRows`, `NewBeforeCounts`, `NeedCounts`), so the deque is never popped empty. That an
  eviction finds a victim is a minimal-counterexample argument (`MostStepsExists`).
* `Buffers`: what the slots of a row hold for the sequence that has it, with the arithmetic of
  the ring for any window length (`DivModSucc`, `ModWrap`, `Rotation`); when a nonce is there
  (`BoundaryNonce`); and that host and device copies agree (`Mirrored`, `TailOfArchive`).
* `Proofs`: what was handed to the submitter, and which audited windows are through in the
  current check (`AuditedSoFar`). A sequence without a row in the walk has ended (`RowlessEnded`); so
  up to the first end of the batch the k-th row is the k-th sequence's (`UnshiftedRow`, counted again),
  and a proof made there is of its own window (`OwnProof`) on the default path too.

### PowCasesProofs

For every target, base of a byte, hash length, window, token width, tolerance and credit table
that satisfy `MathAssumption`, `MessageAssumption` and `TableAssumption` (the table starts at
its one, never rises and stays above 0):

* `CreditsNeverOver`: `Spec => []NeverOverCredits`;
* `NonceSurvives`: `Spec => []NonceSurvivesCarrier`;
* `AdmissionBinds`: `Spec => []AdmissionBindsPrefix`;
* `TargetsConsensus`: `Spec => []TargetsAreConsensus`.

The algorithms are recursive functions over the numbers. The library's theorem that such a
definition is a solution of its equation takes an operator as a parameter, so it is shown
here for steps inside of a set (`IterationExists`), from the least counterexample
(`LeastExists`, `Induction`), and then for each function: `SearchDef`, `ShiftedDef`,
`PlaceDef`, `NumberDef`. Credits: `Turn` says that a turn of the bisection keeps an entry
that qualifies below `lo` and one that does not above `hi`, and `Middle` that it gets
shorter; `CreditIsLargest` is the code's docstring, and with `MassCovers` (the mass rounds
up by more than the tolerance) no step earns more than its true mass. Preimages:
`JoinCancels` takes equal messages apart into equal parts when the parts have a fixed width,
and `LEFacts` tells tokens of `Width` bytes apart. Targets: `PacksAlways` says that a compact
word gives back its target but for less than one unit of its exponent, whatever the sign bit did to
the word (`PacksShort`, `PacksLong`, `DropByte`), and `FirstDecides` that the loop over the
bytes of a digest decides as the comparison of the two numbers does.

### ServingProofs

For any bodies and server configurations that satisfy `InputAssumption` (the fields are there
and of their types), any texts that satisfy `TextAssumption` (a model that has to call a
tool does call one), any number of prompts and choices, and any room in the model:

* `IdsOwn`: `Spec => []IdsAreOwn`;
* `RequestsServable`: `Spec => []AdmittedServable`;
* `StreamsFinish`: `Spec => []FinishesRight`.

`IdsOwn` follows the loop that prepares one engine request per prompt: after each turn the heap
has the dictionaries of the prompts so far and no others (`Closed`, `Prepared`), hence a
dictionary with an id in it is never written for a second prompt. `RequestsServable` rests on
`LogprobsAsked`: what the generator will assert is what the sampling parameters asked of the
engine, and on `Echoes`: until the first output of its choice was taken an unechoed prompt is either
untold or told by the result at hand, which takes that a request with one choice per prompt has one lane per
prompt (`OneChoice`). `FinishInv` is the invariant of a stream. `EngineOK`: what a lane has made is a beginning
of its text, and a lane that stopped made all of it. `ResOK`: of one result each lane
has at most one output left, which carries the finish reason unless newer tokens are pending; before
the first result there is none. `CountOK`: what was made is what the generator counted, what is left
of the result and what is pending. `LaneOK` and `ChunkOK`: a lane is over when it has ended and
nothing of it is left, and then, and only then, has a chunk finished it. `ToolOK`: a call is
known to the parser or to the lane exactly when a chunk has told it, so that
`tool_calls` is never the reason without one. `Calling`: a required list is in the full text, after
the reasoning.

### How the invariants were found

Each inductive invariant was first checked by TLC, part by part, on the constants of its run, and then
proved. Where a proof did not close, the invariant was too weak (`FinishInv` first lacked that
nothing is left of a result before the first one, and that a lane makes no more than its text), or,
once, the property was wrong: `AdmittedServable` did not hold of a beam search with
log-probabilities, which is now in the run's inputs and in section 4.
A leaf that takes its prover long says so (`SMTT(30)`, `ZenonT(30)`).
Some models were restated so that the prover can read them: `NeverTwice` says of the places of a share
that any two are the same one, where it counted them with a fold; the modules of `PowCases` and
`Serving` have recursive functions where they had RECURSIVE operators and folds; the outputs of a
result that are still to be worked through are a set (`res`), taken in the order of their choices by
`NextOutput`, where they were a sorted sequence; and what `Precheck` and `WindowEngine` share in name with
the modules that their proofs are beside got names of its own (`PrecheckSpec`, `EngineSpec`).

### Only model-checked

* Liveness: `PipelineLives`, `CallsReturn`, `ClientLives`, `MiningEnds`. Fairness and
  ENABLED are beyond the prover.
* The invariants of `ModelRunner` (`OutputsAreText`, `SamplerSeesOwn`, `PromptScoresWhole`, `BatchIsOwn`).
  `RemoveAll`, `condense` and the reordering are folds over a set or a sequence of rows; what they compute for every
  batch takes an induction over data that the provers cannot be given.
* `Serving`'s `AnswersAgree`: both answers are put together by folds over deltas of any
  text, for the same reason.
* `PowCases`' `SamplesTheReference`: sorted rows and sums of weights, again by induction over
  data; and `StartsSound`, whose start situations are finitely many, so that TLC already goes
  through all of them.

## 6. Not modelled

* C++: option parsing, report lines and the benchmark modes of `main.cpp`; the numeric
  code (CUDA kernels, credit score, the vendored rules behind the precheck's gates, VDF);
  the tuning table; the API; device control; loading of the model, `generate_window` and
  the prefix prefill of the engine; `PoiMiner::init` with its port scan; vendored code;
  packaging.
* Arithmetic: compact words that are negative or overflow, the `ValueError`s of malformed ones, and
  `adjust_nbits_by_multiplier`. The price of a window's state in the ruleset-5 tier is missing only for a window
  without credit, which is below the floor anyway, and is not modelled.
* PoW sampler: the asynchronous admission, which nothing calls; `POW_DEFER_HOST`;
  floating-point rounding; the generated credit table (a parameter of `PowV3`); the C++
  proof processor behind its Python call (external); FlatBuffers, generated or field by field.
* Model runner: attention metadata, CUDA graphs, KV-cache set-up, multimodal inputs,
  prompt embeddings, LoRA, pooling, speculative decoding, logits processors, warm-up and
  profiling. They are most of the file, upstream's, and nothing of the miner depends on them.
* Endpoints: response types, harmony message parsing, beam-search output, the batched
  chat endpoint, the serving of `responses` after its sampling parameters, audio and
  images, texts of errors.
* Statistics, logging and debugging dumps everywhere.

## 7. Plan

Done: the sampler pool with its abstract specification, the stratum client, the miner, the
mining process, the engine, the pre-submit check, the PoW sampler with its arithmetic and start, the
pipeline from job to submit, the batch and the model runner, the endpoints; proofs of the
invariants of all of these but the model runner. Next:

1. Proofs: facts about `ModelRunner` that need no induction, such as what one move of a row
   keeps; that `lane` in `Serving` tells each token once, as a step towards `AnswersAgree`.
2. Device control: partial failure of `apply_tuning` and `restore_all`.
3. `PoiMiner`: the port scan with the nonce partition of several processes; `Mining`: model and job as two messages.
