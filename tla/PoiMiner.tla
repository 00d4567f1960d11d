------------------------------ MODULE PoiMiner ------------------------------
(***************************************************************************)
(* From a pool job to a labelled share (src/src/poi.cpp, src/src/main.cpp):*)
(* the mining thread of one worker copies the current job, fans it out to  *)
(* the PoiMiners of its sampler pool (set_job, with its VDF), generates a  *)
(* batch of windows through on_logits, and takes the shares whose proofs   *)
(* came back over the loopback egress.  The coordinator (which keeps a row *)
(* per sequence and emits a proof when a window closes) and the egress     *)
(* socket are external.                                                    *)
(*                                                                         *)
(* SamplerPool shows that a sample_step is all or nothing for its caller,  *)
(* so the groups' on_logits calls of one step run here in any order.  A    *)
(* token context is its length; a VDF is the parent and tick it proves.    *)
(***************************************************************************)
EXTENDS Integers, Sequences, FiniteSets

CONSTANTS
    NGroups,        \* PoiMiners of the pool
    Seqs,           \* sequence ids of each PoiMiner
    Jobs,           \* what the pool announces, in any order
    Window,         \* window_tokens_: 256
    PromptLens,     \* lengths of a prompt in tokens
    SelfVdfTick,    \* --vdf-tick, 0 when it is not given
    DefaultTick,    \* kDefaultSelfVdfTick: 315000
    NormativeTick,  \* 1000, for a pool VDF without a tick
    MaxJobs,        \* 16: job_by_req larger than this ...
    KeepJobs,       \* 8: ... is cut down to this
    MaxSwitches,    \* bound: announcements
    MaxProofs,      \* bound: proofs emitted
    MaxRefused      \* bound: steps refused by the sampler

Groups == 1 .. NGroups

\* A job: its id, request id and parent, the tick of the VDF that the pool sent
\* with it (0 when it sent none) and the tick that it sent (0 when it sent none).
ASSUME MinerAssumption ==
    /\ NGroups \in Nat \ {0}
    /\ \A j \in Jobs : /\ j.id \in Nat \ {0} /\ j.req \in Nat /\ j.parent \in Nat \ {0}
                       /\ j.pool_vdf \in Nat /\ j.pool_tick \in Nat
    /\ Window \in Nat \ {0} /\ PromptLens \subseteq Nat \ {0}
    /\ SelfVdfTick \in Nat /\ DefaultTick \in Nat \ {0} /\ NormativeTick \in Nat \ {0}
    /\ KeepJobs \in Nat \ {0} /\ MaxJobs \in Nat /\ KeepJobs <= MaxJobs
    /\ MaxSwitches \in Nat /\ MaxProofs \in Nat /\ MaxRefused \in Nat

NoJob == [id |-> 0, req |-> 0, parent |-> 0, pool_vdf |-> 0, pool_tick |-> 0]
NoVdf == [parent |-> 0, tick |-> 0]
NoParams == [job |-> NoJob, vdf |-> NoVdf, tick |-> 0, doubt |-> FALSE]

\* A row: its parameters and steps and, as history, the parameters and the prompt
\* length it was opened with, whether an earlier batch opened it and whether a batch
\* went on with it that had no longer prompt.
NoRow == [params |-> NoParams, steps |-> 0,
          under |-> NoParams, first |-> 0, stale |-> FALSE, mixed |-> FALSE]

VARIABLES
    cur_job,        \* main.cpp: what on_job stored last
    switches,       \* how many jobs were announced
    wpc,            \* where the mining thread is
    j,              \* mining thread: its copy of cur_job
    fan,            \* mining thread: the group whose set_job is next
    prompt,         \* engine: prompt length of each sequence of the batch
    at,             \* engine: step of the window, from 0
    todo,           \* sequences not sampled in this step
    bad,            \* groups whose part of this step failed
    ready,          \* ready_, per group, as everything down to pending_q
    job,            \* impl_->job, with job_id_
    vdf_hex,        \* vdf_hex_ and parent_hash_hex_, which are set together
    vdf_tick,       \* vdf_tick_
    params,         \* impl_->params
    job_by_req,     \* impl_->job_by_req: its entries, one per request id
    last_ctx,       \* impl_->last_ctx, per sequence, 0 when absent
    prompt_len,     \* impl_->prompt_len, per sequence
    row,            \* external: the coordinator's row of each sequence
    egress,         \* external: proofs on their way to zmq_pull
    pending_q,      \* impl_->pending_q
    emitted,        \* history: how many proofs the coordinators emitted
    refused,        \* history: how many steps were refused
    torn,           \* history: groups whose last set_job failed
    doubt           \* history: groups whose VDF was given a tick that need not be its own

worker == <<wpc, j, fan, prompt, at, todo, bad>>
install == <<ready, job, vdf_hex, vdf_tick, params, job_by_req>>
windows == <<last_ctx, prompt_len, row>>
out == <<egress, pending_q, emitted>>
past == <<refused, torn, doubt>>
vars == <<cur_job, switches, worker, install, windows, out, past>>

All == Groups \X Seqs
PerGroup(v) == [g \in Groups |-> v]
PerSeq(v) == [q \in Seqs |-> v]

Init ==
    /\ cur_job = NoJob /\ switches = 0
    /\ wpc = "look" /\ j = NoJob /\ fan = 1
    /\ prompt = [u \in All |-> 0] /\ at = 0 /\ todo = {} /\ bad = {}
    /\ ready = PerGroup(FALSE) /\ job = PerGroup(NoJob)
    /\ vdf_hex = PerGroup(NoVdf) /\ vdf_tick = PerGroup(0) /\ params = PerGroup(NoParams)
    /\ job_by_req = PerGroup({})
    /\ last_ctx = PerGroup(PerSeq(0)) /\ prompt_len = PerGroup(PerSeq(0))
    /\ row = PerGroup(PerSeq(NoRow))
    /\ egress = PerGroup(<<>>) /\ pending_q = PerGroup(<<>>)
    /\ emitted = 0
    /\ refused = 0 /\ torn = {} /\ doubt = {}

-----------------------------------------------------------------------------
(* The pool and the mining loop.                                           *)

\* on_job, on the network thread, at any time; the same job again changes nothing.
Announce(n) ==
    /\ switches < MaxSwitches /\ n # cur_job
    /\ cur_job' = n
    /\ switches' = switches + 1
    /\ UNCHANGED <<worker, install, windows, out, past>>

\* The head of the loop: copy the job; install it unless the pool (its first
\* group) has it.
Look ==
    /\ wpc = "look"
    /\ cur_job # NoJob
    /\ j' = cur_job
    /\ fan' = 1
    /\ wpc' = IF ~ready[1] \/ job[1].id # cur_job.id THEN "install" ELSE "prompt"
    /\ UNCHANGED <<cur_job, switches, prompt, at, todo, bad, install, windows, out, past>>

\* The local variables of the loop's body go out of scope.
EndOfTurn == j' = NoJob /\ fan' = 1

-----------------------------------------------------------------------------
(* SamplerPool::set_job: PoiMiner::set_job for group after group.          *)

\* Does the self-prove path need a new proof?
ProveNeeded(g) == vdf_hex[g].parent # j.parent \/ vdf_hex[g] = NoVdf

SelfTick == IF SelfVdfTick # 0 THEN SelfVdfTick
            ELSE IF j.pool_tick # 0 THEN j.pool_tick ELSE DefaultTick
PoolTick == IF j.pool_tick # 0 THEN j.pool_tick ELSE NormativeTick
PoolVdf == [parent |-> j.parent, tick |-> j.pool_vdf]

\* What set_job makes of the VDF: the value, the tick, FALSE when Vdf::prove failed,
\* which happens after vdf_tick_ was assigned.  The VDF is in doubt when its tick need
\* not be its own: the pool sent it with another tick or with none, or it is kept
\* because the proof of the next one failed.
VdfStep(g) ==
    IF j.pool_vdf # 0
    THEN {IF PoolVdf # vdf_hex[g]
          THEN [vdf |-> PoolVdf, tick |-> PoolTick, ok |-> TRUE, doubt |-> PoolTick # j.pool_vdf]
          ELSE [vdf |-> vdf_hex[g], tick |-> vdf_tick[g], ok |-> TRUE, doubt |-> g \in doubt]}
    ELSE IF ProveNeeded(g)
    THEN {[vdf |-> [parent |-> j.parent, tick |-> SelfTick], tick |-> SelfTick, ok |-> TRUE,
           doubt |-> FALSE],
          [vdf |-> vdf_hex[g], tick |-> SelfTick, ok |-> FALSE, doubt |-> TRUE]}
    ELSE {[vdf |-> vdf_hex[g], tick |-> vdf_tick[g], ok |-> TRUE, doubt |-> g \in doubt]}

VdfDone(g, v) ==
    /\ vdf_hex' = [vdf_hex EXCEPT ![g] = v.vdf]
    /\ vdf_tick' = [vdf_tick EXCEPT ![g] = v.tick]
    /\ doubt' = IF v.doubt THEN doubt \cup {g} ELSE doubt \ {g}

\* last_ctx.clear(): every sequence starts a new window.
Cleared(g) == last_ctx' = [last_ctx EXCEPT ![g] = PerSeq(0)]

\* A proof on its way when set_job runs is overtaken, by the job that is installed
\* too when that one has its request id (history).
Late(p, next) ==
    [p EXCEPT !.overtaken = TRUE, !.next = @ \cup {k \in next : k.req = p.params.job.req}]
Overtaken(g, next) ==
    egress' = [egress EXCEPT ![g] = [n \in DOMAIN egress[g] |-> Late(egress[g][n], next)]]

\* VDF or update_pow_params failed: this group keeps its job, the groups after it
\* are not tried, and the mining loop starts over.
InstallFails ==
    /\ wpc = "install"
    /\ Cleared(fan) /\ Overtaken(fan, {})
    /\ \E v \in VdfStep(fan) : VdfDone(fan, v)
    /\ torn' = torn \cup {fan}
    /\ wpc' = "look" /\ EndOfTurn
    /\ UNCHANGED <<cur_job, switches, prompt, at, todo, bad, ready, job, params,
                   job_by_req, prompt_len, row, pending_q, emitted, refused>>

\* What may be left of the request table: the hash order decides which entries
\* of other jobs go.
Survivors(table) ==
    IF Cardinality(table) <= MaxJobs THEN {table}
    ELSE LET own == {e \in table : e.id = j.id}
         IN {kept \in SUBSET table :
               /\ own \subseteq kept
               /\ kept = own \/ Cardinality(kept) = KeepJobs
               /\ Cardinality(kept) >= KeepJobs}

\* The table with the new job in it, under its request id.
Entered(g) == {e \in job_by_req[g] : e.req # j.req} \cup {j}

InstallOk ==
    LET g == fan
    IN /\ wpc = "install"
       /\ Cleared(g) /\ Overtaken(g, {j})
       /\ \E v \in VdfStep(g) :
            /\ v.ok
            /\ VdfDone(g, v)
            /\ params' = [params EXCEPT ![g] = [job |-> j, vdf |-> v.vdf, tick |-> v.tick,
                                                 doubt |-> v.doubt]]
       /\ row' = [row EXCEPT ![g] = [q \in Seqs |-> [@[q] EXCEPT !.params = params'[g]]]]
       /\ \E kept \in Survivors(Entered(g)) : job_by_req' = [job_by_req EXCEPT ![g] = kept]
       /\ job' = [job EXCEPT ![g] = j]
       /\ ready' = [ready EXCEPT ![g] = TRUE]
       /\ torn' = torn \ {g}
       /\ IF g = NGroups THEN wpc' = "prompt" /\ UNCHANGED fan
                         ELSE fan' = g + 1 /\ UNCHANGED wpc
       /\ UNCHANGED <<cur_job, switches, j, prompt, at, todo, bad, prompt_len,
                      pending_q, emitted, refused>>

-----------------------------------------------------------------------------
(* A batch of windows.                                                     *)

\* The engine gets a prompt for every sequence and decodes it.  A row that the
\* coordinator still has is, from now on, left over from an earlier batch.  A batch
\* whose prompts cannot be decoded touches nothing of this module and is left out.
StartBatch(lens) ==
    /\ wpc = "prompt"
    /\ prompt' = lens
    /\ at' = 0 /\ todo' = All /\ bad' = {}
    /\ row' = [g \in Groups |-> [q \in Seqs |-> [row[g][q] EXCEPT !.stale = TRUE]]]
    /\ wpc' = "step"
    /\ UNCHANGED <<cur_job, switches, j, fan, install, last_ctx, prompt_len, out, past>>

\* on_logits before ready_: the group's part of the step fails.
NotReady(g) ==
    /\ wpc = "step" /\ g \notin bad
    /\ \E q \in Seqs : <<g, q>> \in todo
    /\ ~ready[g]
    /\ bad' = bad \cup {g}
    /\ UNCHANGED <<cur_job, switches, wpc, j, fan, prompt, at, todo, install, windows,
                   out, past>>

Ctx(g, q) == prompt[<<g, q>>] + at

\* A window starts when the context stops growing.  Mutation: when it shrinks.
Shrinks(g, q) == last_ctx[g][q] = 0 \/ Ctx(g, q) < last_ctx[g][q]
NewWindow(g, q) == last_ctx[g][q] = 0 \/ Ctx(g, q) <= last_ctx[g][q]

\* The row that on_logits samples into: a new one, with the installed params,
\* or the one the coordinator has.
RowFor(g, q) ==
    IF NewWindow(g, q)
    THEN [NoRow EXCEPT !.params = params[g], !.under = params[g], !.first = prompt[<<g, q>>]]
    ELSE row[g][q]
PromptLenFor(g, q) ==
    IF NewWindow(g, q) THEN Ctx(g, q) ELSE prompt_len[g][q]
Steps(g, q) == Ctx(g, q) - PromptLenFor(g, q) + 1

\* The row with one more step in it.
Recorded(g, q) ==
    LET r == RowFor(g, q)
    IN [r EXCEPT !.steps = @ + 1, !.mixed = @ \/ (r.stale /\ prompt[<<g, q>>] <= r.first)]

\* The context is a window long, but the row is not at the end of one.
Broken(g, q) == Steps(g, q) >= Window /\ Recorded(g, q).steps % Window # 0

\* The sampler refuses the step.  A token outside the vocabulary retires the
\* sequence, an exception (check_solutions on a broken window is one) does not.
\* In both cases nothing is drained.
OnLogitsFails(g, q) ==
    /\ wpc = "step" /\ g \notin bad /\ <<g, q>> \in todo /\ ready[g]
    /\ \/ Broken(g, q) /\ UNCHANGED refused
       \/ ~Broken(g, q) /\ refused < MaxRefused /\ refused' = refused + 1
    /\ bad' = bad \cup {g}
    /\ prompt_len' = [prompt_len EXCEPT ![g][q] = PromptLenFor(g, q)]
    /\ \/ /\ last_ctx' = [last_ctx EXCEPT ![g][q] = 0]
          /\ row' = [row EXCEPT ![g][q] = NoRow]
       \/ /\ last_ctx' = [last_ctx EXCEPT ![g][q] = Ctx(g, q)]
          /\ \E r \in {RowFor(g, q), Recorded(g, q)} : row' = [row EXCEPT ![g][q] = r]
    /\ UNCHANGED <<cur_job, switches, wpc, j, fan, prompt, at, todo, install, out,
                   torn, doubt>>

\* Which job a proof is filed under: the one it names.  Mutation: the current one.
CurrentJob(g, proof) == {job[g]}
Origin(g, proof) == {e \in job_by_req[g] : e.req = proof.params.job.req}

\* The share a received proof gives.  The tick is the one installed now.
SharesOf(g, proof) ==
    {[job |-> e, proof |-> proof, tick |-> vdf_tick[g]] : e \in Origin(g, proof)}

\* The egress is read once, without waiting: a proof sent before may not have
\* arrived.  One that did is dropped when its request is unknown, and when it has
\* too little credit.
Drain(g, sent) ==
    \/ /\ egress' = [egress EXCEPT ![g] = sent]
       /\ UNCHANGED pending_q
    \/ /\ sent # <<>>
       /\ egress' = [egress EXCEPT ![g] = Tail(sent)]
       /\ \/ UNCHANGED pending_q
          \/ \E s \in SharesOf(g, Head(sent)) :
                pending_q' = [pending_q EXCEPT ![g] = Append(@, s)]

\* What a full row gives: its parameters and its history.
ProofOf(r, g) ==
    [params |-> r.params, under |-> r.under, mixed |-> r.mixed,
     overtaken |-> g \in torn, next |-> {}]

\* A step of a window: sample, record, and when the context is a window long check,
\* emit and retire; then drain the egress.
OnLogits(g, q) ==
    LET r == Recorded(g, q)
        full == Steps(g, q) >= Window
    IN /\ wpc = "step" /\ g \notin bad /\ <<g, q>> \in todo /\ ready[g]
       /\ ~Broken(g, q)
       /\ todo' = todo \ {<<g, q>>}
       /\ prompt_len' = [prompt_len EXCEPT ![g][q] = PromptLenFor(g, q)]
       /\ last_ctx' = [last_ctx EXCEPT ![g][q] = IF full THEN 0 ELSE Ctx(g, q)]
       /\ row' = [row EXCEPT ![g][q] = IF full THEN NoRow ELSE r]
       /\ \/ /\ Drain(g, egress[g])
             /\ UNCHANGED emitted
          \/ /\ full /\ emitted < MaxProofs
             /\ emitted' = emitted + 1
             /\ Drain(g, Append(egress[g], ProofOf(r, g)))
       /\ UNCHANGED <<cur_job, switches, wpc, j, fan, prompt, at, bad, install, past>>

\* Every group is through with the step.
StepDone == \A u \in todo : u[1] \in bad

NextToken ==
    /\ wpc = "step" /\ StepDone /\ bad = {}
    /\ at + 1 < Window
    /\ at' = at + 1
    /\ todo' = All
    /\ UNCHANGED <<cur_job, switches, wpc, j, fan, prompt, bad, install, windows, out, past>>

\* The engine's local variables go out of scope.
EndOfBatch ==
    /\ prompt' = [u \in All |-> 0]
    /\ at' = 0 /\ todo' = {} /\ bad' = {}

\* The sampler or, between two steps, the decoder failed: the batch is abandoned
\* and the loop starts over.  Shares that are pending stay there.
BatchFails ==
    /\ wpc = "step" /\ StepDone
    /\ wpc' = "look"
    /\ EndOfBatch /\ EndOfTurn
    /\ UNCHANGED <<cur_job, switches, install, windows, out, past>>

\* All windows are complete: the shares go to the submit queue.
BatchDone ==
    /\ wpc = "step" /\ StepDone /\ bad = {}
    /\ at + 1 = Window
    /\ pending_q' = PerGroup(<<>>)
    /\ wpc' = "look"
    /\ EndOfBatch /\ EndOfTurn
    /\ UNCHANGED <<cur_job, switches, install, windows, egress, emitted, past>>

WorkerStep ==
    \/ Look \/ InstallFails \/ InstallOk
    \/ \E lens \in [All -> PromptLens] : StartBatch(lens)
    \/ \E g \in Groups : NotReady(g)
    \/ \E u \in All : OnLogitsFails(u[1], u[2]) \/ OnLogits(u[1], u[2])
    \/ NextToken \/ BatchFails \/ BatchDone

Next == WorkerStep \/ \E n \in Jobs : Announce(n)

Spec == Init /\ [][Next]_vars

-----------------------------------------------------------------------------
(* Properties.                                                             *)

Job == Jobs \cup {NoJob}
Vdf == [parent : Nat, tick : Nat]
Params == [job : Job, vdf : Vdf, tick : Nat, doubt : BOOLEAN]
Row == [params : Params, steps : Nat,
        under : Params, first : Nat, stale : BOOLEAN, mixed : BOOLEAN]
Proof == [params : Params, under : Params, mixed : BOOLEAN,
          overtaken : BOOLEAN, next : SUBSET Jobs]
Share == [job : Job, proof : Proof, tick : Nat]

TypeOK ==
    /\ cur_job \in Job /\ switches \in 0 .. MaxSwitches
    /\ wpc \in {"look", "install", "prompt", "step"}
    /\ j \in Job /\ fan \in Groups
    /\ prompt \in [All -> Nat] /\ at \in 0 .. Window - 1
    /\ todo \subseteq All /\ bad \subseteq Groups
    /\ ready \in [Groups -> BOOLEAN] /\ job \in [Groups -> Job]
    /\ vdf_hex \in [Groups -> Vdf] /\ vdf_tick \in [Groups -> Nat]
    /\ params \in [Groups -> Params]
    /\ job_by_req \in [Groups -> SUBSET Jobs]
    /\ last_ctx \in [Groups -> [Seqs -> Nat]] /\ prompt_len \in [Groups -> [Seqs -> Nat]]
    /\ row \in [Groups -> [Seqs -> Row]]
    /\ egress \in [Groups -> Seq(Proof)] /\ pending_q \in [Groups -> Seq(Share)]
    /\ emitted \in 0 .. MaxProofs
    /\ refused \in 0 .. MaxRefused /\ torn \subseteq Groups /\ doubt \subseteq Groups

\* The shares of a group that wait to be handed to the submit queue, and all its
\* proofs, on their way or in such a share.
Shares(g) == {pending_q[g][i] : i \in DOMAIN pending_q[g]}
ProofsOf(g) == {egress[g][i] : i \in DOMAIN egress[g]} \cup {s.proof : s \in Shares(g)}

\* The comment at the drain: delayed output is never relabelled as work for the
\* current job.  A share carries the job and the tick that its window was sampled
\* under, however many jobs were installed since, unless set_job ran between the
\* window and its arrival.  Then its tick may be that of the other job, and its job
\* a later one, which is one that the pool gave the same request id.
LabelledByOrigin ==
    \A g \in Groups : \A s \in Shares(g) :
        LET origin == s.proof.params.job
        IN /\ ~s.proof.overtaken => s.job = origin /\ s.tick = s.proof.params.tick
           /\ s.job = origin \/ s.job \in s.proof.next

\* The VDF of a proof is over the parent that its own header names, through pool
\* VDFs, reused proofs, jobs that return to an earlier parent and failed proves.
\* Its tick is that of the VDF unless the pool sent this VDF with another tick (or
\* with none: 1000), or the group held it while the proof of another VDF failed.
VdfOverItsParent ==
    \A g \in Groups : \A p \in ProofsOf(g) :
        /\ p.params.vdf.parent = p.params.job.parent
        /\ p.params.tick = p.params.vdf.tick \/ p.params.doubt

\* The comment at the window test in on_logits: every window has a row of its own.
\* The parameters that a proof states are those its window was opened with, whatever
\* was installed or refused in between, and its steps are of one batch, unless each
\* batch that went on with the row had a longer prompt than the one that opened it:
\* then the context grew over an abandoned batch and no new window was seen.
WindowsArePure ==
    \A g \in Groups : \A p \in ProofsOf(g) : p.params = p.under /\ ~p.mixed

\* What a proof says of itself is true, over job switches, reused VDFs, failed
\* installs and abandoned batches, with exactly the exceptions named at the parts:
\* its label is the job it was sampled under, its VDF is over that job's parent and
\* its tick is the VDF's.
ProofsAreTrue == TypeOK /\ LabelledByOrigin /\ VdfOverItsParent
=============================================================================
