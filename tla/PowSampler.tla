----------------------------- MODULE PowSampler -----------------------------
(***************************************************************************)
(* The proof-of-work sampler of the vLLM miner: _pow_forward of            *)
(* PowTopKTopPSampler and CommonSamplerHelper, over the RowManager, the    *)
(* RingBuffers, the PowHasher and the ProofWriter of pow_utils.            *)
(*                                                                         *)
(* One call of the sampler is a walk through the phases of _pow_forward:   *)
(*   register -> evict -> rows -> admit -> sample -> eos -> pow -> cleanup *)
(* with a position in the batch for the phases that are loops.  Between    *)
(* two calls time passes and the engine (external) picks the next batch.   *)
(*                                                                         *)
(* Data.  A token is its position in the text of its request, Foreign when *)
(* the engine kept another token than the one the sampler recorded, and    *)
(* Pad for the zeros of a fresh context ring.  A nonce is the window it    *)
(* was ground for.  A hash is the tier it reaches: 0 nothing, 1 the share  *)
(* target, 2 the block target (a block hash is also a share).              *)
(***************************************************************************)
EXTENDS Integers, Sequences, FiniteSets

CONSTANTS
    Reqs,       \* the requests the engine serves
    PowReqs,    \* the ones whose extra_args hold "pow"
    ShareReqs,  \* the ones whose pow payload holds a share target
    AuditReqs,  \* the ones whose pow payload holds audit_emit
    GreedyReqs, \* the ones with temperature 0
    ChunkedReqs,\* the ones whose prompt takes one more prefill step
    Rows,       \* rows that the ring buffers may have
    RowOrder,   \* their order: a process has the first max_concurrency of them
    W,          \* POW_WINDOW_SIZE
    Configs,    \* settings of the process, max_concurrency (rows) among them
    PromptLen,  \* length of every prompt
    MaxTokens,  \* bound: longest text of a request, prompt included
    MaxSid,     \* bound: sequence ids handed out
    None

Sids == 0 .. MaxSid - 1

Foreign == -1
Pad == 0

ASSUME SetsAssumption ==
    /\ PowReqs \subseteq Reqs /\ ShareReqs \subseteq PowReqs
    /\ AuditReqs \subseteq PowReqs /\ GreedyReqs \subseteq Reqs
    /\ ChunkedReqs \subseteq Reqs
ASSUME SizesAssumption ==
    /\ W \in Nat \ {0} /\ PromptLen \in Nat \ {0}
    /\ MaxTokens \in Nat /\ MaxSid \in Nat
ASSUME NoneAssumption == None \notin Reqs \cup Rows \cup Int
ASSUME RowOrderAssumption ==
    /\ \A c \in Configs : c.rows \in 0 .. Len(RowOrder)
    /\ RowOrder \in Seq(Rows)
    /\ \A r \in Rows : \E k \in 1 .. Len(RowOrder) : RowOrder[k] = r
    /\ \A j, k \in 1 .. Len(RowOrder) : RowOrder[j] = RowOrder[k] => j = k

VARIABLES
    \* the engine (external)
    text,       \* req -> tokens of its text computed so far, prompt included
    \* one call of the sampler
    phase, batch, sids, eos, at,
    \* the sampler's tables
    req_id_to_sid, next_sid,
    seq_params, \* sid -> the request whose parameters were recorded
    seq_caches, \* sid -> archive, context ring
    stale,      \* sids whose last_updated is more than max_age old
    \* RowManager
    seqid_to_row, free_rows,
    \* RingBuffers, a record per row
    rb,
    \* PowHasher.share_target and ProofWriter.model_config_diff: whose they are
    share_target, config_diff,
    \* the settings, and what this call handed to the submitter
    cfg, out

call == <<batch, sids, eos>>
tables == <<req_id_to_sid, next_sid, seq_params, seq_caches, stale>>
rowman == <<seqid_to_row, free_rows>>
vars == <<text, phase, batch, sids, eos, at, req_id_to_sid, next_sid,
          seq_params, seq_caches, stale, seqid_to_row, free_rows, rb,
          share_target, config_diff, cfg, out>>

-----------------------------------------------------------------------------
(* RingBuffers.                                                            *)

EmptySlot == [sid |-> None, idx |-> None, params |-> None, nonce |-> None, tok |-> None]

(* A row after clear_row: the step counter with its host mirror, the pow   *)
(* parameters, the admission nonce with its host flag, and the window.     *)
EmptyRow == [steps |-> 0, steps_host |-> 0, params |-> None,
             nonce |-> None, nonce_host |-> FALSE,
             slots |-> [j \in 0 .. W - 1 |-> EmptySlot]]

GetPosition(row) == rb[row].steps % W

(* The nonce that enters the hash of a row: read from the device when the  *)
(* host flag says that there is one.                                       *)
RowNonce(row) == IF rb[row].nonce_host THEN rb[row].nonce ELSE None

(* Mutant: a boundary without a new nonce leaves the old one. *)
KeepAdmissionNonce(ring, nonce) ==
    IF nonce = None THEN ring ELSE [ring EXCEPT !.nonce = nonce, !.nonce_host = TRUE]

WriteAdmissionNonce(ring, nonce) ==
    [ring EXCEPT !.nonce = nonce, !.nonce_host = (nonce /= None)]

(* Mutant: written one past the position. *)
WriteNextSlot(ring, slot) ==
    [ring EXCEPT !.slots[(ring.steps + 1) % W] = slot]

WriteSlot(ring, slot) ==
    [ring EXCEPT !.slots[ring.steps % W] = slot]

(* write_pow_params, called for a request with a pow snapshot only. *)
WritePowParams(ring, req) ==
    IF req \in PowReqs THEN [ring EXCEPT !.params = req] ELSE ring

(* Mutant: the mirror is forgotten. *)
IncrementDeviceSteps(ring) == [ring EXCEPT !.steps = @ + 1]

IncrementSteps(ring) ==
    [ring EXCEPT !.steps = @ + 1,
                 !.steps_host = IF cfg.fastpath THEN @ + 1 ELSE @]

(* get_window: from the oldest slot to the newest one. *)
GetWindow(row) == [j \in 1 .. W |-> rb[row].slots[(GetPosition(row) + j - 1) % W]]

-----------------------------------------------------------------------------
(* The cache of a sequence.                                                *)

NewCache(req) ==
    LET tail == IF PromptLen < W THEN PromptLen ELSE W
    IN  [archive |-> [n \in 1 .. PromptLen |-> n],
         ring |-> [j \in 0 .. W - 1 |->
                     IF j < tail THEN PromptLen - tail + j + 1 ELSE Pad],
         ring_pos |-> tail % W]

UpdateCache(c, tok) ==
    [archive |-> Append(c.archive, tok),
     ring |-> [c.ring EXCEPT ![c.ring_pos] = tok],
     ring_pos |-> (c.ring_pos + 1) % W]

(* get_context_windows: the ring from its write cursor on. *)
ContextWindow(c) == [j \in 1 .. W |-> c.ring[(c.ring_pos + j - 1) % W]]

-----------------------------------------------------------------------------
(* RowManager.free_row and free_sequence: give the row back, clear it,     *)
(* forget the sequence.                                                    *)

FreeRow(row) == IF row = None THEN free_rows ELSE Append(free_rows, row)

(* Mutant: the row is not given back. *)
ForgetSequence(sid) ==
    LET row == seqid_to_row[sid]
    IN  /\ seqid_to_row' = [seqid_to_row EXCEPT ![sid] = None]
        /\ rb' = IF row = None THEN rb ELSE [rb EXCEPT ![row] = EmptyRow]
        /\ seq_caches' = [seq_caches EXCEPT ![sid] = None]
        /\ seq_params' = [seq_params EXCEPT ![sid] = None]
        /\ stale' = stale \ {sid}
        /\ req_id_to_sid' = [q \in Reqs |->
                IF req_id_to_sid[q] = sid THEN None ELSE req_id_to_sid[q]]
        /\ UNCHANGED free_rows

FreeSequence(sid) ==
    LET row == seqid_to_row[sid]
    IN  /\ seqid_to_row' = [seqid_to_row EXCEPT ![sid] = None]
        /\ free_rows' = FreeRow(row)
        /\ rb' = IF row = None THEN rb ELSE [rb EXCEPT ![row] = EmptyRow]
        /\ seq_caches' = [seq_caches EXCEPT ![sid] = None]
        /\ seq_params' = [seq_params EXCEPT ![sid] = None]
        /\ stale' = stale \ {sid}
        /\ req_id_to_sid' = [q \in Reqs |->
                IF req_id_to_sid[q] = sid THEN None ELSE req_id_to_sid[q]]

Goto(p) == /\ phase' = p /\ at' = 1

-----------------------------------------------------------------------------
(* The engine: external, as the sampler is called by it.                   *)

Init ==
    /\ text = [q \in Reqs |-> IF q \in ChunkedReqs THEN PromptLen - 1 ELSE PromptLen]
    /\ phase = "idle" /\ at = 1
    /\ batch = <<>> /\ sids = <<>> /\ eos = {}
    /\ req_id_to_sid = [q \in Reqs |-> None]
    /\ next_sid = 0
    /\ seq_params = [s \in Sids |-> None]
    /\ seq_caches = [s \in Sids |-> None]
    /\ stale = {}
    /\ seqid_to_row = [s \in Sids |-> None]
    /\ cfg \in Configs
    /\ free_rows = SubSeq(RowOrder, 1, cfg.rows)
    /\ rb = [r \in Rows |-> EmptyRow]
    /\ share_target = None /\ config_diff = None
    /\ out = {}

InBatch(b) == {b[k] : k \in 1 .. Len(b)}

(* Sampler.sample with at least one request that carries pow and at least  *)
(* one that is not greedy: the whole batch goes through the PoW sampler.   *)
(* A request that is over is one that is not scheduled any more: nobody    *)
(* tells the sampler, its row stays.                                       *)
Schedule(b) ==
    /\ phase = "idle"
    /\ Len(b) <= cfg.rows
    /\ \A q \in InBatch(b) : text[q] < MaxTokens
    /\ InBatch(b) \cap PowReqs /= {}
    /\ ~ (InBatch(b) \subseteq GreedyReqs)
    /\ next_sid + Cardinality({q \in InBatch(b) : req_id_to_sid[q] = None}) <= MaxSid
    /\ batch' = b
    /\ Goto("register")
    /\ UNCHANGED <<text, sids, eos, tables, rowman, rb, share_target, config_diff,
                   cfg, out>>

(* A batch of greedy requests, or one without pow, never reaches it. *)
PlainStep(b) ==
    /\ phase = "idle"
    /\ b /= {}
    /\ \A q \in b : text[q] < MaxTokens
    /\ b \cap PowReqs = {} \/ b \subseteq GreedyReqs
    /\ text' = [q \in Reqs |-> IF q \in b THEN text[q] + 1 ELSE text[q]]
    /\ UNCHANGED <<phase, at, call, tables, rowman, rb, share_target,
                   config_diff, cfg, out>>

(* More than max_age and interval seconds pass between two calls. *)
TimePasses ==
    /\ phase = "idle"
    /\ stale' = {s \in Sids : seq_caches[s] /= None}
    /\ stale' /= stale
    /\ UNCHANGED <<text, phase, at, call, req_id_to_sid, next_sid, seq_params,
                   seq_caches, rowman, rb, share_target, config_diff, cfg, out>>

-----------------------------------------------------------------------------
(* _pow_forward.                                                           *)

(* Sequence ids and parameters for the requests met for the first time (or *)
(* again, after their sequence was freed), in the order of the batch.      *)
NewBefore(k) == Cardinality({j \in 1 .. k - 1 : req_id_to_sid[batch[j]] = None})

FirstPow == CHOOSE k \in 1 .. Len(batch) :
    /\ batch[k] \in PowReqs
    /\ \A j \in 1 .. k - 1 : batch[j] \notin PowReqs

(* The hasher's share target: a payload without one clears it. *)
UpdateFromPayload(req) == IF req \in ShareReqs THEN req ELSE None

Register ==
    /\ phase = "register"
    /\ sids' = [k \in 1 .. Len(batch) |->
                  IF req_id_to_sid[batch[k]] = None THEN next_sid + NewBefore(k)
                                                    ELSE req_id_to_sid[batch[k]]]
    /\ req_id_to_sid' = [q \in Reqs |->
          IF \E k \in 1 .. Len(batch) : batch[k] = q
          THEN sids'[CHOOSE k \in 1 .. Len(batch) : batch[k] = q]
          ELSE req_id_to_sid[q]]
    /\ seq_params' = [s \in Sids |->
          IF \E k \in 1 .. Len(batch) : sids'[k] = s
          THEN batch[CHOOSE k \in 1 .. Len(batch) : sids'[k] = s]
          ELSE seq_params[s]]
    /\ next_sid' = next_sid + NewBefore(Len(batch) + 1)
    /\ share_target' = UpdateFromPayload(batch[FirstPow])
    /\ Goto("evict")
    /\ UNCHANGED <<text, batch, eos, seq_caches, stale, rowman, rb,
                   config_diff, cfg, out>>

BatchSids == {sids[k] : k \in 1 .. Len(sids)}

Holders == {s \in Sids : seqid_to_row[s] /= None}

(* Most steps first, then the earliest allocated: sequence ids are handed  *)
(* out in the order in which rows are allocated.                           *)
Oldest(S) == CHOOSE s \in S : \A t \in S :
    LET a == rb[seqid_to_row[s]].steps
        b == rb[seqid_to_row[t]].steps
    IN  a > b \/ (a = b /\ s <= t)

Need == Cardinality({s \in BatchSids : seqid_to_row[s] = None})

(* Rows of sequences outside the batch are freed until the new sequences   *)
(* of the batch fit.                                                       *)
PreEvict ==
    /\ phase = "evict"
    /\ LET victims == Holders \ BatchSids
       IN  IF Need > Len(free_rows) /\ victims /= {}
           THEN /\ FreeSequence(Oldest(victims))
                /\ UNCHANGED <<phase, at>>
           ELSE /\ Goto("rows")
                /\ UNCHANGED <<req_id_to_sid, seq_params, seq_caches, stale, rowman, rb>>
    /\ UNCHANGED <<text, call, next_sid, share_target, config_diff, cfg, out>>

(* allocate_row: the row that has been free for longest. *)
AllocatedRow(free) == Head(free)

(* ensure_rows for one sequence: allocate_row, after freeing the oldest of *)
(* all sequences when there is no free row; clear the row, start the cache *)
(* and write the pow parameters.                                           *)
EnsureRow ==
    /\ phase = "rows" /\ at <= Len(sids)
    /\ LET sid == sids[at]
           full == free_rows = <<>>
           victim == IF full THEN Oldest(Holders) ELSE None
           free == IF full THEN FreeRow(seqid_to_row[victim]) ELSE free_rows
           row == AllocatedRow(free)
           req == seq_params[sid]
       IN  IF seqid_to_row[sid] /= None
           THEN UNCHANGED <<req_id_to_sid, seq_params, seq_caches, stale, rowman, rb>>
           ELSE /\ seqid_to_row' = [s \in Sids |-> CASE s = sid -> row
                                                     [] s = victim -> None
                                                     [] OTHER -> seqid_to_row[s]]
                /\ free_rows' = Tail(free)
                /\ rb' = [rb EXCEPT ![row] = WritePowParams(EmptyRow, req)]
                /\ seq_caches' = [s \in Sids |-> CASE s = sid -> NewCache(req)
                                                   [] s = victim -> None
                                                   [] OTHER -> seq_caches[s]]
                /\ seq_params' = [s \in Sids |-> IF s = victim THEN None ELSE seq_params[s]]
                /\ stale' = stale \ {victim, sid}
                /\ req_id_to_sid' = [q \in Reqs |->
                      IF req_id_to_sid[q] = victim THEN None ELSE req_id_to_sid[q]]
    /\ at' = at + 1
    /\ UNCHANGED <<text, phase, call, next_sid, share_target, config_diff, cfg, out>>

RowsReady ==
    /\ phase = "rows" /\ at > Len(sids)
    /\ Goto("admit")
    /\ UNCHANGED <<text, call, tables, rowman, rb, share_target, config_diff, cfg, out>>

Admits == cfg.admission = "always" /\ cfg.version >= 3

(* The sequences of the batch whose next token opens a window. *)
Boundary == {s \in BatchSids : GetPosition(seqid_to_row[s]) = 0}

(* The nonce of the window that row is about to open. *)
GroundNonce(sid) == <<sid, rb[seqid_to_row[sid]].steps \div W>>

(* ensure_admission_for_rows: the stale nonce of every boundary row goes,  *)
(* the rows with a pow snapshot grind, and the ones that find a nonce      *)
(* within max_tries store it.                                              *)
Admit(found) ==
    /\ phase = "admit"
    /\ found \subseteq {s \in Boundary : seq_params[s] \in PowReqs}
    /\ ~ Admits => found = {}
    /\ rb' = [r \in Rows |->
         IF Admits /\ \E s \in Boundary : seqid_to_row[s] = r
         THEN LET sid == CHOOSE s \in Boundary : seqid_to_row[s] = r
              IN  WriteAdmissionNonce(rb[r],
                      IF sid \in found THEN GroundNonce(sid) ELSE None)
         ELSE rb[r]]
    /\ Goto("sample")
    /\ UNCHANGED <<text, call, tables, rowman, share_target, config_diff, cfg, out>>

(* The token the sampler records for the request: its place in the text,   *)
(* or Foreign when the engine keeps another token (the greedy one) or none *)
(* (the rest of the prompt is still to be prefilled).                      *)
Recorded(q) ==
    IF text[q] < PromptLen \/ q \in GreedyReqs THEN Foreign ELSE text[q] + 1

(* batch_sample_tokens for the k-th row of the batch: the hash takes in    *)
(* the row's parameters and its nonce, and the step within the window.     *)
Hashed(k, r) ==
    [sid |-> sids[k], idx |-> GetPosition(r), params |-> rb[r].params,
     nonce |-> RowNonce(r), tok |-> Recorded(batch[k])]

(* batch_sample_tokens, update_caches, _write_buffers, increment_steps. *)
Sample(ended) ==
    /\ phase = "sample"
    /\ ended \subseteq BatchSids
    /\ rb' = [r \in Rows |->
         IF \E k \in 1 .. Len(sids) : seqid_to_row[sids[k]] = r
         THEN LET k == CHOOSE k \in 1 .. Len(sids) : seqid_to_row[sids[k]] = r
              IN  IncrementSteps(WriteSlot(rb[r], Hashed(k, r)))
         ELSE rb[r]]
    /\ seq_caches' = [s \in Sids |->
         IF s \in BatchSids /\ seq_caches[s] /= None
         THEN UpdateCache(seq_caches[s],
                  Recorded(batch[CHOOSE k \in 1 .. Len(sids) : sids[k] = s]))
         ELSE seq_caches[s]]
    /\ stale' = stale \ BatchSids
    /\ text' = [q \in Reqs |-> IF q \in InBatch(batch) THEN text[q] + 1 ELSE text[q]]
    /\ eos' = ended
    /\ Goto("eos")
    /\ UNCHANGED <<batch, sids, req_id_to_sid, next_sid, seq_params,
                   rowman, share_target, config_diff, cfg, out>>

(* check_eos: a sequence whose token is eos_token_id is freed at once. *)
CheckEos ==
    /\ phase = "eos" /\ at <= Len(sids)
    /\ IF sids[at] \in eos
       THEN FreeSequence(sids[at])
       ELSE UNCHANGED <<req_id_to_sid, seq_params, seq_caches, stale, rowman, rb>>
    /\ at' = at + 1
    /\ UNCHANGED <<text, phase, call, next_sid, share_target, config_diff, cfg, out>>

EosDone ==
    /\ phase = "eos" /\ at > Len(sids)
    /\ Goto("pow")
    /\ UNCHANGED <<text, call, tables, rowman, rb, share_target, config_diff, cfg, out>>

-----------------------------------------------------------------------------
(* check_pow_solutions and process_solution.                               *)

Prefix(archive) ==
    IF Len(archive) > W THEN SubSeq(archive, 1, Len(archive) - W) ELSE <<>>

(* write_proof: the version 3 carrier holds the completion id of this      *)
(* proof, the version 2 one the id that the previous proof left in         *)
(* model_config_diff.                                                      *)
(* Mutant: the id that the previous proof left, in every version. *)
PreviousCompletion(req) == config_diff

Completion(req) ==
    IF cfg.processor = "cpp" \/ cfg.version >= 3 THEN req ELSE config_diff

Proof(sid, row, to) ==
    [to |-> to, sid |-> sid, row |-> row, params |-> seq_params[sid],
     nonce |-> RowNonce(row), completion |-> Completion(seq_params[sid]),
     window |-> GetWindow(row),
     prefix |-> IF seq_caches[sid] = None THEN <<>> ELSE Prefix(seq_caches[sid].archive)]

check_solution(tier) == tier = 2

(* Against the share target of the snapshot, or else the one the hasher    *)
(* holds.                                                                  *)
check_share_solution(req, tier) ==
    tier >= 1 /\ (req \in ShareReqs \/ share_target /= None)

(* Where the proof of a window goes: the audit channel alone for a request *)
(* that asked for audit, else the audit channel when the proxy is on, and  *)
(* the node or the broker by the tier of its hash.                         *)
(* Mutant: no early return for audit. *)
RouteOn(audit_emit, is_solution, is_share) ==
    (IF cfg.proxy \/ audit_emit THEN {"audit"} ELSE {})
         \cup (IF is_solution THEN {"solution"} ELSE IF is_share THEN {"share"} ELSE {})

Route(audit_emit, is_solution, is_share) ==
    IF audit_emit THEN {"audit"}
    ELSE (IF cfg.proxy THEN {"audit"} ELSE {})
         \cup (IF is_solution THEN {"solution"} ELSE IF is_share THEN {"share"} ELSE {})

Emit(sid, row, to) == out' = out \cup {Proof(sid, row, t) : t \in to}

(* The Python assembler: nothing without a snapshot, nothing when the hash *)
(* reaches no tier and nobody audits; otherwise write_proof, which leaves  *)
(* the completion id in model_config_diff, and the submitter.              *)
ProcessSolutionPython(sid, row, tier) ==
    LET req == seq_params[sid]
        to == Route(req \in AuditReqs, check_solution(tier), check_share_solution(req, tier))
    IN  IF req \notin PowReqs \/ to = {}
        THEN UNCHANGED <<out, config_diff>>
        ELSE Emit(sid, row, to) /\ config_diff' = req

(* The C++ assembler gets the verdicts, both FALSE for an audit request,   *)
(* and routes the same way (external).                                     *)
ProcessSolutionCpp(sid, row, tier) ==
    LET req == seq_params[sid]
        audit_emit == req \in AuditReqs
        is_solution == check_solution(tier)
        is_share == check_share_solution(req, tier)
        emit_any == is_solution \/ is_share \/ audit_emit \/ cfg.proxy
    IN  /\ IF req \notin PowReqs \/ ~ emit_any
           THEN UNCHANGED out
           ELSE Emit(sid, row, Route(audit_emit, ~ audit_emit /\ is_solution,
                                     ~ audit_emit /\ is_share))
        /\ UNCHANGED config_diff

ProcessSolution(sid, row, tier) ==
    IF cfg.processor = "cpp" THEN ProcessSolutionCpp(sid, row, tier)
                             ELSE ProcessSolutionPython(sid, row, tier)

(* Of the first k sequences, those that have a row, and the k-th one that  *)
(* has.                                                                    *)
HeldUpTo(k) == Cardinality({j \in 1 .. k : seqid_to_row[sids[j]] /= None})

KthHeld(k) == CHOOSE j \in 1 .. Len(sids) :
    seqid_to_row[sids[j]] /= None /\ HeldUpTo(j) = k

(* The k-th row of the loop and the sequence it is taken for.  The host    *)
(* fast path walks the sequences.  The default path drops the sequences    *)
(* without a row from the rows, and then indexes the full list of          *)
(* sequences with the position in the shorter one.                         *)
Walked == IF cfg.fastpath THEN Len(sids) ELSE HeldUpTo(Len(sids))

CheckSid(k) == sids[k]

CheckRow(k) == seqid_to_row[sids[IF cfg.fastpath THEN k ELSE KthHeld(k)]]

AtBoundary(row) ==
    LET n == IF cfg.fastpath THEN rb[row].steps_host ELSE rb[row].steps
    IN  n > 0 /\ n % W = 0

CheckPow(tier) ==
    /\ phase = "pow" /\ at <= Walked
    /\ LET row == CheckRow(at)
       IN  IF row = None \/ ~ AtBoundary(row)
           THEN tier = 0 /\ UNCHANGED <<out, config_diff>>
           ELSE ProcessSolution(CheckSid(at), row, tier)
    /\ at' = at + 1
    /\ UNCHANGED <<text, phase, call, tables, rowman, rb, share_target, cfg>>

PowDone ==
    /\ phase = "pow" /\ at > Walked
    /\ Goto("cleanup")
    /\ UNCHANGED <<text, call, tables, rowman, rb, share_target, config_diff, cfg, out>>

(* cleanup_stale_sequences, one sequence at a time; then the call returns. *)
Cleanup ==
    /\ phase = "cleanup"
    /\ IF stale /= {}
       THEN /\ FreeSequence(CHOOSE s \in stale : \A t \in stale : s <= t)
            /\ UNCHANGED <<phase, at, call, out>>
       ELSE /\ Goto("idle")
            /\ batch' = <<>> /\ sids' = <<>> /\ eos' = {} /\ out' = {}
            /\ UNCHANGED <<req_id_to_sid, seq_params, seq_caches, stale, rowman, rb>>
    /\ UNCHANGED <<text, next_sid, share_target, config_diff, cfg>>

-----------------------------------------------------------------------------
Batches == {b \in UNION {[1 .. n -> Reqs] : n \in 1 .. Cardinality(Rows)} :
              \A j, k \in DOMAIN b : b[j] = b[k] => j = k}

Next ==
    \/ \E b \in Batches : Schedule(b)
    \/ \E b \in SUBSET Reqs : PlainStep(b)
    \/ TimePasses
    \/ Register \/ PreEvict \/ EnsureRow \/ RowsReady
    \/ \E found \in SUBSET Sids : Admit(found)
    \/ \E ended \in SUBSET Sids : Sample(ended)
    \/ CheckEos \/ EosDone
    \/ \E tier \in 0 .. 2 : CheckPow(tier)
    \/ PowDone \/ Cleanup

Spec == Init /\ [][Next]_vars

-----------------------------------------------------------------------------
(* Properties.                                                             *)

(* range(max_concurrency). *)
RowsInUse == {RowOrder[k] : k \in 1 .. cfg.rows}

(* Every row is either free, once in the deque, or held by one sequence:   *)
(* RowManager never leaks a row and never hands one out twice, whatever    *)
(* order evictions, ends of sequences and clean-ups come in.               *)
RowsPartition ==
    /\ \A s, t \in Sids : seqid_to_row[s] /= None /\ seqid_to_row[s] = seqid_to_row[t] => s = t
    /\ \A j, k \in 1 .. Len(free_rows) : free_rows[j] = free_rows[k] => j = k
    /\ \A r \in RowsInUse :
          (\E s \in Sids : seqid_to_row[s] = r)
             <=> ~ \E k \in 1 .. Len(free_rows) : free_rows[k] = r

(* The window of a held row was sampled, from slot 0 on, for the sequence  *)
(* that holds it, with that row's parameters: nothing of the previous      *)
(* holder is left in a row that was evicted and allocated again.           *)
WindowsArePure ==
    \A s \in Sids : seqid_to_row[s] /= None =>
       LET ring == rb[seqid_to_row[s]]
           written == IF ring.steps >= W THEN 0 .. W - 1 ELSE 0 .. ring.steps - 1
       IN  \A j \in 0 .. W - 1 :
              IF j \in written
              THEN ring.slots[j].sid = s /\ ring.slots[j].idx = j
                   /\ ring.slots[j].params = ring.params
              ELSE ring.slots[j] = EmptySlot

(* One nonce, ground for this window of this sequence, entered every hash  *)
(* of the window so far, or none did: a nonce never outlives its window,   *)
(* even when the next grind is exhausted, nor moves to the next holder.    *)
NonceAdmitsOneWindow ==
    \A s \in Sids : seqid_to_row[s] /= None =>
       LET ring == rb[seqid_to_row[s]]
           opened == (ring.steps - 1) \div W
       IN  ring.steps % W /= 0 =>
              /\ ring.nonce \in {None, <<s, opened>>}
              /\ \A j \in 0 .. (ring.steps % W) - 1 : ring.slots[j].nonce = ring.nonce

(* The host mirrors say what the device says: a mirror that drifted would  *)
(* skip windows or leave the nonce out of the hash.                        *)
MirrorsAgree ==
    \A r \in Rows : /\ cfg.fastpath => rb[r].steps_host = rb[r].steps
                    /\ rb[r].nonce_host <=> rb[r].nonce /= None

(* The context hashed for the next token is the tail of the archive that   *)
(* the proof will state, before and after the ring is full.                *)
ContextIsArchiveTail ==
    \A s \in Sids : seq_caches[s] /= None =>
       LET c == seq_caches[s]
           n == Len(c.archive)
       IN  \A j \in 1 .. W :
              ContextWindow(c)[j] = IF n - W + j >= 1 THEN c.archive[n - W + j] ELSE Pad

(* Once the rows are ready every sequence of the batch has one: the        *)
(* eviction before allocation never takes a row of the batch.              *)
BatchHasRows ==
    phase \in {"admit", "sample"} =>
       \A k \in 1 .. Len(sids) : seqid_to_row[sids[k]] /= None

(* With the host fast path every proof is about the sequence it names: the *)
(* window is that sequence's, sampled under the parameters the proof       *)
(* states and with the nonce and the completion id that it carries.        *)
ProofIsOwn(p) ==
    /\ p.params \in PowReqs
    /\ \A j \in 1 .. W : /\ p.window[j].sid = p.sid /\ p.window[j].idx = j - 1
                         /\ p.window[j].params = p.params
                         /\ p.window[j].nonce = p.nonce

FastpathProofsAreOwn ==
    cfg.fastpath => \A p \in out :
        ProofIsOwn(p) /\ (cfg.version >= 3 => p.completion = p.params)

(* The default path takes a later row for this sequence, because one       *)
(* before it in the batch ended in this call and has no row any more.      *)
Shifted(sid) ==
    /\ ~ cfg.fastpath
    /\ \E j, k \in 1 .. Len(sids) : j < k /\ sids[j] \in eos /\ sids[k] = sid

(* A window with a token that was sampled for a request that asked for     *)
(* audit goes to the audit channel and nowhere else, whoever the proof     *)
(* names; on the default path unless its row was taken for another         *)
(* sequence.  A proof in the name of such a request goes nowhere else even *)
(* then.                                                                   *)
AuditNeverMines ==
    \A p \in out :
       /\ p.params \in AuditReqs => p.to = "audit"
       /\ (\E j \in 1 .. W : p.window[j].params \in AuditReqs) /\ ~ Shifted(p.sid)
             => p.to = "audit"

(* At the end of a call with the fast path no finished window of the batch *)
(* with an audience was passed over: each sequence that audit reads has    *)
(* its proof.                                                              *)
AuditedWindowsProved ==
    phase = "cleanup" /\ cfg.fastpath =>
       \A k \in 1 .. Len(sids) :
          /\ seqid_to_row[sids[k]] /= None /\ seq_params[sids[k]] \in AuditReqs
          /\ rb[seqid_to_row[sids[k]]].steps % W = 0
          => \E p \in out : p.sid = sids[k]

(* What common_sampler_helper.py says of the snapshot: a proof is built    *)
(* from the parameters its window was sampled with, "required to avoid     *)
(* cross-request contamination".                                           *)
ProofsAreOwn == \A p \in out : ProofIsOwn(p)

(* Rows are neither leaked nor shared, and every sequence of a batch has   *)
(* one by the time it is sampled, however full the buffers are.            *)
RowsAreSound == RowsPartition /\ BatchHasRows

(* What is kept twice says the same: the host's mirrors and the device,    *)
(* the ring that is hashed and the archive that a proof states.            *)
CopiesAgree == MirrorsAgree /\ ContextIsArchiveTail

(* Audit and mining are kept apart: no audited window is mined with but by *)
(* the default path's shift, and with the fast path none is passed over.   *)
AuditIsKept == AuditNeverMines /\ AuditedWindowsProved
=============================================================================
