----------------------------- MODULE InputBatch -----------------------------
(***************************************************************************)
(* The worker's persistent batch (gpu_input_batch.py, class InputBatch):   *)
(* one row of state per running request, kept dense over the steps of the  *)
(* engine.  The module is a data type: a batch is a record and every       *)
(* method of the class an operator on it.  Rows are numbered from 1.       *)
(*                                                                         *)
(* Everything a row holds that is copied whole (temperature, top-k, top-p, *)
(* penalties, LoRA id, block table, accepted-token count) is one value,    *)
(* par: the tag of the request it was written for.  The token buffer, the  *)
(* counters, the generator and the allowed-token mask are kept apart,      *)
(* because the methods treat them differently.                             *)
(***************************************************************************)
EXTENDS Naturals, Sequences, FiniteSets, FiniteSetsExt, SequencesExt, Functions

CONSTANTS
    MaxReqs,      \* max_num_reqs: rows of the batch
    MaxLen,       \* max_model_len: tokens of a row
    None,         \* Python's None
    Placeholder   \* the token id -1 written before the sampled id is known

ASSUME InputBatchAssumption == MaxReqs \in Nat \ {0} /\ MaxLen \in Nat \ {0}

Rows == 1 .. MaxReqs

EmptyDict == [r \in {} |-> None]

Without(f, S) == [x \in DOMAIN f \ S |-> f[x]]

(* __init__: zeroed buffers, no request, nothing to report.                *)
EmptyBatch ==
    [ids |-> <<>>,                                        \* _req_ids
     index |-> EmptyDict,                                 \* req_id_to_index
     tok |-> [i \in Rows |-> [p \in 1 .. MaxLen |-> None]],  \* token_ids_cpu
     n |-> [i \in Rows |-> 0],                            \* num_tokens_no_spec
     np |-> [i \in Rows |-> 0],                           \* num_prompt_tokens
     nc |-> [i \in Rows |-> 0],                           \* num_computed_tokens_cpu
     par |-> [i \in Rows |-> None],
     gen |-> EmptyDict,                                   \* generators
     mask |-> [i \in Rows |-> None],       \* allowed_token_ids_mask_cpu_tensor
     allowed |-> {},                                      \* has_allowed_token_ids
     penal |-> {},                                        \* *_penalties_reqs
     extra |-> EmptyDict,                                 \* extra_args_by_req
     scores |-> EmptyDict,              \* in_progress_prompt_logprobs_cpu
     removed |-> {},                   \* batch_update_builder.removed
     changed |-> FALSE,                \* the builder has something to report
     prev |-> EmptyDict,               \* prev_req_id_to_index
     unmasked |-> {},    \* requests whose row took over another's mask (history)
     torn |-> {}]        \* requests whose row moved without its whole prompt (history)

NumReqs(b) == Cardinality(DOMAIN b.index)

(* _register_add_request: the smallest row left by a removal, else the row *)
(* behind the last one.                                                    *)
RegisterAdd(b) == IF b.removed # {} THEN Min(b.removed) ELSE NumReqs(b) + 1

(* add_request.  A row's tokens are written only up to the request's       *)
(* length, and the mask and the generator only when the request has one:   *)
(* what the row's former owner left elsewhere stays.                       *)
add_request(b, q) ==
    LET i == RegisterAdd(b)
        text == q.prompt \o q.out
    IN  [b EXCEPT
            !.ids = IF i = Len(@) + 1 THEN Append(@, q.id) ELSE [@ EXCEPT ![i] = q.id],
            !.index = (q.id :> i) @@ @,
            !.tok[i] = [p \in 1 .. MaxLen |-> IF p <= Len(text) THEN text[p] ELSE @[p]],
            !.n[i] = Len(text),
            !.np[i] = Len(q.prompt),
            !.nc[i] = q.nc,
            !.par[i] = q.tag,
            !.gen = IF q.seeded THEN (i :> q.tag) @@ @ ELSE @,
            !.mask[i] = IF q.allows THEN q.tag ELSE @,
            !.allowed = IF q.allows THEN @ \cup {q.id} ELSE @,
            !.penal = IF q.penal THEN @ \cup {q.id} ELSE @,
            !.extra = IF q.pow THEN (q.id :> q.tag) @@ @ ELSE @,
            !.removed = @ \ {i},
            !.changed = TRUE]

(* Changed for a check: the last step's rows still name the request.       *)
remove_keeps_prev(b, r) ==
    IF r \notin DOMAIN b.index THEN b ELSE
    LET i == b.index[r]
    IN  [b EXCEPT
            !.ids[i] = None, !.index = Without(@, {r}), !.gen = Without(@, {i}),
            !.mask[i] = None, !.allowed = @ \ {r}, !.penal = @ \ {r},
            !.extra = Without(@, {r}), !.scores = Without(@, {r}),
            !.removed = @ \cup {i}, !.changed = TRUE,
            !.unmasked = @ \ {r}, !.torn = @ \ {r}]

(* remove_request: an id that is not in the batch is ignored.  The row's   *)
(* tokens, counters and sampling parameters are left as they are.          *)
remove_request(b, r) ==
    IF r \notin DOMAIN b.index THEN b ELSE
    LET i == b.index[r]
    IN  [b EXCEPT
            !.ids[i] = None,
            !.index = Without(@, {r}),
            !.gen = Without(@, {i}),
            !.mask[i] = None,
            !.allowed = @ \ {r},
            !.penal = @ \ {r},
            !.extra = Without(@, {r}),
            !.scores = Without(@, {r}),
            !.removed = @ \cup {i},
            !.changed = TRUE,
            !.prev = Without(@, {r}),
            !.unmasked = @ \ {r},
            !.torn = @ \ {r}]

RemoveAll(b, S) == FoldSet(LAMBDA r, acc : remove_request(acc, r), b, S)

(* Only the longer of the two active token prefixes is exchanged.          *)
SwapTokens(b, i, j) ==
    LET m == Max({b.n[i], b.n[j]})
        merged(to, from) ==
            [p \in 1 .. MaxLen |-> IF p <= m THEN b.tok[from][p] ELSE b.tok[to][p]]
    IN  [b.tok EXCEPT ![i] = merged(i, j), ![j] = merged(j, i)]

Exchange(f, i, j) == [f EXCEPT ![i] = f[j], ![j] = f[i]]

(* swap_dict_values: a missing value is exchanged too.                     *)
ExchangeDict(f, i, j) ==
    LET other(k) == IF k = i THEN j ELSE IF k = j THEN i ELSE k
    IN  [k \in {other(x) : x \in DOMAIN f} |-> f[other(k)]]

(* The requests with tokens behind the active prefix of their row, which a *)
(* move leaves behind.  (A token says whose it is.)                        *)
Torn(b, S) ==
    {b.ids[i] : i \in {x \in S : \E p \in b.n[x] + 1 .. MaxLen :
        b.tok[x][p] \notin {None, Placeholder} /\ b.tok[x][p].of = b.par[x]}}

(* swap_states.  The masks are exchanged by a tuple assignment of two row  *)
(* views of one tensor: the second assignment reads what the first has     *)
(* written, and both rows end with the mask of j.                          *)
swap_states(b, i, j) ==
    [b EXCEPT
        !.ids = Exchange(@, i, j),
        !.index = (b.ids[i] :> j) @@ (b.ids[j] :> i) @@ @,
        !.tok = SwapTokens(b, i, j),
        !.n = Exchange(@, i, j),
        !.np = Exchange(@, i, j),
        !.nc = Exchange(@, i, j),
        !.par = Exchange(@, i, j),
        !.gen = ExchangeDict(@, i, j),
        !.mask = [@ EXCEPT ![i] = b.mask[j]],
        !.unmasked = @ \cup {b.ids[i]},
        !.torn = @ \cup Torn(b, {i, j}),
        !.changed = TRUE]

(* The body of condense's loop: the request of row "last" moves down into  *)
(* the empty row "to".  The mask of the row it leaves is not cleared.      *)
MoveDown(b, last, to) ==
    [b EXCEPT
        !.ids = [@ EXCEPT ![to] = b.ids[last], ![last] = None],
        !.index[b.ids[last]] = to,
        !.tok[to] = [p \in 1 .. MaxLen |->
                        IF p <= b.n[last] THEN b.tok[last][p] ELSE @[p]],
        !.n[to] = b.n[last],
        !.np[to] = b.np[last],
        !.nc[to] = b.nc[last],
        !.par[to] = b.par[last],
        !.gen = Without(IF last \in DOMAIN @ THEN (to :> @[last]) @@ @ ELSE @, {last}),
        !.mask[to] = b.mask[last],
        !.torn = @ \cup Torn(b, {last}),
        !.removed = @ \ {to},
        !.changed = TRUE]

(* One turn of the loop, or nothing once the smallest empty row lies       *)
(* behind the last occupied one.                                           *)
CondenseStep(b, turn) ==
    LET used == {i \in 1 .. Len(b.ids) : b.ids[i] # None}
    IN  IF used # {} /\ b.removed # {} /\ Min(b.removed) < Max(used)
        THEN MoveDown(b, Max(used), Min(b.removed))
        ELSE b

(* condense: rows close up and the lists are trimmed to the batch.         *)
condense(b) ==
    LET done == FoldLeft(CondenseStep, b, [k \in Rows |-> k])
    IN  IF b.removed = {} THEN b
        ELSE [done EXCEPT !.ids = SubSeq(@, 1, NumReqs(b))]

(* reorder_batch_to_split_decodes_and_prefills, of a module outside this   *)
(* repository: rows with at most "threshold" scheduled tokens come first.  *)
reorder_batch(b, sizes, threshold) ==
    LET step(acc, turn) ==
            LET big == {i \in 1 .. NumReqs(acc) : sizes[acc.ids[i]] > threshold}
                small == 1 .. NumReqs(acc) \ big
            IN  IF big # {} /\ small # {} /\ Min(big) < Max(small)
                THEN swap_states(acc, Min(big), Max(small))
                ELSE acc
    IN  FoldLeft(step, b, [k \in Rows |-> k])

(* _make_prompt_token_ids_cpu_tensor: the row up to its number of prompt   *)
(* tokens, padding behind it.                                              *)
PromptTokens(b, i) == SubSeq(b.tok[i], 1, b.np[i])

(* _make_sampling_metadata: what the sampler is given, row by row.  The    *)
(* mask goes along when some request has one, the prompts when a request   *)
(* has penalties or mines, the output ids when a request has penalties.    *)
MakeMetadata(b) ==
    LET rows == 1 .. NumReqs(b)
    IN  [par |-> [i \in rows |-> b.par[i]],
         mask |-> [i \in rows |-> IF b.allowed = {} THEN None ELSE b.mask[i]],
         prompts |-> [i \in rows |->
                        IF b.penal = {} /\ DOMAIN b.extra = {} THEN <<>>
                        ELSE PromptTokens(b, i)],
         extra |-> [i \in rows |->
                        IF DOMAIN b.extra = {} THEN None
                        ELSE [req_id |-> b.ids[i],
                              pow |-> IF b.ids[i] \in DOMAIN b.extra
                                      THEN b.extra[b.ids[i]] ELSE None]],
         outputs |-> b.penal # {}]

(* refresh_metadata: rebuilt only when the builder has something to        *)
(* report; the report is reset.                                            *)
refresh_metadata(b, meta) == IF b.changed THEN MakeMetadata(b) ELSE meta

Reported(b) == [b EXCEPT !.removed = {}, !.changed = FALSE]

=============================================================================
