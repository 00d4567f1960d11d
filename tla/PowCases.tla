------------------------------ MODULE PowCases ------------------------------
(***************************************************************************)
(* The bounded inputs on which the algorithms of PowMath, PowV3 and Setup  *)
(* are held against their reference definitions, one input a state: a      *)
(* target, a row of logits, the bounds of a step, a prefix with its pad    *)
(* mask, the extra_flags a proof already has, or what a start finds (the   *)
(* staged sources, the model's configuration, the links of the GPUs).      *)
(***************************************************************************)
EXTENDS PowMath, PowV3, Setup

CONSTANTS MaxLogit \* logits: 0 .. MaxLogit

VARIABLES target, logits, bounds, prefix, flags, setup

vars == <<target, logits, bounds, prefix, flags, setup>>

NoSetup == [kind |-> "none"]

Blank == [kind |-> "blank", keys |-> {}, v3 |-> "none", twice |-> FALSE,
          size |-> 0, depth |-> 1]

Init ==
    /\ target = 0 /\ logits = [i \in Tokens |-> 0]
    /\ bounds = [lower |-> 0, upper |-> 1]
    /\ prefix = <<>>
    /\ \/ flags \in Flags /\ setup = NoSetup
       \/ flags = Blank /\ setup \in Setups

(* Only one of the inputs is away from its first value. *)
Only(x) == \A v \in {"target", "logits", "bounds", "prefix"} \ {x} :
    CASE v = "target" -> target = 0
      [] v = "logits" -> \A i \in Tokens : logits[i] = 0
      [] v = "bounds" -> bounds = [lower |-> 0, upper |-> 1]
      [] v = "prefix" -> prefix = <<>>

Plain == flags = Blank /\ setup = NoSetup

NextTarget ==
    /\ Plain /\ Only("target") /\ target < MaxTarget
    /\ target' = target + 1
    /\ UNCHANGED <<logits, bounds, prefix, flags, setup>>

NextLogits ==
    /\ Plain /\ Only("logits")
    /\ \E i \in Tokens : logits[i] < MaxLogit /\ logits' = [logits EXCEPT ![i] = @ + 1]
    /\ UNCHANGED <<target, bounds, prefix, flags, setup>>

NextBounds ==
    /\ Plain /\ Only("bounds")
    /\ \/ bounds.upper < 4 * One /\ bounds' = [bounds EXCEPT !.upper = @ + 1]
       \/ bounds.lower < bounds.upper /\ bounds' = [bounds EXCEPT !.lower = @ + 1]
    /\ UNCHANGED <<target, logits, prefix, flags, setup>>

NextPrefix ==
    /\ Plain /\ Only("prefix") /\ Len(prefix) < Window + 1
    /\ \E tok \in 0 .. 1, pad \in BOOLEAN :
          prefix' = Append(prefix, [tok |-> tok, pad |-> pad])
    /\ UNCHANGED <<target, logits, bounds, flags, setup>>

Next == NextTarget \/ NextLogits \/ NextBounds \/ NextPrefix

Spec == Init /\ [][Next]_vars

-----------------------------------------------------------------------------
(* The block target a worker derives is the one of the chain (see          *)
(* TargetIsConsensus), and a digest is held against it as a number.        *)
TargetsAreConsensus ==
    /\ TargetIsConsensus(get_compact(target))
    /\ HashComparedAsNumber([i \in 1 .. HashLen |-> (target \div Place[HashLen - i]) % Base])

(* The token recorded in a proof is the one of the reference path, on the  *)
(* compact path too: equal masks, a support that no tie can change, and    *)
(* the same token for every u but the corners.                             *)
SamplesTheReference ==
    Plain => MasksAgree(logits) /\ SupportIsStable(logits) /\ CompactPicksTheSame(logits)

(* The credit of the true mass. *)
Earned ==
    CHOOSE n \in 0 .. Len(Thresholds) - 1 :
       /\ 4 * Thresholds[n + 1] >= bounds.upper - bounds.lower
       /\ \A m \in n + 1 .. Len(Thresholds) - 1 :
             4 * Thresholds[m + 1] < bounds.upper - bounds.lower

(* No interval of a step earns more credit than its true mass, so that a   *)
(* window reaches no tier above the one of its true credit, and the search *)
(* finds the largest entry that allows the mass.  A lower difficulty never *)
(* needs fewer tries.                                                      *)
NeverOverCredits ==
    /\ LET mass == mass_q63_for_step(bounds.lower, bounds.upper)
           n == b_cred_units_from_bounds(<<bounds.lower>>, <<bounds.upper>>)
       IN  /\ Thresholds[n + 1] >= mass
           /\ n < Len(Thresholds) - 1 => Thresholds[n + 2] < mass
           /\ n <= Earned
           /\ tier_for_b_cred_units(Earned, 2, 4) = "invalid"
                 => tier_for_b_cred_units(n, 2, 4) = "invalid"
    /\ \A d, e \in 1 .. 8 : d <= e =>
          admission_target(d, target, MaxTarget) <= admission_target(e, target, MaxTarget)

Contexts == UNION {[1 .. n -> [tok : 0 .. 1, pad : BOOLEAN]] : n \in 0 .. Window + 1}

Ground(p, model) ==
    build_admission_preimage(<<1>>, 1, 0, [i \in DOMAIN p |-> p[i].tok],
                             [i \in DOMAIN p |-> p[i].pad], model, <<1>>)

(* The bytes that name a model in a message: none, or one of two.          *)
Models == {<<>>, <<0>>, <<1>>}

(* One admission is good for one prefix: two prefixes that the model sees  *)
(* differently (other tokens, also outside of the rolling window, zeros    *)
(* where the window is padded, another mask) or two models never share the *)
(* message that is ground.                                                 *)
AdmissionBindsPrefix ==
    Plain => \A q \in Contexts : \A m, n \in Models :
       Ground(prefix, m) = Ground(q, n) => prefix = q /\ m = n

(* A nonce merged into extra_flags is the one a verifier extracts, and no  *)
(* key of the flags is dropped, whatever text the miner has in them; the   *)
(* only loss is a result above the parser's limits.                        *)
NonceSurvivesCarrier ==
    \A nonce \in Nonces :
       LET merged == merge_extra_flags_v3(flags, nonce)
       IN  /\ flags.keys \subseteq merged.keys
           /\ merged.size <= MaxBytes /\ merged.depth <= MaxDepth
                => extract_admission_nonce(merged) = nonce

(* A build that goes on has every patch in it exactly once, and the        *)
(* compact sampler, whatever upstream has lost or taken in, and a second   *)
(* pass over a patched tree never slips through with one made twice.       *)
PatchesWhole ==
    setup.kind = "tree" =>
       LET first == StageSources(Staged(setup.lost, setup.taken, setup.anchors))
           last == IF setup.again /\ first.rc = 0 THEN StageSources(first) ELSE first
       IN  /\ last.rc = 0 => last.compact = 1 /\ \A i \in Patches : last.times[i] = 1
           /\ setup.lost = {} /\ setup.anchors => first.rc = 0

(* Every proof names the repository the chain knows the model by and a     *)
(* precision its verifier can replay, also after an offline start moved    *)
(* the model to a path; a pinned commit is the one reported.  The operator *)
(* may serve it under an alias or a path, which is then told instead.      *)
IdentityIsRegistered ==
    setup.kind = "config" =>
       LET info == from_configs(setup)
       IN  info.compute_precision # "error" =>
              /\ info.model_id = "repo" \/ Renamed(setup)
              /\ info.compute_precision \in VERIFIER_PRECISION_VOCAB
              /\ setup.revision = "pinned" => info.model_sha = {"pinned"}
              /\ setup.hub /\ setup.model = "repo" => "other" \notin info.model_sha

(* Tensor parallelism is chosen for GPUs that are pairwise on NVLink and   *)
(* for no others: network columns and missing GPUs never count as a link.  *)
TensorNeedsNvlink ==
    setup.kind = "topo" =>
       (parallel_mode(setup.rows, setup.gpus) = "tensor"
           <=> /\ setup.gpus \subseteq DOMAIN setup.rows
               /\ \A a, b \in setup.gpus : a # b => setup.rows[a][b + 1] = "NV")

(* What a start decides once for every later proof is right. *)
StartsSound == PatchesWhole /\ IdentityIsRegistered /\ TensorNeedsNvlink

=============================================================================
