------------------------------- MODULE PowV3 --------------------------------
(***************************************************************************)
(* pow_v3.py, the consensus arithmetic of version 3 proofs: the carrier of *)
(* the admission nonce in extra_flags, the messages an admission is ground *)
(* over, the expected number of tries, the credit of a step and the tiers. *)
(*                                                                         *)
(* Messages are sequences of small numbers; SHA-256 is taken as injective, *)
(* so that a commitment is its preimage as one element of a message.       *)
(* Probabilities are given in quarters of the Q63 unit, the doubles that   *)
(* fall between two fixed-point values among them.                         *)
(***************************************************************************)
EXTENDS Integers, Sequences

CONSTANTS
    Thresholds, \* THRESHOLDS_Q63; its entry n is Thresholds[n + 1]
    Atol,       \* ATOL_Q63_CEIL
    Window,     \* POW_WINDOW_SIZE
    Width,      \* bytes of a token
    MaxBytes,   \* EXTRA_FLAGS_MAX_BYTES
    MaxDepth    \* EXTRA_FLAGS_MAX_DEPTH

One == Thresholds[1]

(* The table starts at 1, never increases and stays above 0. *)
ASSUME TableAssumption ==
    /\ Thresholds \in Seq(Nat \ {0}) /\ Thresholds # <<>>
    /\ \A n \in 1 .. Len(Thresholds) - 1 : Thresholds[n + 1] <= Thresholds[n]
    /\ Atol \in Nat

ASSUME MessageAssumption ==
    Window \in Nat /\ Width \in Nat \ {0} /\ MaxBytes \in Nat /\ MaxDepth \in Nat

-----------------------------------------------------------------------------
(* The carrier.  A text is blank, or not JSON, or JSON that is no object,  *)
(* or an object: the keys it has besides "v3", its "v3" entry (the nonce   *)
(* in it, "bare" without one, "other" when it is no object, "none" when    *)
(* absent), whether it has a key twice, of which json.loads keeps the last *)
(* and a verifier none, its size without what is not kept, and its depth.  *)

Nonces == {"n1", "n2"}

Flags == [kind : {"blank", "text", "list"}, keys : {{}}, v3 : {"none"}, twice : {FALSE},
          size : 0 .. MaxBytes, depth : {1}]
            \cup [kind : {"object"}, keys : SUBSET {"completion_id", "proof_purpose"},
                  v3 : Nonces \cup {"bare", "other", "none"}, twice : BOOLEAN,
                  size : 0 .. MaxBytes, depth : 1 .. MaxDepth + 1]

NonceBytes == 2

(* Mutant: flags that are no JSON object are dropped, and a "v3" stays. *)
MergeMissing(flags, nonce) ==
    [kind |-> "object", keys |-> flags.keys,
     v3 |-> IF flags.v3 = "none" THEN nonce ELSE flags.v3, twice |-> FALSE,
     size |-> flags.size + NonceBytes, depth |-> IF flags.depth > 2 THEN flags.depth ELSE 2]

merge_extra_flags_v3(flags, nonce) ==
    [kind |-> "object",
     keys |-> IF flags.kind = "object" THEN flags.keys
              ELSE IF flags.kind = "blank" THEN {} ELSE {"_diff"},
     v3 |-> nonce, twice |-> FALSE,
     size |-> (IF flags.kind = "blank" THEN 0 ELSE flags.size) + NonceBytes,
     depth |-> IF flags.depth > 2 THEN flags.depth ELSE 2]

extract_admission_nonce(flags) ==
    IF flags.kind = "object" /\ ~flags.twice /\ flags.size <= MaxBytes /\ flags.depth <= MaxDepth
         /\ flags.v3 \in Nonces
    THEN flags.v3 ELSE "none"

-----------------------------------------------------------------------------
(* Messages. *)

(* What is left of a number after some of its bytes, of one bit here, are  *)
(* shifted out.                                                            *)
Shifted(n, k) ==
    LET rest[i \in Nat] == IF i = 0 THEN n ELSE rest[i - 1] \div 2
    IN  rest[k]

(* Tokens of Width bytes each, least significant byte first, joined. *)
LE(tokens) ==
    [j \in 1 .. Width * Len(tokens) |->
        Shifted(tokens[(j - 1) \div Width + 1], (j - 1) % Width) % 2]

(* The last Window tokens, padded with zeros on the left. *)
ContextWindowOf(tokens) ==
    LET kept == IF Len(tokens) > Window THEN Window ELSE Len(tokens)
    IN  [i \in 1 .. Window |->
           IF i <= Window - kept THEN 0 ELSE tokens[Len(tokens) - Window + i]]

build_step_message(header, vdf, tick, step, context, precision, nonce) ==
    header \o vdf \o <<tick, step>> \o LE(ContextWindowOf(context)) \o precision \o nonce

(* Mutant: only what the rolling window shows is committed to. *)
WindowCommitment(tokens, mask) == LE(ContextWindowOf(tokens))

(* An omitted mask is all false. *)
prompt_commitment(tokens, mask) ==
    <<Len(tokens)>> \o LE(tokens)
      \o <<Len(tokens)>> \o [i \in 1 .. Len(tokens) |-> IF mask[i] THEN 1 ELSE 0]

admission_message(msg_w, commitment, model, nonce) ==
    msg_w \o <<commitment>> \o <<Len(model)>> \o model \o nonce

(* What the grind is given: the first step's message without a nonce, and  *)
(* the commitment to everything before the window.                         *)
build_admission_preimage(header, tick, step, tokens, mask, model, nonce) ==
    admission_message(
        build_step_message(header, <<>>, tick, step, tokens, <<>>, <<>>),
        prompt_commitment(tokens, mask), model, nonce)

(* The largest of 1 and the floor of the ratio; alpha, the timings and the *)
(* normalizer are one factor.                                              *)
admission_expected_tries(difficulty, factor) ==
    IF factor \div difficulty > 1 THEN factor \div difficulty ELSE 1

admission_target(difficulty, factor, limit) == limit \div admission_expected_tries(difficulty, factor)

-----------------------------------------------------------------------------
(* Credit. *)

_f64_to_q63_floor(x) == x \div 4

_f64_to_q63_ceil(x) == (x + 3) \div 4

(* Mutant: the width is rounded down, and not widened. *)
FlooredMass(lower, upper) ==
    LET mass == _f64_to_q63_floor(upper - lower)
    IN  IF mass > One THEN One ELSE mass

mass_q63_for_step(lower, upper) ==
    LET mass == (_f64_to_q63_ceil(upper) - _f64_to_q63_floor(lower)) + 2 * Atol
    IN  IF mass > One THEN One ELSE mass

(* One turn of the binary search, or nothing once it has closed. *)
Halved(s, mass) ==
    LET mid == (s.lo + s.hi + 1) \div 2
    IN  IF s.lo >= s.hi THEN s
        ELSE IF Thresholds[mid + 1] >= mass THEN [s EXCEPT !.lo = mid]
                                            ELSE [s EXCEPT !.hi = mid - 1]

(* A turn excludes an entry at least, so that it has closed by then. *)
credit_units_for_step(mass) ==
    LET search[turn \in Nat] ==
          IF turn = 0 THEN [lo |-> 0, hi |-> Len(Thresholds) - 1]
          ELSE Halved(search[turn - 1], mass)
    IN  search[Len(Thresholds)].lo

(* The credit of a window, summed up step by step. *)
b_cred_units_from_bounds(lowers, uppers) ==
    LET total[k \in 0 .. Len(lowers)] ==
          IF k = 0 THEN 0
          ELSE total[k - 1] + credit_units_for_step(mass_q63_for_step(lowers[k], uppers[k]))
    IN  total[Len(lowers)]

tier_for_b_cred_units(units, floor, free) ==
    IF units < floor THEN "invalid"
    ELSE IF units < free THEN "admission_required" ELSE "free"

=============================================================================
