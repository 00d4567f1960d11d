------------------------------ MODULE PowMath -------------------------------
(***************************************************************************)
(* The pure algorithms of the proof-of-work sampler, each beside the       *)
(* definition it must agree with: compact targets (uint256_arithmetics),   *)
(* the comparison of a hash with a target, the top-k / top-p masks, the    *)
(* compact CDF and the choice of a token (pow_utils, topk_topp_sampler).   *)
(*                                                                         *)
(* Bytes are digits of a small Base so that every number fits TLC's        *)
(* integers; logits are small naturals, probabilities the integer weights  *)
(* 2^logit, and u an integer between 0 and the sum of the weights.         *)
(***************************************************************************)
EXTENDS Integers, Sequences, FiniteSets, SequencesExt, TLC

CONSTANTS
    Base,       \* values of a byte
    HashLen,    \* bytes of a hash in check_hash_against_target
    MaxTarget,  \* targets checked: 0 .. MaxTarget
    Vocab,      \* size of the vocabulary
    Cap,        \* the proof support (50): top_k never exceeds it
    Margin      \* rows of the top-k head that are put back in stable order (128)

ASSUME MathAssumption ==
    /\ Base \in Nat /\ Base > 1 /\ Base % 2 = 0
    /\ HashLen \in Nat /\ MaxTarget \in Nat
    /\ Cap \in Nat \ {0} /\ Margin \in Nat /\ Vocab \in Nat
    /\ Cap <= Margin /\ Margin <= Vocab

-----------------------------------------------------------------------------
(* The value of a byte that is n places up. *)
Place[n \in Nat] == IF n = 0 THEN 1 ELSE Base * Place[n - 1]

(* Compact targets.  nBits is a size byte, a sign bit and a word of three  *)
(* bytes without its top bit.                                              *)

set_compact(c) ==
    IF c.size <= 3 THEN c.word \div Place[3 - c.size]
                   ELSE c.word * Place[c.size - 3]

ByteLen(t) == CHOOSE n \in 0 .. t : t < Place[n] /\ \A m \in 0 .. n - 1 : t >= Place[m]

get_compact(t) ==
    LET size == ByteLen(t)
        word == IF size <= 3 THEN t * Place[3 - size] ELSE t \div Place[size - 3]
        sign == Place[3] \div 2
    IN  IF word >= sign THEN [size |-> size + 1, word |-> word \div Base]
                        ELSE [size |-> size, word |-> word]

(* base * N / D, saturated at powLimit before it is packed again. *)
(* Mutant: saturated before the division. *)
CapThenDivide(base, difficulty, normalizer, limit) ==
    LET scaled == set_compact(base) * normalizer
    IN  get_compact((IF scaled > set_compact(limit) THEN set_compact(limit) ELSE scaled)
                        \div difficulty)

derive_adjusted_block_target(base, difficulty, normalizer, limit) ==
    LET adjusted == (set_compact(base) * normalizer) \div difficulty
        capped == IF adjusted > set_compact(limit) THEN set_compact(limit) ELSE adjusted
    IN  get_compact(capped)

(* The worker's block target is the consensus one: never above powLimit,   *)
(* never easier than base * N / D, and harder only by the bits that the    *)
(* compact form cannot hold; packing a compact target again changes        *)
(* nothing.                                                                *)
TargetIsConsensus(b) ==
    /\ get_compact(set_compact(b)) = b
    /\ \A l \in {get_compact(t) : t \in 0 .. MaxTarget} : \A d, n \in 1 .. 3 :
          LET got == set_compact(derive_adjusted_block_target(b, d, n, l))
              exact == Min({(set_compact(b) * n) \div d, set_compact(l)})
          IN  /\ got <= exact
              /\ exact - got < Place[Max({0, ByteLen(exact) - 2})]

-----------------------------------------------------------------------------
(* A hash is read with its last byte most significant, the target with its *)
(* first.  The loop goes from the most significant byte down until one     *)
(* decides; equal bytes all through count as a hit.                        *)

Bytes == [1 .. HashLen -> 0 .. Base - 1]

check_hash_against_target(digest, target) ==
    LET t_le == [i \in 1 .. HashLen |-> target[HashLen + 1 - i]]
        differ == {i \in 1 .. HashLen : digest[i] /= t_le[i]}
    IN  differ = {} \/ digest[Max(differ)] < t_le[Max(differ)]

Number(big_endian) ==
    LET value[k \in 0 .. HashLen] == IF k = 0 THEN 0 ELSE value[k - 1] * Base + big_endian[k]
    IN  value[HashLen]

(* The comparison is that of the two numbers. *)
HashComparedAsNumber(t) ==
    \A d \in Bytes :
       check_hash_against_target(d, t)
          <=> Number([i \in 1 .. HashLen |-> d[HashLen + 1 - i]]) <= Number(t)

-----------------------------------------------------------------------------
(* Masks.  A mask is the set of tokens it leaves.                          *)

Tokens == 1 .. Vocab

Descending(l) == SortSeq([i \in Tokens |-> l[i]], LAMBDA a, b : a > b)

(* Stable descending order: by logit, ties by token. *)
StableOrder(l) ==
    SortSeq([i \in Tokens |-> i], LAMBDA a, b : l[a] > l[b] \/ (l[a] = l[b] /\ a < b))

FirstMax(l) == StableOrder(l)[1]

OrFirst(l, mask) == IF mask = {} THEN {FirstMax(l)} ELSE mask

(* The two k-masks of apply_topk_topp_mask, with ties at the k-th value    *)
(* out: the threshold from a top-k head, and from a full sort.             *)
FastMask(l, k) ==
    LET head == SubSeq(Descending(l), 1, Min({Cap, Vocab}))
    IN  {i \in Tokens : l[i] > head[Max({1, Min({k, Len(head)})})]}

LegacyMask(l, k) ==
    {i \in Tokens : l[i] > Descending(l)[k]}

apply_topk_mask(l, k) == OrFirst(l, FastMask(l, k))

(* top-p over the survivors, in stable order, as long as the mass before a *)
(* token is below p = q / 4; the first one always stays.                   *)
Weight(l, S) == MapThenSumSet(LAMBDA i : 2 ^ l[i], S)

Before(l, S, i) == {j \in S : l[j] > l[i] \/ (l[j] = l[i] /\ j < i)}

apply_topp_mask(l, S, q) ==
    IF q >= 4 THEN S
    ELSE {i \in S : Before(l, S, i) = {} \/ 4 * Weight(l, Before(l, S, i)) < q * Weight(l, S)}

(* vLLM's own masks keep ties: by a full sort, and by a top-k head. *)
apply_top_k_top_p_pytorch(l, k) == {i \in Tokens : l[i] >= Descending(l)[k]}

apply_top_k_only(l, k) ==
    IF k = Vocab THEN Tokens ELSE {i \in Tokens : l[i] >= SubSeq(Descending(l), 1, k)[k]}

(* Both k-masks leave the tokens that fewer than k tokens match or beat,   *)
(* at least one; the nucleus of a mask is never empty and is closed        *)
(* upwards; and ordinary sampling gets the same mask from its two paths.   *)
MasksAgree(l) ==
    \A k \in 1 .. Cap :
       LET S == apply_topk_mask(l, k)
       IN  /\ S = OrFirst(l, LegacyMask(l, k))
           /\ S = OrFirst(l, {i \in Tokens : Cardinality({j \in Tokens : l[j] >= l[i]}) < k})
           /\ \A q \in 1 .. 4 :
                 LET T == apply_topp_mask(l, S, q)
                 IN  T /= {} /\ \A i \in T : Before(l, S, i) \subseteq T
           /\ apply_top_k_top_p_pytorch(l, k) = apply_top_k_only(l, k)

-----------------------------------------------------------------------------
(* The proof support.  topk() breaks ties as it likes; the first Margin    *)
(* entries are put in stable order and the first Cap of them taken.        *)

TopHeads(l) ==
    {S \in kSubset(Margin, Tokens) : \A i \in S : \A j \in Tokens \ S : l[i] >= l[j]}

snapshot_support(l, head) ==
    SubSeq(SelectSeq(StableOrder(l), LAMBDA i : i \in head), 1, Cap)

(* The support is the stable one whatever the ties, unless more logits     *)
(* than the margin has to spare are equal to the last one of the support.  *)
SupportIsStable(l) ==
    \A head \in TopHeads(l) :
       Cardinality({i \in Tokens : l[i] = Descending(l)[Cap]}) <= Margin - Cap
          => snapshot_support(l, head) = SubSeq(StableOrder(l), 1, Cap)

-----------------------------------------------------------------------------
(* Choosing a token: searchsorted in the CDF of the weights, then clamped. *)

searchsorted(cdf, u) == 1 + Cardinality({i \in DOMAIN cdf : cdf[i] < u})

_clamp_token_ids(pos, n) == IF pos > n THEN n ELSE pos

FullPick(l, S, u) ==
    LET cdf == [i \in Tokens |-> Weight(l, {j \in S : j <= i})]
    IN  _clamp_token_ids(searchsorted(cdf, u), Vocab)

(* Mutant of CompactPick: ties with the k-th logit stay in. *)
CompactPickWithTies(l, k, u) ==
    LET support == SubSeq(StableOrder(l), 1, Cap)
        keep == {support[j] : j \in 1 .. k}
        ordered == SetToSortSeq(keep, LAMBDA a, b : a < b)
        cdf == [j \in 1 .. Len(ordered) |-> Weight(l, {ordered[m] : m \in 1 .. j})]
    IN  ordered[_clamp_token_ids(searchsorted(cdf, u), Len(ordered))]

(* The compact path: the support ordered by token, excluded slots last and *)
(* pointing at the last token that is in.                                  *)
CompactPick(l, k, u) ==
    LET support == SubSeq(StableOrder(l), 1, Cap)
        threshold == l[support[k]]
        above == {j \in 1 .. Cap : l[support[j]] > threshold}
        keep == {support[j] : j \in IF above = {} THEN {1} ELSE above}
        ordered == SetToSortSeq(keep, LAMBDA a, b : a < b)
        token_ids == [j \in 1 .. Cap |->
                        IF j <= Len(ordered) THEN ordered[j] ELSE ordered[Len(ordered)]]
        cdf == [j \in 1 .. Cap |-> Weight(l, {token_ids[m] : m \in 1 .. j})]
    IN  token_ids[_clamp_token_ids(searchsorted(cdf, u), Cap)]

(* For every u above 0 and not above the last entry of the CDF the compact *)
(* path picks the token of the full-vocabulary path, and that token has    *)
(* weight.  (At u = 0, and above the last entry, only the compact one is   *)
(* sure to stay in the support.)                                           *)
CompactPicksTheSame(l) ==
    \A k \in 1 .. Cap :
       LET S == apply_topk_mask(l, k)
       IN  \A u \in 0 .. Weight(l, S) + 1 :
              /\ CompactPick(l, k, u) \in S
              /\ u \in 1 .. Weight(l, S) => CompactPick(l, k, u) = FullPick(l, S, u)

=============================================================================
