------------------------------ MODULE Precheck ------------------------------
(***************************************************************************)
(* The pre-submit check (src/src/precheck.cpp) with its options            *)
(* (src/src/main.cpp): the gate list is read name by name into a mask, and *)
(* then every proof is decoded, passed through the canonical kernel once   *)
(* and through the gates of the mask in the verifier's order.              *)
(*                                                                         *)
(* A proof is abstracted to its height and to what the upstream rules      *)
(* (external) find in it: ws is the kernel's result, sunset the shared     *)
(* result of the scaffold and flat-region rules, parrot that of the        *)
(* anti-parrot rule.                                                       *)
(***************************************************************************)
EXTENDS Integers, Sequences

CONSTANTS
    B_FLOOR, B_FREE,    \* credit units of the tiers
    PIN_FREE, PIN_REJECT, \* near-pin counts: 128 and 175
    Detector, Sunset,   \* MINING_DETECTOR_POLICY_HEIGHT, MINING_V3_SUNSET_HEIGHT
    Named,              \* bound: the gates that a gate list mentions
    MaxNames,           \* bound: names in a gate list
    MaxHeight           \* bound: heights of jobs

Pipeline == <<"strict", "near-pin", "candidate-band", "prompt-scaffold",
              "flat-region", "credit-tier", "anti-parrot">>
Gates == {Pipeline[j] : j \in DOMAIN Pipeline}

ASSUME PrecheckAssumption ==
    /\ B_FLOOR \in Nat /\ B_FREE \in Nat /\ B_FLOOR <= B_FREE
    /\ PIN_FREE \in Nat /\ PIN_REJECT \in Nat /\ PIN_FREE < PIN_REJECT
    /\ Detector \in Nat /\ Sunset \in Nat
    /\ Named \subseteq Gates
    /\ MaxNames \in Nat /\ MaxHeight \in Nat

\* One comma-separated item of a gate list, blanks trimmed.  "other" is any
\* name that is neither a gate nor all or none.
Items == [name : Named \cup {"all", "none", "other"}, remove : BOOLEAN]
            \cup {[name |-> "", remove |-> FALSE]}
Blank(t) == t.name = ""

VARIABLES
    available,  \* available(): MEOW_PRECHECK_ENABLED
    spec,       \* the text of --precheck-gates or its environment variable
    pos,        \* items read of it
    m, any,     \* locals of parse_gates
    pc_mode,    \* "off", "shadow" or "on"
    pc_gates,   \* the mask
    phase,      \* where the process is
    height,     \* candidate height of the proof
    ws,         \* Ctx::ws, sm, cm: what the kernel pass found
    sunset,     \* Ctx::sunset_status and sunset_out
    parrot,     \* what antiparrot_gate::evaluate_window returned
    k,          \* position in kPipeline
    reason,     \* v.reason: none, or why the verdict is what it is
    v,          \* the Verdict
    submit      \* submit_loop: the proof goes to the pool

options == <<available, spec, pos, m, any, pc_mode, pc_gates>>
ctx == <<height, ws, sunset, parrot, k, reason>>
precheckVars == <<options, ctx, phase, v, submit>>

Implemented == IF available THEN Gates ELSE {}

Unavailable == [outcome |-> "unavailable", gate |-> "count", withheld |-> FALSE, kernel |-> FALSE]
NoKernel == [strict |-> TRUE, valid |-> FALSE, pins |-> 0, units |-> 0, band |-> "incomplete"]

PrecheckInit ==
    /\ available \in BOOLEAN
    /\ spec \in UNION {[1..n -> Items] : n \in 0..MaxNames}
    /\ pos = 0 /\ m = {} /\ any = FALSE
    /\ pc_mode = "on" /\ pc_gates = Implemented
    /\ phase = "mode"
    /\ height = 0 /\ ws = NoKernel /\ sunset = "not_run" /\ parrot = "not_run"
    /\ k = 1 /\ reason = "none"
    /\ v = Unavailable /\ submit = TRUE

-----------------------------------------------------------------------------
(* Options.                                                                *)

\* --precheck, its environment variable or the default; parse_mode.
ParseMode ==
    /\ phase = "mode"
    /\ \/ /\ pc_mode' \in {"off", "shadow", "on"}
          /\ phase' = IF spec = <<>> THEN "parsed" ELSE "gates"
       \/ phase' = "exit" /\ UNCHANGED pc_mode
    /\ UNCHANGED <<available, spec, pos, m, any, pc_gates, ctx, v, submit>>

\* The bits an item stands for.
Bits(t) == CASE t.name = "all" -> Implemented
             [] t.name \in Gates -> {t.name}
             [] OTHER -> {}

\* The mask after one more item.
ApplyNoReset(old, t) == IF t.remove THEN old \ Bits(t) ELSE old \cup Bits(t)
Apply(old, t) ==
    IF t.name = "none" /\ ~t.remove THEN {}
    ELSE IF t.remove THEN old \ Bits(t) ELSE old \cup Bits(t)

\* One turn of the loop of parse_gates.
ParseItem ==
    /\ phase = "gates" /\ pos < Len(spec)
    /\ LET t == spec[pos + 1] IN
       /\ pos' = pos + 1
       /\ any' = (any \/ ~Blank(t))
       /\ m' = IF Blank(t) \/ t.name = "other" THEN m ELSE Apply(m, t)
       /\ phase' = IF t.name = "other" THEN "exit" ELSE "gates"
    /\ UNCHANGED <<available, spec, pc_mode, pc_gates, ctx, v, submit>>

\* The end of parse_gates.
EndOfList ==
    /\ phase = "gates" /\ pos = Len(spec)
    /\ IF any
       THEN pc_gates' = m \cap Implemented /\ phase' = "parsed"
       ELSE phase' = "exit" /\ UNCHANGED pc_gates
    /\ UNCHANGED <<available, spec, pos, m, any, pc_mode, ctx, v, submit>>

\* A build without the rules runs with mode off.  The text goes out of scope.
OptionsRead ==
    /\ phase = "parsed"
    /\ pc_mode' = IF available THEN pc_mode ELSE "off"
    /\ spec' = <<>> /\ pos' = 0 /\ m' = {} /\ any' = FALSE
    /\ phase' = "idle"
    /\ UNCHANGED <<available, pc_gates, ctx, v, submit>>

-----------------------------------------------------------------------------
(* One proof: submit_loop, evaluate and evaluate_window.                   *)

\* A submitter takes a proof, which knows the height of its own job.
TakeProof ==
    /\ phase = "idle"
    /\ height' \in 0..MaxHeight
    /\ ws' = NoKernel /\ sunset' = "not_run" /\ parrot' = "not_run"
    /\ k' = 1 /\ reason' = "none" /\ v' = Unavailable /\ submit' = TRUE
    /\ phase' = IF pc_mode = "off" THEN "decided" ELSE "proof"
    /\ UNCHANGED options

\* The proof is left without an evaluation.
Abandon ==
    /\ phase = "proof"
    /\ reason' = "not_evaluated"
    /\ phase' = "verdict"
    /\ UNCHANGED <<options, height, ws, sunset, parrot, k, v, submit>>

\* The raw bytes are missing.
NoBytes == Abandon
\* They are not a complete proof v4 window.
DecodeFails == Abandon
\* The float environment is still wrong after it was repaired.
FloatRefused == Abandon
\* The kernel refuses the float environment, or its result is short.
KernelGivesNothing == Abandon

\* The kernel refuses a row: a failure of the strict gate, if that is enabled.
RefusedVerdict == IF "strict" \in pc_gates
                  THEN [Unavailable EXCEPT !.outcome = "reject", !.gate = "strict"]
                  ELSE Unavailable

KernelRefuses ==
    /\ phase = "proof"
    /\ v' = RefusedVerdict
    /\ reason' = "refused"
    /\ phase' = "verdict"
    /\ UNCHANGED <<options, height, ws, sunset, parrot, k, submit>>

\* The kernel pass succeeds and build_metrics fills the bundle that every gate
\* reads.
KernelPass ==
    /\ phase = "proof"
    /\ ws' \in [strict : BOOLEAN, valid : BOOLEAN, pins : 0..PIN_REJECT,
                units : 0..B_FREE, band : {"incomplete", "reject", "pass"}]
    /\ v' = [v EXCEPT !.kernel = TRUE]
    /\ phase' = "running"
    /\ UNCHANGED <<options, height, sunset, parrot, k, reason, submit>>

\* ruleset5_active for the proof's own height.
Ruleset5(h) == h # 0 /\ h >= Detector /\ h >= Sunset

\* pow_v3::tier_for_b_cred_units and pow_v4::V4Ruleset5Tier.  A window has no
\* price when it has too many near-pins or no credit, and that one is below the
\* floor: a step of a credited window always agrees with itself.
CreditTier(units) == IF units < B_FLOOR THEN "invalid"
                     ELSE IF units < B_FREE THEN "admission" ELSE "free"
Ruleset5Tier(units, pins) ==
    IF pins >= PIN_REJECT THEN "invalid"
    ELSE IF CreditTier(units) = "free" /\ pins > PIN_FREE THEN "admission" ELSE CreditTier(units)
TierAt(h) == IF Ruleset5(h) /\ ws.valid THEN Ruleset5Tier(ws.units, ws.pins) ELSE CreditTier(ws.units)

\* The free window that only ruleset 5 withholds.
NewlyWithheld == /\ TierAt(height) = "admission"
                 /\ Ruleset5(height) /\ ws.valid /\ ws.units >= B_FREE

\* sunset_status_result: "status" is every status but 0 and 2.
SunsetResult(s) == CASE s = "bad_input" -> "reject"
                     [] s \in {"status", "pad_length"} -> "unavailable"
                     [] OTHER -> "pass"

\* The gates; s and p are what the sunset and anti-parrot calls return.
gate_strict == IF ws.strict THEN "pass" ELSE "reject"
gate_near_pin == IF ~ws.valid THEN "unavailable"
                 ELSE IF ws.pins >= PIN_REJECT THEN "reject" ELSE "pass"
gate_candidate_band == IF ws.band = "incomplete" THEN "unavailable" ELSE ws.band
gate_prompt_scaffold(s) == IF s = "scaffold" THEN "reject" ELSE SunsetResult(s)
gate_flat_region(s) == CASE s = "flat" -> "reject"
                         [] s \in {"scaffold", "no_flat"} -> "unavailable"
                         [] OTHER -> SunsetResult(s)
gate_credit_tier == IF TierAt(height) = "free" THEN "pass" ELSE "reject"
gate_anti_parrot(p) == CASE p = "bad_input" -> "reject"
                         [] p = "status" -> "unavailable"
                         [] OTHER -> p

GateResult(g, s, p) ==
    CASE g = "strict" -> gate_strict
      [] g = "near-pin" -> gate_near_pin
      [] g = "candidate-band" -> gate_candidate_band
      [] g = "prompt-scaffold" -> gate_prompt_scaffold(s)
      [] g = "flat-region" -> gate_flat_region(s)
      [] g = "credit-tier" -> gate_credit_tier
      [] g = "anti-parrot" -> gate_anti_parrot(p)

\* What tc_sunset_window_batch gives: the two rules in order, the flat one only
\* when the scaffold did not reject; bad evidence (2) and the other statuses.
\* run_sunset: the call is made for the first gate that needs it and kept.
SunsetOutcomes == {"pass", "scaffold", "flat", "no_flat", "bad_input", "status", "pad_length"}
RunSunset(g) ==
    IF g \in {"prompt-scaffold", "flat-region"} /\ sunset = "not_run"
    THEN SunsetOutcomes ELSE {sunset}
RunAntiParrot(g) ==
    IF g = "anti-parrot" THEN {"pass", "reject", "bad_input", "status"} ELSE {parrot}

\* A gate that abstains lets the later gates run; one that rejects ends it.
GoesOnOnlyOnPass(r) == r = "pass"
GoesOn(r) == r # "reject"

\* One turn of the loop over kPipeline.
RunGate ==
    /\ phase = "running" /\ k <= Len(Pipeline) /\ Pipeline[k] \in pc_gates
    /\ LET g == Pipeline[k] IN
       \E s \in RunSunset(g), p \in RunAntiParrot(g) :
         LET r == GateResult(g, s, p) IN
         /\ sunset' = s /\ parrot' = p
         /\ k' = k + 1
         /\ reason' = IF r = "reject" THEN "rejected"
                      ELSE IF r = "unavailable" /\ reason = "none" THEN "abstained" ELSE reason
         /\ phase' = IF GoesOn(r) THEN "running" ELSE "verdict"
         /\ v' = IF r = "reject"
                 THEN [v EXCEPT !.outcome = "reject", !.gate = g,
                                !.withheld = (g = "credit-tier" /\ NewlyWithheld)]
                 ELSE v
    /\ UNCHANGED <<options, height, ws, submit>>

SkipGate ==
    /\ phase = "running" /\ k <= Len(Pipeline) /\ Pipeline[k] \notin pc_gates
    /\ k' = k + 1
    /\ UNCHANGED <<options, height, ws, sunset, parrot, reason, phase, v, submit>>

AllGatesRun ==
    /\ phase = "running" /\ k > Len(Pipeline)
    /\ v' = [v EXCEPT !.outcome = IF reason = "none" THEN "pass" ELSE "unavailable"]
    /\ phase' = "verdict"
    /\ UNCHANGED <<options, ctx, submit>>

\* A rule throws: the handlers at the end of evaluate_window.
InternalError ==
    /\ phase \in {"proof", "running"}
    /\ v' = [v EXCEPT !.outcome = "unavailable"]
    /\ reason' = "internal_error"
    /\ phase' = "verdict"
    /\ UNCHANGED <<options, height, ws, sunset, parrot, k, submit>>

\* Only a rejection in mode on keeps the proof from the pool.
SubmitsIfPassed == v.outcome = "pass" \/ pc_mode # "on"
Submits == ~(v.outcome = "reject" /\ pc_mode = "on")

Decide ==
    /\ phase = "verdict"
    /\ submit' = Submits
    /\ phase' = "decided"
    /\ UNCHANGED <<options, ctx, v>>

\* The proof is sent or dropped, and the submitter looks for the next one.
NextProof ==
    /\ phase = "decided"
    /\ phase' = "idle"
    /\ UNCHANGED <<options, ctx, v, submit>>

PrecheckNext ==
    \/ ParseMode \/ ParseItem \/ EndOfList \/ OptionsRead
    \/ TakeProof \/ NoBytes \/ DecodeFails \/ FloatRefused \/ KernelGivesNothing \/ KernelRefuses \/ KernelPass
    \/ RunGate \/ SkipGate \/ AllGatesRun \/ InternalError
    \/ Decide \/ NextProof

PrecheckSpec == PrecheckInit /\ [][PrecheckNext]_precheckVars

-----------------------------------------------------------------------------
PrecheckTypeOK ==
    /\ available \in BOOLEAN
    /\ spec \in Seq(Items) /\ pos \in 0..Len(spec)
    /\ m \subseteq Gates /\ any \in BOOLEAN
    /\ pc_mode \in {"off", "shadow", "on"} /\ pc_gates \subseteq Gates
    /\ phase \in {"mode", "gates", "parsed", "exit", "idle", "proof", "running",
                  "verdict", "decided"}
    /\ height \in Nat
    /\ ws \in [strict : BOOLEAN, valid : BOOLEAN, pins : Nat, units : Nat,
               band : {"incomplete", "reject", "pass"}]
    /\ sunset \in SunsetOutcomes \cup {"not_run"}
    /\ parrot \in {"not_run", "pass", "reject", "bad_input", "status"}
    /\ k \in 1..(Len(Pipeline) + 1) 
    /\ reason \in {"none", "not_evaluated", "refused", "abstained", "rejected", "internal_error"}
    /\ v \in [outcome : {"pass", "reject", "unavailable"}, gate : Gates \cup {"count"},
              withheld : BOOLEAN, kernel : BOOLEAN]
    /\ submit \in BOOLEAN

-----------------------------------------------------------------------------
(* The gate list by its meaning: an item adds gates or takes gates away,   *)
(* and the last item about a gate decides.                                 *)
Adds(t, g) == ~t.remove /\ t.name \in {"all", g}
TakesAway(t, g) == (t.remove /\ t.name \in {"all", g}) \/ (~t.remove /\ t.name = "none")
Listed(g) == \E j \in 1..Len(spec) : /\ Adds(spec[j], g)
                                     /\ \A i \in (j + 1)..Len(spec) : ~TakesAway(spec[i], g)

\* The rules by what they forbid, whatever is enabled.
Against(g) ==
    CASE g = "strict" -> ~ws.strict
      [] g = "near-pin" -> ws.valid /\ ws.pins >= PIN_REJECT
      [] g = "candidate-band" -> ws.band = "reject"
      [] g = "prompt-scaffold" -> sunset \in {"scaffold", "bad_input"}
      [] g = "flat-region" -> sunset \in {"flat", "bad_input"}
      [] g = "credit-tier" -> \/ ws.units < B_FREE
                              \/ Ruleset5(height) /\ ws.valid /\ ws.pins > PIN_FREE
      [] g = "anti-parrot" -> parrot \in {"reject", "bad_input"}

\* parse_gates: whatever the order of its items, and with repetitions and
\* blanks, the list enables exactly the gates whose last mention adds them.
MaskIsLastMention ==
    phase = "parsed" =>
        pc_gates = IF spec = <<>> THEN Implemented ELSE {g \in Implemented : Listed(g)}

\* submit_loop and evaluate: a proof is withheld only in mode on, on the word
\* of an enabled gate whose rule it breaks, and that gate is the first such one
\* in the verifier's order.  Nothing that could not be evaluated is withheld.
DroppedForCause ==
    phase = "decided" /\ ~submit =>
        /\ pc_mode = "on" /\ v.gate \in pc_gates
        /\ v.kernel => \E j \in DOMAIN Pipeline :
               /\ Pipeline[j] = v.gate /\ Against(v.gate)
               /\ \A i \in 1..(j - 1) : Pipeline[i] \in pc_gates => ~Against(Pipeline[i])

\* evaluate_window: a gate that abstains, or that is masked off, does not hide
\* a rejection by another.  A proof that went through the kernel and is submitted
\* in mode on breaks no enabled rule that was asked, unless a rule threw.
AbstentionHidesNothing ==
    phase = "decided" /\ submit /\ pc_mode = "on" /\ v.kernel /\ reason # "internal_error" =>
        \A g \in pc_gates : ~Against(g)

\* gate_credit_tier: with the near-pin gate on, ruleset5_tier_withheld marks
\* exactly the windows that the tier withholds at this height and would have
\* let through before ruleset 5.
CountedApart ==
    phase = "decided" /\ v.gate = "credit-tier" /\ "near-pin" \in pc_gates =>
        (v.withheld <=> TierAt(0) = "free")

\* The decision on a proof is exactly what the enabled gates say: withheld for a rule
\* it breaks and for no other cause, submitted only if no enabled rule is broken, and
\* counted apart when only ruleset 5 withholds it.
VerdictsAreExact == PrecheckTypeOK /\ DroppedForCause /\ AbstentionHidesNothing /\ CountedApart
=============================================================================
