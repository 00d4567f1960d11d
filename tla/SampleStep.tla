----------------------------- MODULE SampleStep -----------------------------
(***************************************************************************)
(* What SamplerPool::sample_step promises its caller, the mining thread:   *)
(* between a call and its return the pool writes tokens of that step into  *)
(* the caller's buffer, it writes nothing outside a call, and it returns   *)
(* true only when every stream has its token.  The caller may therefore    *)
(* reuse or free its logits, contexts and tokens as soon as the call       *)
(* returns, whatever the call returned.                                    *)
(***************************************************************************)
EXTENDS Naturals

CONSTANT Streams    \* the streams decoded together

VARIABLES
    phase,          \* "idle": no call is running, "busy": inside one, "closed"
    step,           \* the number of calls made so far
    out,            \* out[s]: the step that wrote stream s's token, 0 if none
    result          \* what the last finished call returned

avars == <<phase, step, out, result>>

AInit ==
    /\ phase = "idle"
    /\ step = 0
    /\ out = [s \in Streams |-> 0]
    /\ result = "none"

\* The caller hands over the logits of its next step.
Call ==
    /\ phase = "idle"
    /\ phase' = "busy"
    /\ step' = step + 1
    /\ UNCHANGED <<out, result>>

\* Tokens of the running step, and of no other, reach the caller's buffer.
Write(S) ==
    /\ phase = "busy"
    /\ out' = [s \in Streams |-> IF s \in S THEN step ELSE out[s]]
    /\ UNCHANGED <<phase, step, result>>

\* A call that returns true has sampled every stream.
Return(r) ==
    /\ phase = "busy"
    /\ r = "ok" => \A s \in Streams : out[s] = step
    /\ phase' = "idle"
    /\ result' = r
    /\ UNCHANGED <<step, out>>

\* The pool is destroyed between two calls.
Close ==
    /\ phase = "idle"
    /\ phase' = "closed"
    /\ UNCHANGED <<step, out, result>>

ANext ==
    \/ Call
    \/ \E S \in SUBSET Streams : Write(S)
    \/ \E r \in {"ok", "fail"} : Return(r)
    \/ Close

ASpec == AInit /\ [][ANext]_avars
=============================================================================
