----------------------------- MODULE MCPrecheck -----------------------------
(* Precheck with gate lists of up to three items over four of the gates.   *)
EXTENDS Precheck

MCNamed == {"strict", "near-pin", "prompt-scaffold", "credit-tier"}
=============================================================================
