----------------------------- MODULE MCPowCases -----------------------------
(* PowCases with bytes of two bits, a vocabulary of four and a credit      *)
(* table with steps of half a bit.                                         *)
EXTENDS PowCases

MCThresholds == <<16, 11, 8, 5, 4, 2>>

=============================================================================
