-------------------------- MODULE MCStratumClient --------------------------
(* StratumClient with two pools, the first of which is down.               *)
EXTENDS StratumClient

CONSTANTS t1, t2

MCSubmitters == {t1, t2}
MCDown == {0}
MCTags == {0, 1}
=============================================================================
