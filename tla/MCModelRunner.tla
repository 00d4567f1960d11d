---------------------------- MODULE MCModelRunner ---------------------------
(* Three requests over three rows; every way a worker is run: the only or  *)
(* last rank, or an earlier rank, synchronous or asynchronous, with and    *)
(* without the reordering of decodes before prefills.                      *)
EXTENDS ModelRunner

CONSTANTS q1, q2, q3

MCReqs == {q1, q2, q3}
MCOrder == <<q1, q2, q3>>
MCPrompt == (q1 :> 2) @@ (q2 :> 1) @@ (q3 :> 1)
MCMaxOut == (q1 :> 2) @@ (q2 :> 2) @@ (q3 :> 1)
MCMaxGen == (q1 :> 1) @@ (q2 :> 1) @@ (q3 :> 2)
MCKind == (q1 :> {"pow", "seed", "scores"}) @@ (q2 :> {"penalty", "allowed"}) @@ (q3 :> {"pow"})

Worker(async, last, threshold) == [async |-> async, last |-> last, threshold |-> threshold]
MCModes == {Worker(FALSE, TRUE, None), Worker(TRUE, TRUE, 1),
            Worker(FALSE, FALSE, 1), Worker(TRUE, FALSE, None)}

=============================================================================
