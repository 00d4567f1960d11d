------------------------------ MODULE MCMining ------------------------------
(* Mining with two workers and two submitters.                             *)
EXTENDS Mining

CONSTANTS w1, w2, s1, s2

MCWorkers == {w1, w2}
MCSubmitters == {s1, s2}

JobOf(id, seed, fits) == [id |-> id, seed |-> seed, fits |-> fits]

\* One pool changes its seed; no share is found there, since shares and the prompt counter
\* do not meet.  The other sends no seed, and then a model that is not loaded.
MCRigs ==
    {[jobs |-> {JobOf(1, 5, TRUE), JobOf(2, 6, TRUE)},
      double |-> TRUE, found |-> 0],
     [jobs |-> {JobOf(1, 0, TRUE), JobOf(2, 0, FALSE)}, double |-> FALSE, found |-> MaxFound]}

=============================================================================
